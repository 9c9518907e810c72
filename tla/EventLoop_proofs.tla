--------------------------- MODULE EventLoop_proofs ---------------------------
(***************************************************************************)
(* What the scheduler promises about its coroutines, for every program,    *)
(* any number of coroutines and futures and any channels: each coroutine   *)
(* is in one place, none sleeps on what has happened, what is pending has  *)
(* somebody to settle it, and the loop gives up only when nobody could go  *)
(* on.  Types come first.                                                  *)
(***************************************************************************)
EXTENDS EventLoop, SequenceTheorems, FiniteSetTheorems, TLAPS

(* The order in which a set of coroutines is moved is a sequence of them.  *)
LEMMA InOrderOfType ==
  ASSUME NEW s, NEW S \in SUBSET Coroutine, NEW t \in InOrderOf(s, S)
  PROVE  t \in Seq(Coroutine)
<1>1. Coroutine = 1..MaxCoroutines /\ IsFiniteSet(Coroutine)
  BY FS_Interval, ConstantsAssumption DEF Coroutine
<1>2. IsFiniteSet(S) /\ Cardinality(S) \in Nat
  BY <1>1, FS_Subset, FS_CardinalityType
<1>3. t \in [1..Cardinality(S) -> S]
  BY DEF InOrderOf
<1>4. t \in [1..Cardinality(S) -> Coroutine]
  BY <1>3
<1> QED
  BY <1>2, <1>4, SeqDef

LEMMA WakeType ==
  ASSUME QueueType, NEW first \in Seq(Coroutine), NEW S \in SUBSET Coroutine,
         WakeAfter(first, S)
  PROVE  QueueType'
<1>1. Range(paused) \in SUBSET Coroutine
  BY RangeOfSeq DEF QueueType
<1>2. PICK woken \in InOrderOf(paused, S \ Range(first)),
           still \in InOrderOf(paused, Range(paused) \ (S \cup Range(first))) :
             ready' = ready \o first \o woken /\ paused' = still
  BY DEF WakeAfter
<1>3. woken \in Seq(Coroutine) /\ still \in Seq(Coroutine)
  BY <1>1, <1>2, InOrderOfType
<1> QED
  BY <1>2, <1>3, ConcatProperties DEF QueueType

LEMMA InitType == Init => TypeOK
<1> SUFFICES ASSUME Init PROVE TypeOK
  OBVIOUS
<1>1. Main \in Coroutine
  BY ConstantsAssumption DEF Main, Coroutine
<1>2. LoopType
  BY DEF Init, LoopType
<1>3. QueueType
  BY <1>1, EmptySeq DEF Init, QueueType
<1>4. TaskType
  BY DEF Init, TaskType, Operation, Fresh, Kind
<1>5. ChannelType
  BY EmptySeq DEF Init, ChannelType
<1>6. FutureType
  BY EmptySeq DEF Init, FutureType, FutureState
<1> QED
  BY <1>2, <1>3, <1>4, <1>5, <1>6 DEF TypeOK

(* Operations a coroutine can be asked to execute again.                   *)
LEMMA OperationTypes ==
  /\ Fresh \in Operation /\ Wild \in Operation /\ Ended \in Operation
  /\ \A f \in Future : AwaitFuture(f) \in Operation
  /\ \A h \in Coroutine : AwaitJoin(h) \in Operation
  /\ \A ch \in Channel : SendOp(ch) \in Operation /\ IterateOp(ch) \in Operation
  /\ \A ch \in Channel, w \in LoadWidth : ReceiveOp(ch, w) \in Operation
  /\ \A cs \in Selects : SelectOp(cs) \in Operation
<1>1. \A cs \in Selects : cs \in SUBSET Case
  BY ConstantsAssumption
<1> QED
  BY <1>1 DEF Operation, Fresh, Wild, Ended, AwaitFuture, AwaitJoin, SendOp, IterateOp,
              ReceiveOp, SelectOp

(* The two ways an operation leaves its coroutine.                         *)
LEMMA GoesOnType ==
  ASSUME LoopType, TaskType, NEW c \in Coroutine, NEW S, GoesOn(c, S),
         kind' \in [Coroutine -> Kind], resolves' \in [Coroutine -> Future \cup {Nobody}],
         cancelled' \in [Coroutine -> BOOLEAN]
  PROVE  LoopType' /\ TaskType'
  BY OperationTypes DEF GoesOn, Resume, Counted, LoopType, TaskType, loopVars

LEMMA YieldsType ==
  ASSUME LoopType, TaskType, FutureType, NEW c \in Coroutine, NEW o \in Operation,
         Yields(c, o)
  PROVE  LoopType' /\ TaskType' /\ FutureType'
  BY DEF Yields, Counted, LoopType, TaskType, FutureType, futureVars

LEMMA PassesType ==
  ASSUME TypeOK, NEW c \in Coroutine, Passes(c)
  PROVE  TypeOK'
<1>1. LoopType' /\ TaskType'
  BY GoesOnType DEF Passes, TypeOK, TaskType
<1>2. QueueType' /\ ChannelType' /\ FutureType'
  BY DEF Passes, TypeOK, QueueType, ChannelType, FutureType, queueVars, channelVars, futureVars
<1> QED
  BY <1>1, <1>2 DEF TypeOK

LEMMA ParksType ==
  ASSUME TypeOK, NEW c \in Coroutine, NEW o \in Operation, Parks(c, o)
  PROVE  TypeOK'
<1>1. LoopType' /\ TaskType' /\ FutureType'
  BY YieldsType DEF Parks, TypeOK
<1>2. QueueType' /\ ChannelType'
  BY AppendProperties DEF Parks, TypeOK, QueueType, ChannelType, channelVars
<1> QED
  BY <1>1, <1>2 DEF TypeOK

(* What a coroutine is, however it ends.                                   *)
LEMMA WaitersType ==
  ASSUME QueueType, NEW x
  PROVE  WaitersOfFuture(x) \in SUBSET Coroutine /\ WaitersOfHandle(x) \in SUBSET Coroutine
  BY RangeOfSeq DEF WaitersOfFuture, WaitersOfHandle, QueueType

LEMMA SettleType ==
  ASSUME QueueType, FutureType, NEW c \in Coroutine, NEW st \in {"resolved", "rejected"},
         Settle(c, st)
  PROVE  QueueType' /\ future' \in [Future -> FutureState]
<1>1. CASE UNCHANGED <<future, queueVars>>
  BY <1>1 DEF QueueType, FutureType, queueVars
<1>2. CASE /\ future' = [future EXCEPT ![resolves[c]] = st]
           /\ Wake(WaitersOfFuture(resolves[c]))
  BY <1>2, WaitersType, WakeType, EmptySeq DEF Wake, FutureType, FutureState
<1> QED
  BY <1>1, <1>2 DEF Settle

LEMMA FillHandleType ==
  ASSUME QueueType, TaskType, NEW c \in Coroutine, NEW res \in {"result", "error"},
         FillHandle(c, res)
  PROVE  QueueType' /\ done' \in [Coroutine -> {"no", "result", "error"}]
  BY WaitersType, WakeType, EmptySeq DEF FillHandle, Wake, TaskType

LEMMA ReturnsType ==
  ASSUME TypeOK, NEW c \in Coroutine, Returns(c), QueueType',
         phase' \in {"timers", "exited"}, outcome' \in {outcome, "error"},
         done' \in [Coroutine -> {"no", "result", "error"}],
         future' \in [Future -> FutureState]
  PROVE  TypeOK'
<1>1. LoopType'
  BY DEF Returns, TypeOK, LoopType
<1>2. TaskType'
  BY OperationTypes DEF Returns, TypeOK, TaskType
<1>3. ChannelType' /\ FutureType'
  BY DEF Returns, TypeOK, ChannelType, FutureType, channelVars
<1> QED
  BY <1>1, <1>2, <1>3 DEF TypeOK

LEMMA EndOkType ==
  ASSUME TypeOK, NEW c \in Coroutine, EndOk(c)
  PROVE  TypeOK'
<1>1. /\ QueueType' /\ future' \in [Future -> FutureState]
      /\ done' \in [Coroutine -> {"no", "result", "error"}]
  <2>1. CASE kind[c] = "main"
    BY <2>1 DEF EndOk, TypeOK, QueueType, TaskType, FutureType, queueVars
  <2>2. CASE kind[c] = "go"
    BY <2>2, FillHandleType DEF EndOk, TypeOK, FutureType
  <2>3. CASE kind[c] = "timeout"
    BY <2>3, SettleType DEF EndOk, TypeOK, TaskType
  <2>4. CASE kind[c] \notin {"main", "go", "timeout"}
    BY <2>4, SettleType DEF EndOk, TypeOK, TaskType
  <2> QED
    BY <2>1, <2>2, <2>3, <2>4
<1> QED
  BY <1>1, ReturnsType DEF EndOk

LEMMA EndErrorType ==
  ASSUME TypeOK, NEW c \in Coroutine, EndError(c)
  PROVE  TypeOK'
<1>1. /\ QueueType' /\ future' \in [Future -> FutureState]
      /\ done' \in [Coroutine -> {"no", "result", "error"}]
  <2>1. CASE kind[c] = "main"
    BY <2>1 DEF EndError, TypeOK, QueueType, TaskType, FutureType, queueVars
  <2>2. CASE kind[c] = "go"
    BY <2>2, FillHandleType DEF EndError, TypeOK, FutureType
  <2>3. CASE kind[c] \notin {"main", "go"}
    BY <2>3, SettleType DEF EndError, TypeOK, TaskType
  <2> QED
    BY <2>1, <2>2, <2>3
<1> QED
  BY <1>1, ReturnsType DEF EndError

LEMMA ThrowsType ==
  ASSUME TypeOK, NEW c \in Coroutine, Throws(c)
  PROVE  TypeOK'
  BY PassesType, EndErrorType DEF Throws

(* Channels.                                                               *)
LEMMA OfferFields ==
  ASSUME ChannelType, NEW ch \in Channel
  PROVE  /\ \A i \in DOMAIN waitingSenders[ch] :
              waitingSenders[ch][i].co \in Coroutine /\ waitingSenders[ch][i].val \in Nat
         /\ waitingSenders[ch] # <<>> =>
              /\ Head(waitingSenders[ch]).co \in Coroutine
              /\ Head(waitingSenders[ch]).val \in Nat
              /\ Tail(waitingSenders[ch]) \in Seq(Offer)
<1>1. waitingSenders[ch] \in Seq(Offer)
  BY DEF ChannelType
<1>2. \A i \in DOMAIN waitingSenders[ch] : waitingSenders[ch][i] \in Offer
  BY <1>1, ElementOfSeq
<1>3. waitingSenders[ch] # <<>> =>
        Head(waitingSenders[ch]) \in Offer /\ Tail(waitingSenders[ch]) \in Seq(Offer)
  BY <1>1, HeadTailProperties
<1> QED
  BY <1>2, <1>3 DEF Offer

LEMMA ValuesType ==
  ASSUME ChannelType, NEW ch \in Channel
  PROVE  /\ Values(ch) \in Seq(Nat)
         /\ Len(Values(ch)) = Len(buffer[ch]) + (IF waitingSenders[ch] = <<>> THEN 0 ELSE 1)
         /\ HasValue(ch) => Values(ch) # <<>>
<1>1. buffer[ch] \in Seq(Nat)
  BY DEF ChannelType
<1>2. CASE waitingSenders[ch] = <<>>
  BY <1>1, <1>2, LenProperties DEF Values, HasValue
<1>3. CASE waitingSenders[ch] # <<>>
  <2>1. Head(waitingSenders[ch]).val \in Nat
    BY <1>3, OfferFields
  <2>2. Values(ch) = Append(buffer[ch], Head(waitingSenders[ch]).val)
    BY <1>3 DEF Values
  <2>3. Len(Values(ch)) = Len(buffer[ch]) + 1 /\ Values(ch) \in Seq(Nat) /\ Values(ch) # <<>>
    BY <1>1, <2>1, <2>2, AppendProperties
  <2> QED
    BY <1>3, <2>3
<1> QED
  BY <1>2, <1>3

LEMMA TakeType ==
  ASSUME TypeOK, NEW c \in Coroutine, NEW ch \in Channel, HasValue(ch), Take(c, ch)
  PROVE  TypeOK'
<1>1. Head(Values(ch)) \in Nat /\ Tail(Values(ch)) \in Seq(Nat)
  BY ValuesType, HeadTailProperties DEF TypeOK
<1>2. LoopType' /\ TaskType'
  <2>1. \E S : GoesOn(c, S)
    BY DEF Take
  <2> QED
    BY <2>1, GoesOnType DEF Take, TypeOK, TaskType
<1>3. QueueType'
  <2>1. CASE waitingSenders[ch] = <<>>
    BY <2>1 DEF Take, TypeOK, QueueType
  <2>2. CASE waitingSenders[ch] # <<>>
    <3>1. Head(waitingSenders[ch]).co \in Coroutine
      BY <2>2, OfferFields DEF TypeOK
    <3>2. ready' = Append(ready, Head(waitingSenders[ch]).co) /\ paused' = paused
      BY <2>2 DEF Take
    <3> QED
      BY <3>1, <3>2, AppendProperties DEF TypeOK, QueueType
  <2> QED
    BY <2>1, <2>2
<1>4. ChannelType'
  <2>1. buffer' \in [Channel -> Seq(Nat)] /\ delivered' \in [Channel -> Seq(Nat)]
    BY <1>1, AppendProperties DEF Take, TypeOK, ChannelType
  <2>2. waitingSenders' \in [Channel -> Seq(Offer)]
    BY OfferFields DEF Take, TypeOK, ChannelType
  <2> QED
    BY <2>1, <2>2 DEF Take, TypeOK, ChannelType
<1>5. FutureType'
  BY DEF Take, TypeOK, FutureType, futureVars
<1> QED
  BY <1>2, <1>3, <1>4, <1>5 DEF TypeOK

LEMMA GiveType ==
  ASSUME TypeOK, NEW c \in Coroutine, NEW ch \in Channel, waitingReceivers[ch] # <<>>,
         Give(c, ch)
  PROVE  TypeOK'
<1>1. Head(waitingReceivers[ch]) \in Coroutine /\ Tail(waitingReceivers[ch]) \in Seq(Coroutine)
  BY HeadTailProperties DEF TypeOK, ChannelType
<1>2. LoopType' /\ TaskType'
  BY GoesOnType DEF Give, TypeOK, TaskType
<1>3. QueueType'
  BY <1>1, AppendProperties DEF Give, TypeOK, QueueType
<1>4. ChannelType'
  BY SMTT(60), <1>1, AppendProperties DEF Give, TypeOK, ChannelType
<1>5. FutureType'
  BY DEF Give, TypeOK, FutureType, futureVars
<1> QED
  BY <1>2, <1>3, <1>4, <1>5 DEF TypeOK

LEMMA StoreType ==
  ASSUME TypeOK, NEW c \in Coroutine, NEW ch \in Channel, Store(c, ch)
  PROVE  TypeOK'
<1>1. LoopType' /\ TaskType'
  BY GoesOnType DEF Store, TypeOK, TaskType
<1>2. ChannelType'
  BY AppendProperties DEF Store, TypeOK, ChannelType
<1>3. QueueType' /\ FutureType'
  BY DEF Store, TypeOK, QueueType, FutureType, queueVars, futureVars
<1> QED
  BY <1>1, <1>2, <1>3 DEF TypeOK

LEMMA WaitsToSendType ==
  ASSUME TypeOK, NEW c \in Coroutine, NEW ch \in Channel, WaitsToSend(c, ch)
  PROVE  TypeOK'
<1>1. LoopType' /\ TaskType' /\ FutureType'
  BY YieldsType, OperationTypes DEF WaitsToSend, TypeOK
<1>2. [co |-> c, val |-> sent[ch] + 1] \in Offer
  BY DEF Offer, TypeOK, ChannelType
<1>3. ChannelType'
  BY <1>2, AppendProperties DEF WaitsToSend, TypeOK, ChannelType
<1>4. QueueType'
  BY DEF WaitsToSend, TypeOK, QueueType, queueVars
<1> QED
  BY <1>1, <1>3, <1>4 DEF TypeOK

LEMMA WaitsToReceiveType ==
  ASSUME TypeOK, NEW c \in Coroutine, NEW ch \in Channel, NEW o \in Operation,
         WaitsToReceive(c, ch, o)
  PROVE  TypeOK'
<1>1. LoopType' /\ TaskType' /\ FutureType'
  BY YieldsType DEF WaitsToReceive, TypeOK
<1>2. ChannelType'
  BY AppendProperties DEF WaitsToReceive, TypeOK, ChannelType
<1>3. QueueType'
  BY DEF WaitsToReceive, TypeOK, QueueType, queueVars
<1> QED
  BY <1>1, <1>2, <1>3 DEF TypeOK

LEMMA SendType ==
  ASSUME TypeOK, NEW c \in Coroutine, NEW ch \in Channel, Send(c, ch)
  PROVE  TypeOK'
  BY ThrowsType, GiveType, StoreType, WaitsToSendType DEF Send

LEMMA ReceiveType ==
  ASSUME TypeOK, NEW c \in Coroutine, NEW ch \in Channel, NEW w \in LoadWidth,
         Receive(c, ch, w)
  PROVE  TypeOK'
  BY TakeType, PassesType, WaitsToReceiveType, OperationTypes DEF Receive

LEMMA IterateType ==
  ASSUME TypeOK, NEW c \in Coroutine, NEW ch \in Channel, Iterate(c, ch)
  PROVE  TypeOK'
<1>1. CASE HasValue(ch) /\ Take(c, ch)
  BY <1>1, TakeType
<1>2. CASE Passes(c)
  BY <1>2, PassesType
<1>3. CASE WaitsToReceive(c, ch, IterateOp(ch))
  BY <1>3, WaitsToReceiveType, OperationTypes
<1> QED
  BY <1>1, <1>2, <1>3 DEF Iterate, HasValue

LEMMA RunCaseType ==
  ASSUME TypeOK, NEW c \in Coroutine, NEW cs \in Selects, NEW k \in ReadyCases(cs),
         RunCase(c, k)
  PROVE  TypeOK'
<1>1. k[2] \in Channel
  BY ConstantsAssumption DEF ReadyCases, Case
<1> QED
  BY <1>1, TakeType, PassesType, GiveType, StoreType DEF RunCase

LEMMA SelectPollType ==
  ASSUME TypeOK, NEW c \in Coroutine, NEW cs \in Selects, Select(c, cs) \/ Poll(c, cs)
  PROVE  TypeOK'
  BY RunCaseType, ParksType, PassesType, OperationTypes DEF Select, Poll

LEMMA ReleasedType ==
  ASSUME ChannelType, NEW ch \in Channel
  PROVE  Released(ch) \in Seq(Coroutine)
<1>1. waitingReceivers[ch] \in Seq(Coroutine) /\ waitingSenders[ch] \in Seq(Offer)
  BY DEF ChannelType
<1>2. /\ Len(waitingSenders[ch]) \in Nat
      /\ DOMAIN waitingSenders[ch] = 1..Len(waitingSenders[ch])
  BY <1>1, LenProperties
<1>3. [i \in DOMAIN waitingSenders[ch] |-> waitingSenders[ch][i].co]
        \in [1..Len(waitingSenders[ch]) -> Coroutine]
  BY <1>2, OfferFields
<1>4. [i \in DOMAIN waitingSenders[ch] |-> waitingSenders[ch][i].co] \in Seq(Coroutine)
  BY <1>2, <1>3, SeqDef
<1> QED
  BY <1>1, <1>4, ConcatProperties DEF Released

LEMMA RewoundType ==
  ASSUME NEW o \in Operation
  PROVE  Rewound(o) \in Operation
  BY OperationTypes DEF Rewound

LEMMA CloseType ==
  ASSUME TypeOK, NEW c \in Coroutine, NEW ch \in Channel, Close(c, ch)
  PROVE  TypeOK'
<1> DEFINE R == waitingReceivers[ch]
           B == buffer[ch]
           n == IF Len(R) < Len(B) THEN Len(R) ELSE Len(B)
<1>1. B \in Seq(Nat) /\ R \in Seq(Coroutine)
  BY DEF TypeOK, ChannelType
<1>2. n \in 0..Len(B)
  BY <1>1, LenProperties
<1>3. SubSeq(B, 1, n) \in Seq(Nat) /\ SubSeq(B, n + 1, Len(B)) \in Seq(Nat)
  BY <1>1, <1>2, LenProperties, SubSeqProperties
<1>4. LoopType' /\ FutureType'
  BY DEF Close, TypeOK, LoopType, FutureType, loopVars, futureVars
<1>5. QueueType'
  BY ReleasedType, ConcatProperties DEF Close, TypeOK, QueueType
<1>6. TaskType'
  <2>1. redo' \in [Coroutine -> Operation]
    BY RewoundType, OperationTypes DEF Close, TypeOK, TaskType
  <2> QED
    BY <2>1 DEF Close, Counted, TypeOK, TaskType
<1>7. ChannelType'
  <2>1. buffer' = [buffer EXCEPT ![ch] = SubSeq(B, n + 1, Len(B))]
    BY DEF Close
  <2>2. delivered' = [delivered EXCEPT ![ch] = @ \o SubSeq(B, 1, n)]
    BY DEF Close
  <2>3. delivered' \in [Channel -> Seq(Nat)]
    BY <1>3, <2>2, ConcatProperties DEF TypeOK, ChannelType
  <2>4. buffer' \in [Channel -> Seq(Nat)]
    BY <1>3, <2>1 DEF TypeOK, ChannelType
  <2> QED
    BY <2>3, <2>4, EmptySeq DEF Close, TypeOK, ChannelType
<1> QED
  BY <1>4, <1>5, <1>6, <1>7 DEF TypeOK

(* Futures, handles and new coroutines.                                    *)
LEMMA AwaitJoinType ==
  ASSUME TypeOK, NEW c \in Coroutine,
         (\E f \in Future : Await(c, f)) \/ (\E h \in Coroutine : Join(c, h))
  PROVE  TypeOK'
<1>1. ASSUME NEW f \in Future, Await(c, f)
      PROVE  TypeOK'
  BY <1>1, PassesType, ThrowsType, ParksType, OperationTypes DEF Await
<1>2. ASSUME NEW h \in Coroutine, Join(c, h)
      PROVE  TypeOK'
  BY <1>2, PassesType, ThrowsType, ParksType, OperationTypes DEF Join
<1> QED
  BY <1>1, <1>2

LEMMA BornType ==
  ASSUME TaskType, QueueType, NEW d \in Coroutine, NEW k \in {"go", "async", "timeout"},
         Born(d, k), paused' = paused
  PROVE  QueueType' /\ kind' \in [Coroutine -> Kind]
  BY AppendProperties DEF Born, TaskType, QueueType, Kind

LEMMA FileTimerType ==
  ASSUME timers \in Seq(Timer), NEW t \in Timer, FileTimer(t)
  PROVE  timers' \in Seq(Timer)
<1>1. PICK i \in 0..Len(timers) :
        timers' = SubSeq(timers, 1, i) \o <<t>> \o SubSeq(timers, i + 1, Len(timers))
  BY DEF FileTimer
<1>2. SubSeq(timers, 1, i) \in Seq(Timer) /\ SubSeq(timers, i + 1, Len(timers)) \in Seq(Timer)
  BY LenProperties, SubSeqProperties
<1>3. <<t>> \in Seq(Timer)
  OBVIOUS
<1> QED
  BY <1>1, <1>2, <1>3, ConcatProperties

LEMMA CreatesType ==
  ASSUME TypeOK, NEW c \in Coroutine, Creates(c), QueueType', timers' \in Seq(Timer),
         kind' \in [Coroutine -> Kind], resolves' \in [Coroutine -> Future \cup {Nobody}],
         future' \in [Future -> FutureState], inflight' \subseteq Future
  PROVE  TypeOK'
<1>1. LoopType' /\ TaskType'
  BY GoesOnType DEF Creates, TypeOK, TaskType
<1>2. ChannelType' /\ FutureType'
  BY DEF Creates, TypeOK, ChannelType, FutureType, channelVars
<1> QED
  BY <1>1, <1>2 DEF TypeOK

LEMMA SpawnType ==
  ASSUME TypeOK, NEW c \in Coroutine, NEW d \in Coroutine, Go(c, d)
  PROVE  TypeOK'
  BY BornType, CreatesType DEF Go, Creates, TypeOK, TaskType, FutureType

LEMMA CreationType ==
  ASSUME TypeOK, NEW c \in Coroutine, NEW d \in Coroutine, NEW f \in Future,
         CallAsync(c, d, f) \/ Timeout(c, d, f) \/ Sleep(c, f) \/ Http(c, f) \/ InvalidCall(c, f)
  PROVE  TypeOK'
<1> USE DEF TypeOK, TaskType, FutureType, FutureState, Pending, Creates
<1>1. CASE CallAsync(c, d, f)
  BY <1>1, BornType, CreatesType DEF CallAsync
<1>2. CASE Timeout(c, d, f)
  <2>1. [future |-> f, sub |-> d] \in Timer
    BY DEF Timer
  <2>2. timers' \in Seq(Timer)
    BY <1>2, <2>1, FileTimerType DEF Timeout
  <2> QED
    BY <1>2, <2>2, BornType, CreatesType DEF Timeout
<1>3. CASE Sleep(c, f)
  <2>1. [future |-> f, sub |-> Nobody] \in Timer
    BY DEF Timer
  <2>2. timers' \in Seq(Timer)
    BY <1>3, <2>1, FileTimerType DEF Sleep
  <2> QED
    BY <1>3, <2>2, CreatesType DEF Sleep, QueueType
<1>4. CASE Http(c, f)
  BY <1>4, CreatesType DEF Http, QueueType
<1>5. CASE InvalidCall(c, f)
  BY <1>5, CreatesType DEF InvalidCall, QueueType
<1> QED
  BY <1>1, <1>2, <1>3, <1>4, <1>5

LEMMA CancelType ==
  ASSUME TypeOK, NEW c \in Coroutine, NEW h \in Coroutine, Cancel(c, h)
  PROVE  TypeOK'
<1>1. LoopType' /\ TaskType'
  BY GoesOnType DEF Cancel, TypeOK, TaskType
<1>2. QueueType' /\ ChannelType' /\ FutureType'
  BY DEF Cancel, TypeOK, QueueType, ChannelType, FutureType, queueVars, channelVars, futureVars
<1> QED
  BY <1>1, <1>2 DEF TypeOK

LEMMA ExecuteType ==
  ASSUME TypeOK, NEW c \in Coroutine, Execute(c)
  PROVE  TypeOK'
<1>1. CASE Finish(c) \/ CancelledAtSafepoint(c)
  BY <1>1, EndOkType, EndErrorType, ThrowsType DEF Finish, CancelledAtSafepoint
<1>2. ASSUME NEW ch \in Channel,
             Send(c, ch) \/ (\E w \in LoadWidth : Receive(c, ch, w)) \/ Iterate(c, ch) \/ Close(c, ch)
      PROVE  TypeOK'
  BY <1>2, SendType, ReceiveType, IterateType, CloseType
<1>3. CASE \E cs \in Selects : Select(c, cs) \/ Poll(c, cs)
  BY <1>3, SelectPollType
<1>4. CASE \E h \in Coroutine : Join(c, h) \/ Cancel(c, h) \/ Go(c, h)
  BY <1>4, AwaitJoinType, CancelType, SpawnType
<1>5. ASSUME NEW f \in Future,
             \/ Await(c, f)
             \/ Sleep(c, f)
             \/ Http(c, f)
             \/ InvalidCall(c, f)
             \/ \E d \in Coroutine : CallAsync(c, d, f) \/ Timeout(c, d, f)
      PROVE  TypeOK'
  BY <1>5, AwaitJoinType, CreationType
<1> QED
  BY <1>1, <1>2, <1>3, <1>4, <1>5 DEF Execute

(* The loop.                                                               *)
LEMMA FireTimerType ==
  ASSUME TypeOK, FireTimer
  PROVE  TypeOK'
<1> DEFINE t == Head(timers)
<1>1. t \in Timer /\ Tail(timers) \in Seq(Timer)
  BY HeadTailProperties DEF FireTimer, TypeOK, FutureType
<1>2. QueueType' /\ future' \in [Future -> FutureState] /\ cancelled' \in [Coroutine -> BOOLEAN]
  <2>1. CASE UNCHANGED <<future, cancelled, queueVars>>
    BY <2>1 DEF TypeOK, QueueType, FutureType, TaskType, queueVars
  <2>2. CASE /\ future' = [future EXCEPT ![t.future] =
                             IF t.sub = Nobody THEN "resolved" ELSE "rejected"]
             /\ cancelled' = [c \in Coroutine |-> cancelled[c] \/ c = t.sub]
             /\ WakeAfter(SubToWake(t), WaitersOfFuture(t.future))
    <3>1. SubToWake(t) \in Seq(Coroutine)
      <4>1. Range(paused) \in SUBSET Coroutine
        BY RangeOfSeq DEF TypeOK, QueueType
      <4> QED
        BY <4>1, EmptySeq DEF SubToWake
    <3>2. QueueType'
      BY <2>2, <3>1, WaitersType, WakeType DEF TypeOK
    <3>3. future' \in [Future -> FutureState]
      BY <1>1, <2>2 DEF TypeOK, FutureType, FutureState, Timer
    <3>4. cancelled' \in [Coroutine -> BOOLEAN]
      <4>1. \A c \in Coroutine : (cancelled[c] \/ c = t.sub) \in BOOLEAN
        OBVIOUS
      <4> QED
        BY <2>2, <4>1
    <3> QED
      BY <3>2, <3>3, <3>4
  <2> QED
    BY <2>1, <2>2 DEF FireTimer
<1>3. LoopType' /\ TaskType' /\ ChannelType'
  BY <1>2 DEF FireTimer, TypeOK, LoopType, TaskType, ChannelType, channelVars
<1>4. FutureType'
  BY <1>1, <1>2 DEF FireTimer, TypeOK, FutureType
<1> QED
  BY <1>2, <1>3, <1>4 DEF TypeOK

LEMMA DrainType ==
  ASSUME TypeOK, Drain
  PROVE  TypeOK'
<1> DEFINE f == Head(completions)
<1>1. f \in Future /\ Tail(completions) \in Seq(Future)
  BY HeadTailProperties DEF Drain, TypeOK, FutureType
<1>2. QueueType' /\ future' \in [Future -> FutureState]
  <2>1. CASE UNCHANGED <<future, queueVars>>
    BY <2>1 DEF TypeOK, QueueType, FutureType, queueVars
  <2>2. CASE /\ \E s \in {"resolved", "rejected"} : future' = [future EXCEPT ![f] = s]
             /\ Wake(WaitersOfFuture(f))
    BY <2>2, WaitersType, WakeType, EmptySeq DEF Wake, TypeOK, FutureType, FutureState
  <2> QED
    BY <2>1, <2>2 DEF Drain
<1>3. LoopType' /\ TaskType' /\ ChannelType'
  BY DEF Drain, TypeOK, LoopType, TaskType, ChannelType, loopVars, taskVars, channelVars
<1>4. FutureType'
  BY <1>1, <1>2 DEF Drain, TypeOK, FutureType
<1> QED
  BY <1>2, <1>3, <1>4 DEF TypeOK

LEMMA LoopStepType ==
  ASSUME TypeOK, NEW p \in {"timers", "drain", "pop"}, LoopStep(p), QueueType',
         slept' \in BOOLEAN, UNCHANGED futureVars
  PROVE  TypeOK'
  BY DEF LoopStep, TypeOK, LoopType, TaskType, ChannelType, FutureType, taskVars, channelVars,
         futureVars

LEMMA LoopReturnsType ==
  ASSUME TypeOK, NEW r \in {"ok", "deadlock"}, LoopReturns(r)
  PROVE  TypeOK'
  BY DEF LoopReturns, TypeOK, LoopType, QueueType, TaskType, ChannelType, FutureType,
         queueVars, taskVars, channelVars, futureVars

LEMMA LoopActionType ==
  ASSUME TypeOK, Loop
  PROVE  TypeOK'
<1>1. QueueType /\ slept \in BOOLEAN
  BY DEF TypeOK, LoopType
<1>2. UNCHANGED queueVars => QueueType'
  BY <1>1 DEF QueueType, queueVars
<1>3. CASE TimersDone
  BY <1>1, <1>2, <1>3, LoopStepType DEF TimersDone
<1>4. CASE Drained
  BY <1>1, <1>2, <1>4, LoopStepType DEF Drained
<1>5. CASE SleepUntilDeadline
  BY <1>1, <1>2, <1>5, LoopStepType DEF SleepUntilDeadline
<1>6. CASE WaitForThreads
  BY <1>1, <1>2, <1>6, LoopStepType DEF WaitForThreads
<1>7. CASE TryWakeSelects
  <2>1. WakeableSelects \in SUBSET Coroutine
    BY RangeOfSeq DEF WakeableSelects, TypeOK, QueueType
  <2>2. QueueType'
    BY <1>1, <1>7, <2>1, WakeType, EmptySeq DEF TryWakeSelects, Wake
  <2> QED
    BY <1>1, <1>7, <2>2, LoopStepType DEF TryWakeSelects
<1>8. CASE PopReady
  <2>1. Head(ready) \in Coroutine /\ Tail(ready) \in Seq(Coroutine)
    BY <1>8, HeadTailProperties DEF PopReady, TypeOK, QueueType
  <2> QED
    BY <1>8, <2>1 DEF PopReady, TypeOK, LoopType, QueueType, TaskType, ChannelType, FutureType,
                      taskVars, channelVars, futureVars
<1>9. CASE ReturnOk \/ ReturnBlocked \/ ReturnDeadlock
  BY <1>9, LoopReturnsType DEF ReturnOk, ReturnBlocked, ReturnDeadlock
<1> QED
  BY <1>3, <1>4, <1>5, <1>6, <1>7, <1>8, <1>9, FireTimerType, DrainType DEF Loop

LEMMA PostCompletionType ==
  ASSUME TypeOK, NEW f \in Future, PostCompletion(f)
  PROVE  TypeOK'
<1>1. FutureType'
  BY AppendProperties DEF PostCompletion, TypeOK, FutureType
<1> QED
  BY <1>1 DEF PostCompletion, TypeOK, LoopType, QueueType, TaskType, ChannelType,
              loopVars, queueVars, taskVars, channelVars

LEMMA NextType == TypeOK /\ [Next]_vars => TypeOK'
<1> SUFFICES ASSUME TypeOK, [Next]_vars PROVE TypeOK'
  OBVIOUS
<1>1. CASE UNCHANGED vars
  BY <1>1 DEF vars, TypeOK, LoopType, QueueType, TaskType, ChannelType, FutureType,
              loopVars, queueVars, taskVars, channelVars, futureVars
<1>2. CASE Next
  BY <1>1, <1>2, ExecuteType, LoopActionType, PostCompletionType DEF Next, Returned
<1> QED
  BY <1>1, <1>2

(* Every variable keeps its type (the model's shape: who is where, what    *)
(* every coroutine will execute, the channels, futures and timers).        *)
THEOREM TypeCorrect == Spec => []TypeOK
<1>1. Init => TypeOK
  BY InitType
<1>2. TypeOK /\ [Next]_vars => TypeOK'
  BY NextType
<1> QED
  BY <1>1, <1>2, PTL DEF Spec

-----------------------------------------------------------------------------
(* The discipline of channels.  It is inductive together with the types: a *)
(* sender only waits in a channel without room and a receiver in one       *)
(* without values, and whoever changes that serves the queue at once.      *)
LEMMA UnusedChannels ==
  ASSUME ChannelDiscipline, UNCHANGED channelVars
  PROVE  ChannelDiscipline'
  BY DEF ChannelDiscipline, Disciplined, channelVars

(* An operation on channel ch leaves the others alone.                     *)
Untouched(d) ==
  /\ buffer'[d] = buffer[d] /\ closed'[d] = closed[d]
  /\ waitingReceivers'[d] = waitingReceivers[d] /\ waitingSenders'[d] = waitingSenders[d]

LEMMA OneChannel ==
  ASSUME ChannelDiscipline, NEW ch \in Channel, Disciplined(ch)',
         \A d \in Channel \ {ch} : Untouched(d)
  PROVE  ChannelDiscipline'
  BY DEF ChannelDiscipline, Disciplined, Untouched

LEMMA ChannelFacts ==
  ASSUME TypeOK, ChannelDiscipline, NEW ch \in Channel
  PROVE  Disciplined(ch) /\ Len(buffer[ch]) \in Nat /\ Capacity[ch] \in Nat
  BY LenProperties, ConstantsAssumption DEF ChannelDiscipline, TypeOK, ChannelType

LEMMA TakeDiscipline ==
  ASSUME TypeOK, ChannelDiscipline, NEW c \in Coroutine, NEW ch \in Channel,
         HasValue(ch), Take(c, ch)
  PROVE  ChannelDiscipline'
<1>1. waitingReceivers[ch] = <<>>
  BY DEF ChannelDiscipline, Disciplined, HasValue
<1>2. Len(Tail(Values(ch))) = Len(Values(ch)) - 1
  BY ValuesType, HeadTailProperties DEF TypeOK
<1>3. Len(Values(ch)) = Len(buffer[ch]) + (IF waitingSenders[ch] = <<>> THEN 0 ELSE 1)
  BY ValuesType DEF TypeOK
<1>4. /\ buffer'[ch] = Tail(Values(ch)) /\ closed'[ch] = closed[ch]
      /\ waitingReceivers'[ch] = <<>>
  BY <1>1 DEF Take, TypeOK, ChannelType
<1>5. waitingSenders'[ch] = IF waitingSenders[ch] = <<>> THEN <<>> ELSE Tail(waitingSenders[ch])
  BY DEF Take, TypeOK, ChannelType
<1>6. Disciplined(ch)'
  <2>1. Len(Values(ch)) \in Nat /\ Len(buffer'[ch]) = Len(Values(ch)) - 1
    BY <1>2, <1>4, ValuesType, LenProperties DEF TypeOK
  <2>2. CASE waitingSenders[ch] = <<>>
    <3>1. Len(buffer'[ch]) = Len(buffer[ch]) - 1
      BY <1>3, <2>1, <2>2
    <3>2. Len(buffer'[ch]) <= Capacity[ch]
      BY <3>1, ChannelFacts DEF Disciplined
    <3> QED
      BY <1>4, <1>5, <2>2, <3>2 DEF Disciplined
  <2>3. CASE waitingSenders[ch] # <<>>
    <3>1. Len(buffer'[ch]) = Len(buffer[ch])
      BY <1>3, <2>1, <2>3, ChannelFacts
    <3>2. Len(buffer'[ch]) = Capacity[ch] /\ ~closed'[ch]
      BY <1>4, <2>3, <3>1, ChannelFacts DEF Disciplined
    <3> QED
      BY <1>4, <3>2, ChannelFacts DEF Disciplined
  <2> QED
    BY <2>2, <2>3
<1>7. \A d \in Channel \ {ch} : Untouched(d)
  BY DEF Take, Untouched, TypeOK, ChannelType
<1> QED
  BY <1>6, <1>7, OneChannel

LEMMA GiveDiscipline ==
  ASSUME TypeOK, ChannelDiscipline, NEW c \in Coroutine, NEW ch \in Channel,
         waitingReceivers[ch] # <<>>, Give(c, ch)
  PROVE  ChannelDiscipline'
<1>1. UNCHANGED <<buffer, closed, waitingSenders>>
  BY DEF Give
<1>2. Disciplined(ch)'
  BY <1>1, ChannelFacts DEF Disciplined
<1>3. \A d \in Channel \ {ch} : Untouched(d)
  BY <1>1 DEF Give, Untouched, TypeOK, ChannelType
<1> QED
  BY <1>2, <1>3, OneChannel

LEMMA StoreDiscipline ==
  ASSUME TypeOK, ChannelDiscipline, NEW c \in Coroutine, NEW ch \in Channel,
         waitingReceivers[ch] = <<>>, HasRoom(ch), Store(c, ch)
  PROVE  ChannelDiscipline'
<1>1. UNCHANGED <<closed, waitingSenders, waitingReceivers>>
  BY DEF Store
<1>2. buffer'[ch] = Append(buffer[ch], sent[ch] + 1)
  BY DEF Store, TypeOK, ChannelType
<1>3. Len(buffer'[ch]) = Len(buffer[ch]) + 1
  BY <1>2, AppendProperties DEF TypeOK, ChannelType
<1>4. Disciplined(ch)'
  BY <1>1, <1>3, ChannelFacts DEF Disciplined, HasRoom
<1>5. \A d \in Channel \ {ch} : Untouched(d)
  BY <1>1 DEF Store, Untouched, TypeOK, ChannelType
<1> QED
  BY <1>4, <1>5, OneChannel

LEMMA WaitsToSendDiscipline ==
  ASSUME TypeOK, ChannelDiscipline, NEW c \in Coroutine, NEW ch \in Channel,
         ~closed[ch], waitingReceivers[ch] = <<>>, ~HasRoom(ch), WaitsToSend(c, ch)
  PROVE  ChannelDiscipline'
<1>1. UNCHANGED <<closed, buffer, waitingReceivers>>
  BY DEF WaitsToSend
<1>2. Disciplined(ch)'
  BY <1>1, ChannelFacts DEF Disciplined, HasRoom
<1>3. \A d \in Channel \ {ch} : Untouched(d)
  BY <1>1 DEF WaitsToSend, Untouched, TypeOK, ChannelType
<1> QED
  BY <1>2, <1>3, OneChannel

LEMMA WaitsToReceiveDiscipline ==
  ASSUME TypeOK, ChannelDiscipline, NEW c \in Coroutine, NEW ch \in Channel, NEW o,
         ~closed[ch], ~HasValue(ch), WaitsToReceive(c, ch, o)
  PROVE  ChannelDiscipline'
<1>1. UNCHANGED <<closed, buffer, waitingSenders>>
  BY DEF WaitsToReceive
<1>2. Disciplined(ch)'
  BY <1>1, ChannelFacts DEF Disciplined, HasValue
<1>3. \A d \in Channel \ {ch} : Untouched(d)
  BY <1>1 DEF WaitsToReceive, Untouched, TypeOK, ChannelType
<1> QED
  BY <1>2, <1>3, OneChannel

LEMMA CloseDiscipline ==
  ASSUME TypeOK, ChannelDiscipline, NEW c \in Coroutine, NEW ch \in Channel, Close(c, ch)
  PROVE  ChannelDiscipline'
<1> DEFINE B == buffer[ch]
           n == IF Len(waitingReceivers[ch]) < Len(B) THEN Len(waitingReceivers[ch]) ELSE Len(B)
<1>1. B \in Seq(Nat) /\ Len(B) \in Nat /\ n \in 0..Len(B)
  BY LenProperties DEF TypeOK, ChannelType
<1>2. Len(SubSeq(B, n + 1, Len(B))) <= Len(B)
  <2> HIDE DEF n, B
  <2>1. n + 1 \in 1..(Len(B) + 1) /\ Len(B) \in ((n + 1) - 1)..Len(B)
    BY <1>1
  <2>2. Len(SubSeq(B, n + 1, Len(B))) = Len(B) - (n + 1) + 1
    BY <1>1, <2>1, SubSeqProperties
  <2> QED
    BY <1>1, <2>2
<1>3. buffer'[ch] = SubSeq(B, n + 1, Len(B))
  BY DEF Close, TypeOK, ChannelType
<1>4. waitingReceivers'[ch] = <<>> /\ waitingSenders'[ch] = <<>>
  BY DEF Close, TypeOK, ChannelType
<1>5. Len(buffer'[ch]) \in Nat
  BY <1>3, CloseType, LenProperties DEF TypeOK, ChannelType
<1>6. Disciplined(ch)'
  <2>1. Len(buffer'[ch]) <= Len(B) /\ Len(B) \in Nat /\ Len(B) <= Capacity[ch] /\ Capacity[ch] \in Nat
    BY <1>1, <1>2, <1>3, ChannelFacts DEF Disciplined
  <2>2. Len(buffer'[ch]) <= Capacity[ch]
    BY <1>5, <2>1
  <2> QED
    BY <1>4, <2>2 DEF Disciplined
<1>7. \A d \in Channel \ {ch} : Untouched(d)
  BY DEF Close, Untouched, TypeOK, ChannelType
<1> QED
  BY <1>6, <1>7, OneChannel

LEMMA RunCaseDiscipline ==
  ASSUME TypeOK, ChannelDiscipline, NEW c \in Coroutine, NEW cs \in Selects,
         NEW k \in ReadyCases(cs), RunCase(c, k)
  PROVE  ChannelDiscipline'
<1>1. k[2] \in Channel /\ IsReady(k)
  BY ConstantsAssumption DEF ReadyCases, Case
<1>2. CASE Passes(c)
  BY <1>2, UnusedChannels DEF Passes
<1>3. CASE HasValue(k[2]) /\ Take(c, k[2])
  BY <1>1, <1>3, TakeDiscipline
<1>4. CASE waitingReceivers[k[2]] # <<>> /\ Give(c, k[2])
  BY <1>1, <1>4, GiveDiscipline
<1>5. CASE waitingReceivers[k[2]] = <<>> /\ k[1] # "receive" /\ Store(c, k[2])
  BY <1>1, <1>5, StoreDiscipline DEF IsReady
<1> QED
  BY <1>2, <1>3, <1>4, <1>5 DEF RunCase

LEMMA EndDiscipline ==
  ASSUME ChannelDiscipline, NEW c \in Coroutine,
         EndOk(c) \/ EndError(c) \/ Passes(c) \/ Throws(c)
  PROVE  ChannelDiscipline'
  BY UnusedChannels DEF EndOk, EndError, Passes, Throws, Returns

LEMMA ChannelStepDiscipline ==
  ASSUME TypeOK, ChannelDiscipline, NEW c \in Coroutine, NEW ch \in Channel,
         Send(c, ch) \/ (\E w \in LoadWidth : Receive(c, ch, w)) \/ Iterate(c, ch) \/ Close(c, ch)
  PROVE  ChannelDiscipline'
<1>1. CASE Send(c, ch)
  BY <1>1, EndDiscipline, GiveDiscipline, StoreDiscipline, WaitsToSendDiscipline DEF Send
<1>2. CASE \E w \in LoadWidth : Receive(c, ch, w)
  BY <1>2, EndDiscipline, TakeDiscipline, WaitsToReceiveDiscipline DEF Receive
<1>3. CASE Iterate(c, ch)
  <2>1. CASE HasValue(ch) /\ Take(c, ch)
    BY <2>1, TakeDiscipline
  <2>2. CASE Passes(c)
    BY <2>2, EndDiscipline
  <2>3. CASE ~HasValue(ch) /\ ~closed[ch] /\ WaitsToReceive(c, ch, IterateOp(ch))
    BY <2>3, WaitsToReceiveDiscipline
  <2> QED
    BY <1>3, <2>1, <2>2, <2>3 DEF Iterate, HasValue
<1>4. CASE Close(c, ch)
  BY <1>4, CloseDiscipline
<1> QED
  BY <1>1, <1>2, <1>3, <1>4

LEMMA ExecuteDiscipline ==
  ASSUME TypeOK, ChannelDiscipline, NEW c \in Coroutine, Execute(c)
  PROVE  ChannelDiscipline'
<1>1. CASE Finish(c) \/ CancelledAtSafepoint(c)
  BY <1>1, EndDiscipline DEF Finish, CancelledAtSafepoint
<1>2. ASSUME NEW ch \in Channel,
             Send(c, ch) \/ (\E w \in LoadWidth : Receive(c, ch, w)) \/ Iterate(c, ch) \/ Close(c, ch)
      PROVE  ChannelDiscipline'
  BY <1>2, ChannelStepDiscipline
<1>3. ASSUME NEW cs \in Selects, Select(c, cs) \/ Poll(c, cs)
      PROVE  ChannelDiscipline'
  BY <1>3, RunCaseDiscipline, EndDiscipline, UnusedChannels DEF Select, Poll, Parks
<1>4. ASSUME NEW h \in Coroutine, Join(c, h) \/ Cancel(c, h) \/ Go(c, h)
      PROVE  ChannelDiscipline'
  BY <1>4, EndDiscipline, UnusedChannels DEF Join, Cancel, Go, Creates, Parks
<1>5. ASSUME NEW f \in Future, Await(c, f)
      PROVE  ChannelDiscipline'
  BY <1>5, EndDiscipline, UnusedChannels DEF Await, Parks
<1>6. ASSUME NEW f \in Future,
             \/ Sleep(c, f)
             \/ Http(c, f)
             \/ InvalidCall(c, f)
             \/ \E d \in Coroutine : CallAsync(c, d, f) \/ Timeout(c, d, f)
      PROVE  ChannelDiscipline'
  BY <1>6, UnusedChannels DEF Sleep, Http, InvalidCall, CallAsync, Timeout, Creates
<1> QED
  BY <1>1, <1>2, <1>3, <1>4, <1>5, <1>6 DEF Execute

LEMMA LoopDiscipline ==
  ASSUME ChannelDiscipline, Loop \/ (\E f \in Future : PostCompletion(f)) \/ Returned
  PROVE  ChannelDiscipline'
<1>1. UNCHANGED channelVars
  BY DEF Loop, ReturnOk, FireTimer, TimersDone, Drain, Drained, PopReady, TryWakeSelects,
         ReturnBlocked, SleepUntilDeadline, WaitForThreads, ReturnDeadlock, LoopStep,
         LoopReturns, PostCompletion, Returned, vars
<1> QED
  BY <1>1, UnusedChannels

(* A channel never holds back a value from a waiting receiver nor room     *)
(* from a waiting sender, for any capacities, coroutines and program:      *)
(* SEND, RECEIVE, FOR_ITER, SELECT and close() keep their queues served.   *)
THEOREM ChannelsAreDisciplined == Spec => []ChannelDiscipline
<1>1. Init => TypeOK /\ ChannelDiscipline
  <2>1. Init => ChannelDiscipline
    BY ConstantsAssumption, EmptySeq DEF Init, ChannelDiscipline, Disciplined
  <2> QED
    BY <2>1, InitType
<1>2. TypeOK /\ ChannelDiscipline /\ [Next]_vars => TypeOK' /\ ChannelDiscipline'
  <2> SUFFICES ASSUME TypeOK, ChannelDiscipline, [Next]_vars PROVE ChannelDiscipline'
    BY NextType
  <2>1. CASE UNCHANGED vars
    BY <2>1, UnusedChannels DEF vars
  <2>2. CASE Next
    BY <2>2, ExecuteDiscipline, LoopDiscipline DEF Next
  <2> QED
    BY <2>1, <2>2
<1> QED
  BY <1>1, <1>2, PTL DEF Spec

-----------------------------------------------------------------------------
(* Sequences without duplicates, and what they contain.                    *)
LEMMA AppendRange ==
  ASSUME NEW S, NEW s \in Seq(S), NEW x \in S
  PROVE  /\ Append(s, x) \in Seq(S)
         /\ Range(Append(s, x)) = Range(s) \cup {x}
         /\ IsInjective(s) /\ x \notin Range(s) => IsInjective(Append(s, x))
<1>1. /\ Append(s, x) \in Seq(S) /\ Len(Append(s, x)) = Len(s) + 1 /\ Len(s) \in Nat
      /\ \A i \in 1..Len(s) : Append(s, x)[i] = s[i]
      /\ Append(s, x)[Len(s) + 1] = x
  BY AppendProperties, LenProperties
<1>2. DOMAIN s = 1..Len(s) /\ DOMAIN Append(s, x) = 1..(Len(s) + 1)
  BY <1>1, LenProperties
<1>3. 1..(Len(s) + 1) = (1..Len(s)) \cup {Len(s) + 1}
  BY <1>1
<1>4. Range(Append(s, x)) = Range(s) \cup {x}
  BY <1>1, <1>2, <1>3 DEF Range
<1>5. ASSUME IsInjective(s), x \notin Range(s)
      PROVE  IsInjective(Append(s, x))
  BY <1>1, <1>2, <1>3, <1>5 DEF Range, IsInjective
<1> QED
  BY <1>1, <1>4, <1>5

LEMMA TailRange ==
  ASSUME NEW S, NEW s \in Seq(S), s # <<>>
  PROVE  /\ Head(s) \in Range(s) /\ Head(s) \in S /\ Tail(s) \in Seq(S)
         /\ Range(Tail(s)) \subseteq Range(s) /\ Range(s) \ {Head(s)} \subseteq Range(Tail(s))
         /\ IsInjective(s) => /\ IsInjective(Tail(s))
                              /\ Range(Tail(s)) = Range(s) \ {Head(s)}
<1>1. /\ Tail(s) \in Seq(S) /\ Len(Tail(s)) = Len(s) - 1 /\ Head(s) \in S
      /\ \A i \in 1..Len(Tail(s)) : Tail(s)[i] = s[i + 1]
  BY HeadTailProperties
<1>2. /\ DOMAIN s = 1..Len(s) /\ DOMAIN Tail(s) = 1..(Len(s) - 1)
      /\ Len(s) \in Nat \ {0} /\ Head(s) = s[1]
  BY <1>1, LenProperties, EmptySeq
<1>3. Head(s) \in Range(s) /\ Range(Tail(s)) \subseteq Range(s)
  BY <1>1, <1>2 DEF Range
<1>4. ASSUME NEW x \in Range(s), x # Head(s)
      PROVE  x \in Range(Tail(s))
  <2>1. PICK i \in 1..Len(s) : s[i] = x
    BY <1>2 DEF Range
  <2>2. i # 1 /\ i - 1 \in 1..(Len(s) - 1) /\ (i - 1) + 1 = i
    BY <1>2, <1>4, <2>1
  <2>3. Tail(s)[i - 1] = x
    BY <1>1, <2>1, <2>2
  <2> QED
    BY <1>2, <2>2, <2>3 DEF Range
<1>5. ASSUME IsInjective(s)
      PROVE  IsInjective(Tail(s)) /\ Range(Tail(s)) = Range(s) \ {Head(s)}
  <2>1. IsInjective(Tail(s))
    BY <1>1, <1>2, <1>5 DEF IsInjective
  <2>2. Head(s) \notin Range(Tail(s))
    BY <1>1, <1>2, <1>5 DEF IsInjective, Range
  <2> QED
    BY <1>3, <1>4, <2>1, <2>2
<1> QED
  BY <1>1, <1>3, <1>4, <1>5

LEMMA ConcatInjective ==
  ASSUME NEW S, NEW s \in Seq(S), NEW t \in Seq(S), IsInjective(s), IsInjective(t),
         Range(s) \cap Range(t) = {}
  PROVE  s \o t \in Seq(S) /\ IsInjective(s \o t) /\ Range(s \o t) = Range(s) \cup Range(t)
<1>1. /\ s \o t \in Seq(S) /\ Len(s \o t) = Len(s) + Len(t)
      /\ \A i \in 1..Len(s) + Len(t) : (s \o t)[i] = IF i <= Len(s) THEN s[i] ELSE t[i - Len(s)]
  BY ConcatProperties
<1>2. /\ DOMAIN s = 1..Len(s) /\ DOMAIN t = 1..Len(t) /\ DOMAIN (s \o t) = 1..(Len(s) + Len(t))
      /\ Len(s) \in Nat /\ Len(t) \in Nat
  BY <1>1, LenProperties
<1>3. \A i \in DOMAIN s, j \in DOMAIN t : s[i] # t[j]
  BY DEF Range
<1>4. \A i \in DOMAIN (s \o t) :
        \/ i \in DOMAIN s /\ (s \o t)[i] = s[i]
        \/ i \notin DOMAIN s /\ i - Len(s) \in DOMAIN t /\ (s \o t)[i] = t[i - Len(s)]
  BY <1>1, <1>2
<1>5. ASSUME NEW i \in DOMAIN (s \o t), NEW j \in DOMAIN (s \o t), (s \o t)[i] = (s \o t)[j]
      PROVE  i = j
  <2>1. CASE i \in DOMAIN s /\ j \in DOMAIN s
    BY <1>4, <1>5, <2>1 DEF IsInjective
  <2>2. CASE i \notin DOMAIN s /\ j \notin DOMAIN s
    <3>1. i - Len(s) = j - Len(s)
      BY <1>4, <1>5, <2>2 DEF IsInjective
    <3> QED
      BY <1>2, <3>1
  <2> QED
    BY <1>3, <1>4, <1>5, <2>1, <2>2
<1> QED
  BY <1>1, <1>5, RangeConcatenation DEF IsInjective

(* The order in which a set of paused coroutines is moved has each of them *)
(* once.                                                                   *)
LEMMA InOrderExact ==
  ASSUME NEW s \in Seq(Coroutine), IsInjective(s), NEW S \in SUBSET Range(s),
         NEW t \in InOrderOf(s, S)
  PROVE  t \in Seq(Coroutine) /\ IsInjective(t) /\ Range(t) = S
<1>1. S \in SUBSET Coroutine
  BY RangeOfSeq
<1>2. t \in Seq(Coroutine)
  BY <1>1, InOrderOfType
<1>3. IsFiniteSet(S) /\ Cardinality(S) \in Nat
  <2>1. IsFiniteSet(Coroutine)
    BY FS_Interval, ConstantsAssumption DEF Coroutine
  <2> QED
    BY <1>1, <2>1, FS_Subset, FS_CardinalityType
<1>4. /\ t \in [1..Cardinality(S) -> S] /\ DOMAIN t = 1..Cardinality(S)
      /\ \A i, j \in DOMAIN t :
           i < j => \E a, b \in DOMAIN s : a < b /\ s[a] = t[i] /\ s[b] = t[j]
  BY DEF InOrderOf
<1>5. DOMAIN s = 1..Len(s) /\ Len(s) \in Nat
  BY LenProperties
<1>6. IsInjective(t)
  <2>1. ASSUME NEW i \in DOMAIN t, NEW j \in DOMAIN t, t[i] = t[j], i < j
        PROVE  FALSE
    <3>1. PICK a \in DOMAIN s, b \in DOMAIN s : a < b /\ s[a] = t[i] /\ s[b] = t[j]
      BY <1>4, <2>1
    <3>2. a = b
      BY <2>1, <3>1 DEF IsInjective
    <3> QED
      BY <1>5, <3>1, <3>2
  <2>2. \A i, j \in DOMAIN t : i = j \/ i < j \/ j < i
    BY <1>3, <1>4
  <2> QED
    BY <2>1, <2>2 DEF IsInjective
<1>7. t \in Injection(1..Cardinality(S), S)
  BY <1>4, <1>6 DEF Injection
<1>8. Cardinality(1..Cardinality(S)) = Cardinality(S)
  BY <1>3, FS_Interval
<1>9. t \in Surjection(1..Cardinality(S), S)
  BY <1>3, <1>7, <1>8, FS_Injection
<1> QED
  BY <1>2, <1>4, <1>6, <1>9 DEF Surjection, Range

-----------------------------------------------------------------------------
(* Who is where, as sets: the running coroutine, those ready, those        *)
(* paused, and per channel those that wait to send and to receive.         *)
Alone(cur, R, P, S, W, L, c) ==
  /\ (cur = c) => (c \notin R /\ c \notin P)
  /\ (c \in R) => (c \notin P)
  /\ (cur = c \/ c \in R \/ c \in P) => \A ch \in Channel : c \notin S[ch] /\ c \notin W[ch]
  /\ \A ch, d \in Channel : (c \in S[ch]) => (c \notin W[d])
  /\ \A ch, d \in Channel : (c \in S[ch] /\ c \in S[d]) => (ch = d)
  /\ \A ch, d \in Channel : (c \in W[ch] /\ c \in W[d]) => (ch = d)
  /\ (c \in L) <=> \/ cur = c \/ c \in R \/ c \in P
                   \/ \E ch \in Channel : c \in S[ch] \/ c \in W[ch]
Apart(cur, R, P, S, W, L) == \A c \in Coroutine : Alone(cur, R, P, S, W, L, c)

LEMMA NobodyIsNoCoroutine == Nobody \notin Coroutine
  BY DEF Nobody, Coroutine

LEMMA SenderBecomesReady ==
  ASSUME NEW cur, NEW R, NEW P, NEW S \in [Channel -> SUBSET Coroutine], NEW W, NEW L,
         Apart(cur, R, P, S, W, L), NEW ch \in Channel, NEW x \in S[ch]
  PROVE  Apart(cur, R \cup {x}, P, [S EXCEPT ![ch] = @ \ {x}], W, L)
  BY DEF Apart, Alone

LEMMA ReceiverBecomesReady ==
  ASSUME NEW cur, NEW R, NEW P, NEW S, NEW W \in [Channel -> SUBSET Coroutine], NEW L,
         Apart(cur, R, P, S, W, L), NEW ch \in Channel, NEW x \in W[ch]
  PROVE  Apart(cur, R \cup {x}, P, S, [W EXCEPT ![ch] = @ \ {x}], L)
  BY DEF Apart, Alone

LEMMA CurrentParks ==
  ASSUME NEW cur, NEW R, NEW P, NEW S \in [Channel -> SUBSET Coroutine],
         NEW W \in [Channel -> SUBSET Coroutine], NEW L,
         Apart(cur, R, P, S, W, L), cur \in Coroutine
  PROVE  /\ Apart(Nobody, R, P \cup {cur}, S, W, L)
         /\ \A ch \in Channel : /\ Apart(Nobody, R, P, [S EXCEPT ![ch] = @ \cup {cur}], W, L)
                                /\ Apart(Nobody, R, P, S, [W EXCEPT ![ch] = @ \cup {cur}], L)
  BY NobodyIsNoCoroutine DEF Apart, Alone

LEMMA PausedBecomeReady ==
  ASSUME NEW cur, NEW R, NEW P, NEW S, NEW W, NEW L,
         Apart(cur, R, P, S, W, L), NEW M \in SUBSET P
  PROVE  Apart(cur, R \cup M, P \ M, S, W, L)
  BY DEF Apart, Alone

LEMMA ReadyRuns ==
  ASSUME NEW R, NEW P, NEW S, NEW W, NEW L,
         Apart(Nobody, R, P, S, W, L), NEW x \in R
  PROVE  Apart(x, R \ {x}, P, S, W, L)
  BY NobodyIsNoCoroutine DEF Apart, Alone

LEMMA CurrentEnds ==
  ASSUME NEW cur, NEW R, NEW P, NEW S, NEW W, NEW L,
         Apart(cur, R, P, S, W, L)
  PROVE  Apart(Nobody, R, P, S, W, L \ {cur})
  BY NobodyIsNoCoroutine DEF Apart, Alone

LEMMA NewbornIsReady ==
  ASSUME NEW cur, NEW R, NEW P, NEW S, NEW W, NEW L,
         Apart(cur, R, P, S, W, L), NEW d \in Coroutine, d \notin L
  PROVE  Apart(cur, R \cup {d}, P, S, W, L \cup {d})
  BY DEF Apart, Alone

LEMMA ChannelReleases ==
  ASSUME NEW cur, NEW R, NEW P, NEW S \in [Channel -> SUBSET Coroutine],
         NEW W \in [Channel -> SUBSET Coroutine], NEW L,
         Apart(cur, R, P, S, W, L), NEW ch \in Channel
  PROVE  Apart(cur, R \cup W[ch] \cup S[ch], P, [S EXCEPT ![ch] = {}], [W EXCEPT ![ch] = {}], L)
  BY DEF Apart, Alone

-----------------------------------------------------------------------------
(* What a sequence of offers says about its coroutines and its values: one *)
(* field of its elements, position by position.                            *)
Mapped(q, g) == [i \in DOMAIN q |-> g[q[i]]]

LEMMA MappedSequence ==
  ASSUME NEW S, NEW T, NEW q \in Seq(S), NEW g \in [S -> T]
  PROVE  /\ Mapped(q, g) \in Seq(T) /\ Len(Mapped(q, g)) = Len(q)
         /\ Mapped(q, g) = <<>> <=> q = <<>>
         /\ \A o \in S : Mapped(Append(q, o), g) = Append(Mapped(q, g), g[o])
         /\ q # <<>> => /\ Head(Mapped(q, g)) = g[Head(q)]
                        /\ Tail(Mapped(q, g)) = Mapped(Tail(q), g)
<1>1. Len(q) \in Nat /\ DOMAIN q = 1..Len(q) /\ \A i \in 1..Len(q) : q[i] \in S
  BY LenProperties, ElementOfSeq
<1>2. Mapped(q, g) \in [1..Len(q) -> T]
  BY <1>1 DEF Mapped
<1>3. Mapped(q, g) \in Seq(T)
  BY <1>1, <1>2, SeqDef
<1>4. /\ Len(Mapped(q, g)) = Len(q) /\ DOMAIN Mapped(q, g) = 1..Len(q)
      /\ \A i \in 1..Len(q) : Mapped(q, g)[i] = g[q[i]]
  <2>1. DOMAIN Mapped(q, g) = 1..Len(q) /\ \A i \in 1..Len(q) : Mapped(q, g)[i] = g[q[i]]
    BY <1>1 DEF Mapped
  <2>2. Len(Mapped(q, g)) \in Nat /\ 1..Len(Mapped(q, g)) = 1..Len(q)
    BY <1>3, <2>1, LenProperties
  <2> QED
    BY <1>1, <2>1, <2>2
<1>5. Mapped(q, g) = <<>> <=> q = <<>>
  BY <1>1, <1>3, <1>4, EmptySeq
<1>6. ASSUME NEW o \in S
      PROVE  Mapped(Append(q, o), g) = Append(Mapped(q, g), g[o])
  <2>1. /\ Append(q, o) \in Seq(S) /\ Len(Append(q, o)) = Len(q) + 1
        /\ \A i \in 1..Len(q) : Append(q, o)[i] = q[i]
        /\ Append(q, o)[Len(q) + 1] = o
    BY AppendProperties
  <2>2. DOMAIN Append(q, o) = 1..(Len(q) + 1)
    BY <2>1, LenProperties
  <2>3. /\ Append(Mapped(q, g), g[o]) \in Seq(T)
        /\ Len(Append(Mapped(q, g), g[o])) = Len(q) + 1
        /\ \A i \in 1..Len(q) : Append(Mapped(q, g), g[o])[i] = g[q[i]]
        /\ Append(Mapped(q, g), g[o])[Len(q) + 1] = g[o]
    BY <1>3, <1>4, AppendProperties
  <2>4. DOMAIN Append(Mapped(q, g), g[o]) = 1..(Len(q) + 1)
    BY <2>3, LenProperties
  <2>5. Append(Mapped(q, g), g[o]) = [i \in 1..(Len(q) + 1) |-> Append(Mapped(q, g), g[o])[i]]
    BY <2>3, <2>4, LenProperties
  <2>6. \A i \in 1..(Len(q) + 1) : g[Append(q, o)[i]] = Append(Mapped(q, g), g[o])[i]
    BY <1>1, <2>1, <2>3
  <2> QED
    BY <2>2, <2>5, <2>6 DEF Mapped
<1>7. ASSUME q # <<>>
      PROVE  Head(Mapped(q, g)) = g[Head(q)] /\ Tail(Mapped(q, g)) = Mapped(Tail(q), g)
  <2>1. /\ Tail(q) \in Seq(S) /\ Len(Tail(q)) = Len(q) - 1 /\ Len(q) \in Nat \ {0}
        /\ \A i \in 1..Len(Tail(q)) : Tail(q)[i] = q[i + 1]
    BY <1>7, HeadTailProperties, EmptySeq
  <2>2. DOMAIN Tail(q) = 1..(Len(q) - 1)
    BY <2>1, LenProperties
  <2>3. /\ Tail(Mapped(q, g)) \in Seq(T) /\ Len(Tail(Mapped(q, g))) = Len(q) - 1
        /\ \A i \in 1..Len(Tail(Mapped(q, g))) : Tail(Mapped(q, g))[i] = Mapped(q, g)[i + 1]
    BY <1>3, <1>4, <1>5, <1>7, HeadTailProperties
  <2>4. /\ DOMAIN Tail(Mapped(q, g)) = 1..(Len(q) - 1)
        /\ Tail(Mapped(q, g)) = [i \in 1..(Len(q) - 1) |-> Tail(Mapped(q, g))[i]]
    BY <2>3, LenProperties
  <2>5. \A i \in 1..(Len(q) - 1) : g[Tail(q)[i]] = Tail(Mapped(q, g))[i]
    BY <1>4, <2>1, <2>3
  <2>6. Tail(Mapped(q, g)) = Mapped(Tail(q), g)
    BY <2>2, <2>4, <2>5 DEF Mapped
  <2>7. Head(Mapped(q, g)) = Mapped(q, g)[1] /\ Head(q) = q[1]
    BY <1>3, <1>5, <1>7
  <2> QED
    BY <1>4, <2>1, <2>6, <2>7
<1> QED
  BY <1>3, <1>4, <1>5, <1>6, <1>7

CoOf  == [o \in Offer |-> o.co]
ValOf == [o \in Offer |-> o.val]

LEMMA OfferMaps ==
  /\ CoOf \in [Offer -> Coroutine] /\ ValOf \in [Offer -> Nat]
  /\ \A o \in Offer : CoOf[o] = o.co /\ ValOf[o] = o.val
  BY DEF CoOf, ValOf, Offer

LEMMA OffersMapped ==
  ASSUME NEW q \in Seq(Offer)
  PROVE  /\ Mapped(q, CoOf) \in Seq(Coroutine) /\ Mapped(q, ValOf) \in Seq(Nat)
         /\ \A o \in Offer : /\ Mapped(Append(q, o), CoOf) = Append(Mapped(q, CoOf), o.co)
                             /\ Mapped(Append(q, o), ValOf) = Append(Mapped(q, ValOf), o.val)
         /\ q # <<>> =>
              /\ Mapped(q, CoOf) # <<>> /\ Mapped(q, ValOf) # <<>>
              /\ Head(Mapped(q, CoOf)) = Head(q).co /\ Head(Mapped(q, ValOf)) = Head(q).val
              /\ Tail(Mapped(q, CoOf)) = Mapped(Tail(q), CoOf)
              /\ Tail(Mapped(q, ValOf)) = Mapped(Tail(q), ValOf)
<1>1. CoOf \in [Offer -> Coroutine] /\ ValOf \in [Offer -> Nat]
  BY OfferMaps
<1>2. /\ Mapped(q, CoOf) \in Seq(Coroutine)
      /\ Mapped(q, CoOf) = <<>> <=> q = <<>>
      /\ \A o \in Offer : Mapped(Append(q, o), CoOf) = Append(Mapped(q, CoOf), CoOf[o])
      /\ q # <<>> => /\ Head(Mapped(q, CoOf)) = CoOf[Head(q)]
                     /\ Tail(Mapped(q, CoOf)) = Mapped(Tail(q), CoOf)
  <2>1. Mapped(q, CoOf) \in Seq(Coroutine)
    BY <1>1, MappedSequence
  <2>2. Mapped(q, CoOf) = <<>> <=> q = <<>>
    BY <1>1, <2>1, MappedSequence
  <2>3. \A o \in Offer : Mapped(Append(q, o), CoOf) = Append(Mapped(q, CoOf), CoOf[o])
    BY <1>1, <2>1, MappedSequence
  <2>4. q # <<>> => /\ Head(Mapped(q, CoOf)) = CoOf[Head(q)]
                    /\ Tail(Mapped(q, CoOf)) = Mapped(Tail(q), CoOf)
    BY <1>1, <2>1, MappedSequence
  <2> QED
    BY <2>1, <2>2, <2>3, <2>4
<1>3. /\ Mapped(q, ValOf) \in Seq(Nat)
      /\ Mapped(q, ValOf) = <<>> <=> q = <<>>
      /\ \A o \in Offer : Mapped(Append(q, o), ValOf) = Append(Mapped(q, ValOf), ValOf[o])
      /\ q # <<>> => /\ Head(Mapped(q, ValOf)) = ValOf[Head(q)]
                     /\ Tail(Mapped(q, ValOf)) = Mapped(Tail(q), ValOf)
  <2>1. Mapped(q, ValOf) \in Seq(Nat)
    BY <1>1, MappedSequence
  <2>2. Mapped(q, ValOf) = <<>> <=> q = <<>>
    BY <1>1, <2>1, MappedSequence
  <2>3. \A o \in Offer : Mapped(Append(q, o), ValOf) = Append(Mapped(q, ValOf), ValOf[o])
    BY <1>1, <2>1, MappedSequence
  <2>4. q # <<>> => /\ Head(Mapped(q, ValOf)) = ValOf[Head(q)]
                    /\ Tail(Mapped(q, ValOf)) = Mapped(Tail(q), ValOf)
    BY <1>1, <2>1, MappedSequence
  <2> QED
    BY <2>1, <2>2, <2>3, <2>4
<1>4. q # <<>> => Head(q) \in Offer
  BY HeadTailProperties
<1> QED
  BY <1>2, <1>3, <1>4, OfferMaps

LEMMA SendersMapped ==
  ASSUME ChannelType, NEW ch \in Channel
  PROVE  /\ waitingSenders[ch] \in Seq(Offer)
         /\ SendersOf(ch) = Mapped(waitingSenders[ch], CoOf)
         /\ [i \in DOMAIN waitingSenders[ch] |-> waitingSenders[ch][i].val]
              = Mapped(waitingSenders[ch], ValOf)
<1>1. waitingSenders[ch] \in Seq(Offer)
  BY DEF ChannelType
<1>2. \A i \in DOMAIN waitingSenders[ch] : waitingSenders[ch][i] \in Offer
  BY <1>1, ElementOfSeq, LenProperties
<1> QED
  BY <1>1, <1>2, OfferMaps DEF SendersOf, Mapped

LEMMA SendersMappedNext ==
  ASSUME ChannelType', NEW ch \in Channel
  PROVE  /\ waitingSenders'[ch] \in Seq(Offer)
         /\ SendersOf(ch)' = Mapped(waitingSenders'[ch], CoOf)
         /\ [i \in DOMAIN waitingSenders'[ch] |-> waitingSenders'[ch][i].val]
              = Mapped(waitingSenders'[ch], ValOf)
<1>1. waitingSenders'[ch] \in Seq(Offer)
  BY DEF ChannelType
<1>2. \A i \in DOMAIN waitingSenders'[ch] : waitingSenders'[ch][i] \in Offer
  BY <1>1, ElementOfSeq, LenProperties
<1> QED
  BY <1>1, <1>2, OfferMaps DEF SendersOf, Mapped

-----------------------------------------------------------------------------
(* A coroutine that has not ended is in one place, and only such.          *)
SendersIn   == [ch \in Channel |-> Range(SendersOf(ch))]
ReceiversIn == [ch \in Channel |-> Range(waitingReceivers[ch])]
Alive == {c \in Coroutine : Live(c)}

Distinct ==
  /\ IsInjective(ready) /\ IsInjective(paused)
  /\ \A ch \in Channel : IsInjective(SendersOf(ch)) /\ IsInjective(waitingReceivers[ch])
Separate == Apart(current, Range(ready), Range(paused), SendersIn, ReceiversIn, Alive)
PlaceInv == Distinct /\ Separate

LEMMA PlaceTypes ==
  ASSUME TypeOK
  PROVE  /\ SendersIn \in [Channel -> SUBSET Coroutine]
         /\ ReceiversIn \in [Channel -> SUBSET Coroutine]
         /\ ready \in Seq(Coroutine) /\ paused \in Seq(Coroutine)
         /\ Range(ready) \in SUBSET Coroutine /\ Range(paused) \in SUBSET Coroutine
         /\ \A ch \in Channel : /\ SendersOf(ch) \in Seq(Coroutine)
                                /\ waitingReceivers[ch] \in Seq(Coroutine)
<1>1. ready \in Seq(Coroutine) /\ paused \in Seq(Coroutine)
  BY DEF TypeOK, QueueType
<1>2. ASSUME NEW ch \in Channel
      PROVE  SendersOf(ch) \in Seq(Coroutine) /\ waitingReceivers[ch] \in Seq(Coroutine)
  BY SendersMapped, MappedSequence, OfferMaps DEF TypeOK, ChannelType
<1>3. \A ch \in Channel : /\ Range(SendersOf(ch)) \in SUBSET Coroutine
                          /\ Range(waitingReceivers[ch]) \in SUBSET Coroutine
  BY <1>2, RangeOfSeq
<1> QED
  BY <1>1, <1>2, <1>3, RangeOfSeq DEF SendersIn, ReceiversIn

LEMMA NobodyMoves ==
  ASSUME PlaceInv, UNCHANGED <<current, ready, paused, waitingSenders, waitingReceivers>>,
         Alive' = Alive
  PROVE  PlaceInv'
<1>1. SendersIn' = SendersIn /\ ReceiversIn' = ReceiversIn
  BY DEF SendersIn, ReceiversIn, SendersOf
<1>2. Distinct'
  BY DEF PlaceInv, Distinct, SendersOf
<1> QED
  BY <1>1, <1>2 DEF PlaceInv, Separate

(* No operation a coroutine waits in is the mark of one that ended.        *)
LEMMA Unended ==
  /\ Fresh # Ended /\ Wild # Ended
  /\ \A x : AwaitFuture(x) # Ended /\ AwaitJoin(x) # Ended /\ SendOp(x) # Ended
            /\ IterateOp(x) # Ended /\ SelectOp(x) # Ended
  /\ \A x, w : ReceiveOp(x, w) # Ended
  BY DEF Fresh, Wild, Ended, AwaitFuture, AwaitJoin, SendOp, IterateOp, SelectOp, ReceiveOp

LEMMA GoesOnAlive ==
  ASSUME TypeOK, NEW c \in Alive, NEW S \in SUBSET Alive, GoesOn(c, S), UNCHANGED kind
  PROVE  Alive' = Alive
<1>1. \A d \in Coroutine : redo'[d] = IF d = c \/ d \in S THEN Fresh ELSE redo[d]
  BY DEF GoesOn, Resume
<1>2. \A d \in Coroutine : Live(d)' <=> Live(d)
  BY <1>1, Unended DEF Live, Alive
<1> QED
  BY <1>2 DEF Alive

LEMMA YieldsAlive ==
  ASSUME TypeOK, NEW c \in Alive, NEW o, o # Ended, Yields(c, o)
  PROVE  Alive' = Alive
<1>1. \A d \in Coroutine : redo'[d] = IF d = c THEN o ELSE redo[d]
  BY DEF Yields, TypeOK, TaskType
<1>2. \A d \in Coroutine : Live(d)' <=> Live(d)
  BY <1>1 DEF Live, Alive, Yields
<1> QED
  BY <1>2 DEF Alive

LEMMA CurrentIsAlive ==
  ASSUME PlaceInv, NEW c \in Coroutine, current = c
  PROVE  c \in Alive
  BY DEF PlaceInv, Separate, Apart, Alone

LEMMA WaitersAreAlive ==
  ASSUME TypeOK, PlaceInv
  PROVE  /\ Range(ready) \subseteq Alive /\ Range(paused) \subseteq Alive
         /\ \A ch \in Channel : SendersIn[ch] \subseteq Alive /\ ReceiversIn[ch] \subseteq Alive
  BY PlaceTypes DEF PlaceInv, Separate, Apart, Alone

(* What SEND, RECEIVE, FOR_ITER and SELECT move.                           *)
LEMMA OthersWaitAsBefore ==
  ASSUME ChannelType, ChannelType', NEW ch \in Channel,
         \A d \in Channel \ {ch} : /\ waitingSenders'[d] = waitingSenders[d]
                                   /\ waitingReceivers'[d] = waitingReceivers[d]
  PROVE  /\ SendersIn' = [SendersIn EXCEPT ![ch] = Range(SendersOf(ch)')]
         /\ ReceiversIn' = [ReceiversIn EXCEPT ![ch] = Range(waitingReceivers'[ch])]
         /\ \A d \in Channel \ {ch} : SendersOf(d)' = SendersOf(d)
<1>1. \A d \in Channel \ {ch} : SendersOf(d)' = SendersOf(d)
  BY DEF SendersOf
<1> QED
  BY <1>1 DEF SendersIn, ReceiversIn

LEMMA TakePlace ==
  ASSUME TypeOK, TypeOK', PlaceInv, NEW c \in Coroutine, current = c, NEW ch \in Channel,
         Take(c, ch)
  PROVE  PlaceInv'
<1> DEFINE q == waitingSenders[ch]
<1>1. UNCHANGED <<current, paused, waitingReceivers, kind>> /\ c \in Alive
  BY CurrentIsAlive DEF Take, GoesOn, loopVars
<1>2. CASE q = <<>>
  <2>1. GoesOn(c, {}) /\ UNCHANGED <<waitingSenders, ready>>
    BY <1>2 DEF Take
  <2> QED
    BY <1>1, <2>1, GoesOnAlive, NobodyMoves
<1>3. CASE q # <<>>
  <2> DEFINE x == Head(q).co
  <2>1. /\ GoesOn(c, {x}) /\ ready' = Append(ready, x)
        /\ waitingSenders' = [waitingSenders EXCEPT ![ch] = Tail(@)]
    BY <1>3 DEF Take
  <2>2. /\ q \in Seq(Offer) /\ Head(q) \in Offer /\ SendersOf(ch) = Mapped(q, CoOf)
        /\ waitingSenders'[ch] = Tail(q)
    BY <1>3, <2>1, SendersMapped, HeadTailProperties DEF TypeOK, ChannelType
  <2>3. /\ SendersOf(ch) \in Seq(Coroutine) /\ SendersOf(ch) # <<>> /\ Head(SendersOf(ch)) = x
        /\ SendersOf(ch)' = Tail(SendersOf(ch))
    <3>1. SendersOf(ch)' = Mapped(Tail(q), CoOf)
      BY <2>2, SendersMappedNext DEF TypeOK
    <3>2. /\ SendersOf(ch) \in Seq(Coroutine) /\ SendersOf(ch) # <<>>
          /\ Head(SendersOf(ch)) = CoOf[Head(q)] /\ Tail(SendersOf(ch)) = Mapped(Tail(q), CoOf)
      BY <1>3, <2>2, OffersMapped, OfferMaps
    <3> QED
      BY <2>2, <3>1, <3>2, OfferMaps
  <2>4. /\ x \in Range(SendersOf(ch)) /\ x \in Coroutine
        /\ IsInjective(SendersOf(ch)') /\ Range(SendersOf(ch)') = Range(SendersOf(ch)) \ {x}
    BY <2>3, TailRange DEF PlaceInv, Distinct
  <2>5. /\ SendersIn' = [SendersIn EXCEPT ![ch] = Range(SendersOf(ch)')]
        /\ ReceiversIn' = ReceiversIn
        /\ \A d \in Channel \ {ch} : SendersOf(d)' = SendersOf(d)
    BY <1>1, <2>1, OthersWaitAsBefore DEF TypeOK, ChannelType, ReceiversIn
  <2>6. x \in SendersIn[ch] /\ SendersIn' = [SendersIn EXCEPT ![ch] = @ \ {x}]
    BY <2>4, <2>5 DEF SendersIn
  <2>7. x \notin Range(ready)
    BY <2>4, <2>6 DEF PlaceInv, Separate, Apart, Alone
  <2>8. Range(ready') = Range(ready) \cup {x} /\ IsInjective(ready')
    BY <2>1, <2>4, <2>7, AppendRange, PlaceTypes DEF PlaceInv, Distinct
  <2>9. Distinct'
    BY <1>1, <2>4, <2>5, <2>8 DEF PlaceInv, Distinct
  <2>10. Alive' = Alive
    BY <1>1, <2>1, <2>6, GoesOnAlive, WaitersAreAlive
  <2>11. Apart(current, Range(ready) \cup {x}, Range(paused), [SendersIn EXCEPT ![ch] = @ \ {x}],
                ReceiversIn, Alive)
    BY <2>6, SenderBecomesReady, PlaceTypes DEF PlaceInv, Separate
  <2>12. Separate'
    BY <1>1, <2>5, <2>6, <2>8, <2>10, <2>11 DEF Separate
  <2> QED
    BY <2>9, <2>12 DEF PlaceInv
<1> QED
  BY <1>2, <1>3

LEMMA GivePlace ==
  ASSUME TypeOK, TypeOK', PlaceInv, NEW c \in Coroutine, current = c, NEW ch \in Channel,
         waitingReceivers[ch] # <<>>, Give(c, ch)
  PROVE  PlaceInv'
<1> DEFINE x == Head(waitingReceivers[ch])
<1>1. /\ UNCHANGED <<current, paused, waitingSenders, kind>> /\ c \in Alive
      /\ GoesOn(c, {x}) /\ ready' = Append(ready, x)
      /\ waitingReceivers' = [waitingReceivers EXCEPT ![ch] = Tail(@)]
  BY CurrentIsAlive DEF Give, GoesOn, loopVars
<1>2. waitingReceivers[ch] \in Seq(Coroutine) /\ waitingReceivers'[ch] = Tail(waitingReceivers[ch])
  BY <1>1 DEF TypeOK, ChannelType
<1>3. /\ x \in Range(waitingReceivers[ch]) /\ x \in Coroutine
      /\ IsInjective(waitingReceivers'[ch])
      /\ Range(waitingReceivers'[ch]) = Range(waitingReceivers[ch]) \ {x}
  BY <1>2, TailRange DEF PlaceInv, Distinct
<1>4. /\ \A d \in Channel : SendersOf(d)' = SendersOf(d)
      /\ \A d \in Channel \ {ch} : waitingReceivers'[d] = waitingReceivers[d]
  BY <1>1 DEF SendersOf, TypeOK, ChannelType
<1>5. /\ SendersIn' = SendersIn /\ x \in ReceiversIn[ch]
      /\ ReceiversIn' = [ReceiversIn EXCEPT ![ch] = @ \ {x}]
  BY <1>3, <1>4 DEF SendersIn, ReceiversIn
<1>6. x \notin Range(ready)
  BY <1>3, <1>5 DEF PlaceInv, Separate, Apart, Alone
<1>7. Range(ready') = Range(ready) \cup {x} /\ IsInjective(ready')
  BY <1>1, <1>3, <1>6, AppendRange, PlaceTypes DEF PlaceInv, Distinct
<1>8. Distinct'
  BY <1>1, <1>3, <1>4, <1>7 DEF PlaceInv, Distinct
<1>9. Alive' = Alive
  BY <1>1, <1>5, GoesOnAlive, WaitersAreAlive
<1>10. Apart(current, Range(ready) \cup {x}, Range(paused), SendersIn,
             [ReceiversIn EXCEPT ![ch] = @ \ {x}], Alive)
  BY <1>5, ReceiverBecomesReady, PlaceTypes DEF PlaceInv, Separate
<1>11. Separate'
  BY <1>1, <1>5, <1>7, <1>9, <1>10 DEF Separate
<1> QED
  BY <1>8, <1>11 DEF PlaceInv

LEMMA PassesPlace ==
  ASSUME TypeOK, PlaceInv, NEW c \in Coroutine, current = c, Passes(c)
  PROVE  PlaceInv'
  BY CurrentIsAlive, GoesOnAlive, NobodyMoves DEF Passes, GoesOn, loopVars, queueVars, channelVars

LEMMA StorePlace ==
  ASSUME TypeOK, PlaceInv, NEW c \in Coroutine, current = c, NEW ch \in Channel, Store(c, ch)
  PROVE  PlaceInv'
  BY CurrentIsAlive, GoesOnAlive, NobodyMoves DEF Store, GoesOn, loopVars, queueVars

LEMMA WaitsToSendPlace ==
  ASSUME TypeOK, TypeOK', PlaceInv, NEW c \in Coroutine, current = c, NEW ch \in Channel,
         WaitsToSend(c, ch)
  PROVE  PlaceInv'
<1> DEFINE o == [co |-> c, val |-> sent[ch] + 1]
<1>1. /\ current' = Nobody /\ UNCHANGED <<ready, paused, waitingReceivers>> /\ c \in Alive
      /\ Alive' = Alive
      /\ waitingSenders' = [waitingSenders EXCEPT ![ch] = Append(@, o)]
  BY CurrentIsAlive, YieldsAlive, Unended DEF WaitsToSend, Yields, queueVars
<1>2. /\ o \in Offer /\ CoOf[o] = c /\ waitingSenders[ch] \in Seq(Offer)
      /\ waitingSenders'[ch] = Append(waitingSenders[ch], o)
  <2>1. sent[ch] + 1 \in Nat
    BY DEF TypeOK, ChannelType
  <2>2. o \in Offer
    BY <2>1 DEF Offer
  <2> QED
    BY <1>1, <2>2, OfferMaps DEF TypeOK, ChannelType
<1>3. SendersOf(ch) \in Seq(Coroutine) /\ SendersOf(ch)' = Append(SendersOf(ch), c)
  <2>1. SendersOf(ch) = Mapped(waitingSenders[ch], CoOf)
        /\ SendersOf(ch)' = Mapped(waitingSenders'[ch], CoOf)
    BY SendersMapped, SendersMappedNext DEF TypeOK
  <2>2. /\ Mapped(waitingSenders[ch], CoOf) \in Seq(Coroutine)
        /\ Mapped(Append(waitingSenders[ch], o), CoOf)
             = Append(Mapped(waitingSenders[ch], CoOf), CoOf[o])
    <3> HIDE DEF o
    <3> QED
      BY ZenonT(60), <1>2, OffersMapped, OfferMaps
  <2> QED
    BY <1>2, <2>1, <2>2
<1>4. c \notin Range(SendersOf(ch))
  BY DEF PlaceInv, Separate, Apart, Alone, SendersIn
<1>5. Range(SendersOf(ch)') = Range(SendersOf(ch)) \cup {c} /\ IsInjective(SendersOf(ch)')
  BY <1>3, <1>4, AppendRange DEF PlaceInv, Distinct
<1>6. /\ SendersIn' = [SendersIn EXCEPT ![ch] = Range(SendersOf(ch)')]
      /\ ReceiversIn' = ReceiversIn
      /\ \A d \in Channel \ {ch} : SendersOf(d)' = SendersOf(d)
  BY <1>1, OthersWaitAsBefore DEF TypeOK, ChannelType, ReceiversIn
<1>7. SendersIn' = [SendersIn EXCEPT ![ch] = @ \cup {c}]
  BY <1>5, <1>6 DEF SendersIn
<1>8. Distinct'
  BY <1>1, <1>5, <1>6 DEF PlaceInv, Distinct
<1>9. Apart(Nobody, Range(ready), Range(paused), [SendersIn EXCEPT ![ch] = @ \cup {c}],
            ReceiversIn, Alive)
  BY CurrentParks, PlaceTypes DEF PlaceInv, Separate
<1>10. Separate'
  BY <1>1, <1>6, <1>7, <1>9 DEF Separate
<1> QED
  BY <1>8, <1>10 DEF PlaceInv

LEMMA WaitsToReceivePlace ==
  ASSUME TypeOK, TypeOK', PlaceInv, NEW c \in Coroutine, current = c, NEW ch \in Channel,
         NEW o, o # Ended, WaitsToReceive(c, ch, o)
  PROVE  PlaceInv'
<1>1. /\ current' = Nobody /\ UNCHANGED <<ready, paused, waitingSenders>> /\ c \in Alive
      /\ Alive' = Alive
      /\ waitingReceivers' = [waitingReceivers EXCEPT ![ch] = Append(@, c)]
  BY CurrentIsAlive, YieldsAlive DEF WaitsToReceive, Yields, queueVars
<1>2. /\ waitingReceivers'[ch] = Append(waitingReceivers[ch], c)
      /\ \A d \in Channel \ {ch} : waitingReceivers'[d] = waitingReceivers[d]
      /\ \A d \in Channel : SendersOf(d)' = SendersOf(d)
  BY <1>1 DEF TypeOK, ChannelType, SendersOf
<1>3. c \notin Range(waitingReceivers[ch])
  BY DEF PlaceInv, Separate, Apart, Alone, ReceiversIn
<1>4. /\ Range(waitingReceivers'[ch]) = Range(waitingReceivers[ch]) \cup {c}
      /\ IsInjective(waitingReceivers'[ch])
  BY <1>2, <1>3, AppendRange, PlaceTypes DEF PlaceInv, Distinct
<1>5. SendersIn' = SendersIn /\ ReceiversIn' = [ReceiversIn EXCEPT ![ch] = @ \cup {c}]
  BY <1>2, <1>4 DEF SendersIn, ReceiversIn
<1>6. Distinct'
  BY <1>1, <1>2, <1>4 DEF PlaceInv, Distinct
<1>7. Apart(Nobody, Range(ready), Range(paused), SendersIn,
            [ReceiversIn EXCEPT ![ch] = @ \cup {c}], Alive)
  BY CurrentParks, PlaceTypes DEF PlaceInv, Separate
<1>8. Separate'
  BY <1>1, <1>5, <1>7 DEF Separate
<1> QED
  BY <1>6, <1>8 DEF PlaceInv

LEMMA ParksPlace ==
  ASSUME TypeOK, PlaceInv, NEW c \in Coroutine, current = c, NEW o, o # Ended, Parks(c, o)
  PROVE  PlaceInv'
<1>1. /\ current' = Nobody /\ UNCHANGED <<ready, waitingSenders, waitingReceivers>> /\ c \in Alive
      /\ Alive' = Alive /\ paused' = Append(paused, c)
  BY CurrentIsAlive, YieldsAlive DEF Parks, Yields, channelVars
<1>2. c \notin Range(paused)
  BY DEF PlaceInv, Separate, Apart, Alone
<1>3. Range(paused') = Range(paused) \cup {c} /\ IsInjective(paused')
  BY <1>1, <1>2, AppendRange, PlaceTypes DEF PlaceInv, Distinct
<1>4. SendersIn' = SendersIn /\ ReceiversIn' = ReceiversIn
  BY <1>1 DEF SendersIn, ReceiversIn, SendersOf
<1>5. Distinct'
  BY <1>1, <1>3 DEF PlaceInv, Distinct, SendersOf
<1>6. Apart(Nobody, Range(ready), Range(paused) \cup {c}, SendersIn, ReceiversIn, Alive)
  BY CurrentParks, PlaceTypes DEF PlaceInv, Separate
<1>7. Separate'
  BY <1>1, <1>3, <1>4, <1>6 DEF Separate
<1> QED
  BY <1>5, <1>7 DEF PlaceInv

-----------------------------------------------------------------------------
(* The paused coroutines M become ready, behind those that are.            *)
Wakes(M) ==
  /\ M \subseteq Range(paused)
  /\ IsInjective(ready') /\ Range(ready') = Range(ready) \cup M
  /\ IsInjective(paused') /\ Range(paused') = Range(paused) \ M
  /\ \E woken \in Seq(Coroutine) : ready' = ready \o woken

LEMMA NobodyWakes ==
  ASSUME TypeOK, PlaceInv, UNCHANGED queueVars
  PROVE  Wakes({})
<1>1. ready' = ready /\ paused' = paused /\ ready \o <<>> = ready /\ <<>> \in Seq(Coroutine)
  BY PlaceTypes, ConcatEmptySeq, EmptySeq DEF queueVars
<1> QED
  BY <1>1 DEF Wakes, PlaceInv, Distinct

LEMMA WakeMoves ==
  ASSUME TypeOK, PlaceInv, NEW first \in Seq(Coroutine), IsInjective(first),
         Range(first) \subseteq Range(paused), NEW S \in SUBSET Range(paused),
         WakeAfter(first, S)
  PROVE  Wakes(S \cup Range(first))
<1>1. /\ ready \in Seq(Coroutine) /\ paused \in Seq(Coroutine)
      /\ IsInjective(ready) /\ IsInjective(paused) /\ Range(paused) \in SUBSET Coroutine
  BY PlaceTypes DEF PlaceInv, Distinct
<1>2. \A x \in Range(paused) : x \notin Range(ready)
  BY <1>1 DEF PlaceInv, Separate, Apart, Alone
<1>3. PICK woken \in InOrderOf(paused, S \ Range(first)),
           still \in InOrderOf(paused, Range(paused) \ (S \cup Range(first))) :
             ready' = ready \o first \o woken /\ paused' = still
  BY DEF WakeAfter
<1>4. /\ woken \in Seq(Coroutine) /\ IsInjective(woken) /\ Range(woken) = S \ Range(first)
      /\ still \in Seq(Coroutine) /\ IsInjective(still)
      /\ Range(still) = Range(paused) \ (S \cup Range(first))
  <2>1. /\ S \ Range(first) \in SUBSET Range(paused)
        /\ Range(paused) \ (S \cup Range(first)) \in SUBSET Range(paused)
    OBVIOUS
  <2>2. woken \in Seq(Coroutine) /\ IsInjective(woken) /\ Range(woken) = S \ Range(first)
    BY <1>1, <2>1, InOrderExact
  <2>3. still \in Seq(Coroutine) /\ IsInjective(still)
        /\ Range(still) = Range(paused) \ (S \cup Range(first))
    BY <1>1, <2>1, InOrderExact
  <2> QED
    BY <2>2, <2>3
<1>5. /\ ready \o first \in Seq(Coroutine) /\ IsInjective(ready \o first)
      /\ Range(ready \o first) = Range(ready) \cup Range(first)
  <2>1. Range(ready) \cap Range(first) = {}
    BY <1>2
  <2> QED
    BY <1>1, <2>1, ConcatInjective
<1>6. /\ IsInjective(ready') /\ Range(ready') = Range(ready) \cup Range(first) \cup Range(woken)
  <2>1. Range(ready \o first) \cap Range(woken) = {}
    BY <1>2, <1>4, <1>5
  <2>2. /\ IsInjective((ready \o first) \o woken)
        /\ Range((ready \o first) \o woken) = Range(ready \o first) \cup Range(woken)
    <3> DEFINE front == ready \o first
    <3>1. /\ front \in Seq(Coroutine) /\ IsInjective(front)
          /\ Range(front) \cap Range(woken) = {}
      BY <1>5, <2>1
    <3> HIDE DEF front
    <3>2. IsInjective(front \o woken) /\ Range(front \o woken) = Range(front) \cup Range(woken)
      BY <1>4, <3>1, ConcatInjective
    <3> QED
      BY <3>2 DEF front
  <2> QED
    BY <1>3, <1>5, <2>2
<1>7. first \o woken \in Seq(Coroutine) /\ ready' = ready \o (first \o woken)
  BY SMTT(60), <1>1, <1>3, <1>4, ConcatAssociative, ConcatProperties
<1> QED
  BY <1>3, <1>4, <1>6, <1>7 DEF Wakes

LEMMA PlainWake ==
  ASSUME TypeOK, PlaceInv, NEW S \in SUBSET Range(paused), Wake(S)
  PROVE  Wakes(S)
<1>1. <<>> \in Seq(Coroutine) /\ IsInjective(<<>>) /\ Range(<<>>) = {}
  BY EmptySeq DEF IsInjective, Range
<1>2. Wakes(S \cup Range(<<>>))
  BY <1>1, WakeMoves DEF Wake
<1> QED
  BY <1>1, <1>2

(* Waking keeps everybody in one place, whether c goes on or has ended.    *)
LEMMA WakesPlace ==
  ASSUME TypeOK, PlaceInv, NEW M, Wakes(M), UNCHANGED <<waitingSenders, waitingReceivers>>,
         \/ UNCHANGED current /\ Alive' = Alive
         \/ current' = Nobody /\ Alive' = Alive \ {current}
  PROVE  PlaceInv'
<1>1. SendersIn' = SendersIn /\ ReceiversIn' = ReceiversIn
  BY DEF SendersIn, ReceiversIn, SendersOf
<1>2. Distinct'
  BY DEF PlaceInv, Distinct, SendersOf, Wakes
<1>3. Apart(current, Range(ready'), Range(paused'), SendersIn, ReceiversIn, Alive)
  <2>1. /\ M \in SUBSET Range(paused) /\ Range(ready') = Range(ready) \cup M
        /\ Range(paused') = Range(paused) \ M
    BY DEF Wakes
  <2>2. Apart(current, Range(ready) \cup M, Range(paused) \ M, SendersIn, ReceiversIn, Alive)
    BY <2>1, PausedBecomeReady DEF PlaceInv, Separate
  <2> QED
    BY <2>1, <2>2
<1>4. Apart(Nobody, Range(ready'), Range(paused'), SendersIn, ReceiversIn, Alive \ {current})
  BY <1>3, CurrentEnds
<1>5. Separate'
  <2>1. CASE UNCHANGED current /\ Alive' = Alive
    BY <1>1, <1>3, <2>1 DEF Separate
  <2>2. CASE current' = Nobody /\ Alive' = Alive \ {current}
    BY <1>1, <1>4, <2>2 DEF Separate
  <2> QED
    BY <2>1, <2>2
<1> QED
  BY <1>2, <1>5 DEF PlaceInv

(* Whom the end of a coroutine, a timer or a completion wakes.             *)
LEMMA SettleWakes ==
  ASSUME TypeOK, PlaceInv, NEW c \in Coroutine, NEW st, Settle(c, st)
  PROVE  \/ /\ resolves[c] # Nobody /\ future[resolves[c]] = "pending"
            /\ future' = [future EXCEPT ![resolves[c]] = st]
            /\ Wakes(WaitersOfFuture(resolves[c]))
         \/ /\ resolves[c] = Nobody \/ future[resolves[c]] # "pending"
            /\ future' = future /\ Wakes({})
<1>1. WaitersOfFuture(resolves[c]) \in SUBSET Range(paused)
  BY DEF WaitersOfFuture
<1> QED
  BY <1>1, PlainWake, NobodyWakes DEF Settle, Unsettled

LEMMA FillHandleWakes ==
  ASSUME TypeOK, PlaceInv, NEW c \in Coroutine, NEW res, FillHandle(c, res)
  PROVE  Wakes(WaitersOfHandle(c))
<1>1. WaitersOfHandle(c) \in SUBSET Range(paused)
  BY DEF WaitersOfHandle
<1> QED
  BY <1>1, PlainWake DEF FillHandle

LEMMA EndWakes ==
  ASSUME TypeOK, PlaceInv, NEW c \in Coroutine, EndOk(c) \/ EndError(c)
  PROVE  \E M : Wakes(M)
<1>1. ASSUME NEW st, Settle(c, st)
      PROVE  \E M : Wakes(M)
  BY <1>1, SettleWakes
<1>2. ASSUME NEW res, FillHandle(c, res)
      PROVE  \E M : Wakes(M)
  BY <1>2, FillHandleWakes
<1> QED
  BY <1>1, <1>2, NobodyWakes DEF EndOk, EndError

LEMMA EndPlace ==
  ASSUME TypeOK, PlaceInv, NEW c \in Coroutine, current = c, EndOk(c) \/ EndError(c)
  PROVE  PlaceInv'
<1>1. Returns(c)
  BY DEF EndOk, EndError
<1>2. current' = Nobody /\ UNCHANGED <<waitingSenders, waitingReceivers, kind>>
  BY <1>1 DEF Returns, channelVars
<1>3. Alive' = Alive \ {c}
  <2>1. \A d \in Coroutine : redo'[d] = IF d = c THEN Ended ELSE redo[d]
    BY <1>1 DEF Returns, TypeOK, TaskType
  <2>2. \A d \in Coroutine : Live(d)' <=> Live(d) /\ d # c
    BY <1>2, <2>1 DEF Live
  <2> QED
    BY <2>2 DEF Alive
<1> QED
  BY <1>2, <1>3, EndWakes, WakesPlace

LEMMA ClosePlace ==
  ASSUME TypeOK, TypeOK', PlaceInv, NEW c \in Coroutine, current = c, NEW ch \in Channel,
         Close(c, ch)
  PROVE  PlaceInv'
<1> DEFINE W == waitingReceivers[ch]
           S == SendersOf(ch)
<1>1. /\ UNCHANGED <<current, paused, kind>> /\ c \in Alive
      /\ ready' = ready \o Released(ch) /\ Released(ch) = W \o S
      /\ waitingSenders' = [waitingSenders EXCEPT ![ch] = <<>>]
      /\ waitingReceivers' = [waitingReceivers EXCEPT ![ch] = <<>>]
  BY CurrentIsAlive DEF Close, loopVars, Released, SendersOf
<1>2. /\ ready \in Seq(Coroutine) /\ W \in Seq(Coroutine) /\ S \in Seq(Coroutine)
      /\ IsInjective(ready) /\ IsInjective(W) /\ IsInjective(S)
      /\ Range(W) \in SUBSET Coroutine /\ Range(S) \in SUBSET Coroutine
  BY PlaceTypes, RangeOfSeq DEF PlaceInv, Distinct
<1>3. SendersIn[ch] = Range(S) /\ ReceiversIn[ch] = Range(W)
  BY DEF SendersIn, ReceiversIn
<1>4. /\ Range(W) \cap Range(S) = {}
      /\ \A x \in Coroutine : x \in Range(ready) => x \notin Range(W) /\ x \notin Range(S)
  BY <1>2, <1>3 DEF PlaceInv, Separate, Apart, Alone
<1> HIDE DEF S, W
<1>5. W \o S \in Seq(Coroutine) /\ IsInjective(W \o S) /\ Range(W \o S) = Range(W) \cup Range(S)
  BY <1>2, <1>4, ConcatInjective
<1>6. IsInjective(ready') /\ Range(ready') = Range(ready) \cup Range(W) \cup Range(S)
  <2> DEFINE Z == W \o S
  <2>1. Range(ready) \cap Range(Z) = {}
    BY <1>2, <1>4, <1>5
  <2>2. Z \in Seq(Coroutine) /\ IsInjective(Z) /\ ready' = ready \o Z
    BY <1>1, <1>5
  <2> HIDE DEF Z
  <2>3. IsInjective(ready') /\ Range(ready') = Range(ready) \cup Range(Z)
    BY <1>2, <2>1, <2>2, ConcatInjective
  <2> QED
    BY <1>5, <2>3 DEF Z
<1>7. waitingSenders'[ch] = <<>> /\ waitingReceivers'[ch] = <<>> /\ SendersOf(ch)' = <<>>
  BY <1>1 DEF TypeOK, ChannelType, SendersOf
<1>8. Range(<<>>) = {} /\ IsInjective(<<>>)
  BY DEF Range, IsInjective
<1>9. \A d \in Channel \ {ch} : /\ waitingSenders'[d] = waitingSenders[d]
                                /\ waitingReceivers'[d] = waitingReceivers[d]
  BY <1>1 DEF TypeOK, ChannelType
<1>10. /\ SendersIn' = [SendersIn EXCEPT ![ch] = {}]
       /\ ReceiversIn' = [ReceiversIn EXCEPT ![ch] = {}]
       /\ \A d \in Channel \ {ch} : SendersOf(d)' = SendersOf(d)
  BY <1>7, <1>8, <1>9, OthersWaitAsBefore DEF TypeOK
<1>11. Distinct'
  BY <1>1, <1>6, <1>7, <1>8, <1>9, <1>10 DEF PlaceInv, Distinct
<1>12. Alive' = Alive
  <2>1. \A d \in Coroutine : redo'[d] \in {Fresh, Wild, redo[d]} /\ (redo'[d] # redo[d] => d \in Alive)
    <3>1. \A d \in Range(W) : d \in Alive
      BY <1>3, WaitersAreAlive
    <3>2. DOMAIN W = 1..Len(W)
      BY <1>2, LenProperties
    <3>3. \A n \in Nat : n <= Len(W) => \A i \in 1..n : W[i] \in Range(W)
      BY <1>2, <3>2, LenProperties DEF Range
    <3>4. /\ Len(W) \in Nat /\ Len(buffer[ch]) \in Nat
          /\ (IF Len(W) < Len(buffer[ch]) THEN Len(W) ELSE Len(buffer[ch])) \in Nat
          /\ (IF Len(W) < Len(buffer[ch]) THEN Len(W) ELSE Len(buffer[ch])) <= Len(W)
      BY <1>2, LenProperties DEF TypeOK, ChannelType
    <3>5. \A i \in 1..(IF Len(W) < Len(buffer[ch]) THEN Len(W) ELSE Len(buffer[ch])) : W[i] \in Range(W)
      BY <3>3, <3>4
    <3>6. \A d \in Coroutine :
            \/ redo'[d] = redo[d]
            \/ d = c /\ redo'[d] = Fresh
            \/ d \in Range(W) /\ redo'[d] \in {Fresh, Rewound(redo[d])}
      BY <3>5 DEF Close, W
    <3> QED
      BY <1>1, <3>1, <3>6 DEF Rewound
  <2>2. \A d \in Coroutine : Live(d)' <=> Live(d)
    BY <1>1, <2>1, Unended DEF Live, Alive
  <2> QED
    BY <2>2 DEF Alive
<1>13. Apart(current, Range(ready) \cup Range(W) \cup Range(S), Range(paused),
             [SendersIn EXCEPT ![ch] = {}], [ReceiversIn EXCEPT ![ch] = {}], Alive)
  BY <1>3, ChannelReleases, PlaceTypes DEF PlaceInv, Separate
<1>14. Separate'
  BY <1>1, <1>6, <1>10, <1>12, <1>13 DEF Separate
<1> QED
  BY <1>11, <1>14 DEF PlaceInv

(* The calls that create futures and coroutines.                           *)
LEMMA CreatesPlace ==
  ASSUME TypeOK, PlaceInv, NEW c \in Coroutine, current = c, Creates(c),
         UNCHANGED <<ready, kind>>
  PROVE  PlaceInv'
  BY CurrentIsAlive, GoesOnAlive, NobodyMoves DEF Creates, GoesOn, loopVars, channelVars

UnbornAreFresh == \A c \in Coroutine : kind[c] = "unborn" => redo[c] # Ended

LEMMA BornPlace ==
  ASSUME TypeOK, PlaceInv, UnbornAreFresh, NEW c \in Coroutine, current = c, Creates(c),
         NEW d \in Coroutine, NewCoroutine(d), NEW k \in {"go", "async", "timeout"}, Born(d, k)
  PROVE  PlaceInv'
<1>1. /\ UNCHANGED <<current, paused, waitingSenders, waitingReceivers>> /\ c \in Alive
      /\ ready' = Append(ready, d) /\ d \notin Alive
  BY CurrentIsAlive DEF Creates, GoesOn, loopVars, channelVars, Born, NewCoroutine, Alive, Live
<1>2. Alive' = Alive \cup {d}
  <2>1. \A x \in Coroutine : redo'[x] = IF x = c THEN Fresh ELSE redo[x]
    BY DEF Creates, GoesOn, Resume
  <2>2. \A x \in Coroutine : kind'[x] = IF x = d THEN k ELSE kind[x]
    BY DEF Born, TypeOK, TaskType
  <2>3. redo[d] # Ended
    BY DEF UnbornAreFresh, NewCoroutine
  <2>4. \A x \in Coroutine : Live(x)' <=> Live(x) \/ x = d
    BY <1>1, <2>1, <2>2, <2>3, Unended DEF Live, Alive
  <2> QED
    BY <2>4 DEF Alive
<1>3. d \notin Range(ready)
  BY <1>1, WaitersAreAlive
<1>4. Range(ready') = Range(ready) \cup {d} /\ IsInjective(ready')
  BY <1>1, <1>3, AppendRange, PlaceTypes DEF PlaceInv, Distinct
<1>5. SendersIn' = SendersIn /\ ReceiversIn' = ReceiversIn
  BY <1>1 DEF SendersIn, ReceiversIn, SendersOf
<1>6. Distinct'
  BY <1>1, <1>4 DEF PlaceInv, Distinct, SendersOf
<1>7. Apart(current, Range(ready) \cup {d}, Range(paused), SendersIn, ReceiversIn, Alive \cup {d})
  BY <1>1, NewbornIsReady DEF PlaceInv, Separate
<1>8. Separate'
  BY <1>1, <1>2, <1>4, <1>5, <1>7 DEF Separate
<1> QED
  BY <1>6, <1>8 DEF PlaceInv

(* The loop.                                                               *)
LEMMA PopPlace ==
  ASSUME TypeOK, PlaceInv, current = Nobody, PopReady
  PROVE  PlaceInv'
<1> DEFINE x == Head(ready)
<1>1. /\ current' = x /\ ready' = Tail(ready) /\ ready # <<>>
      /\ UNCHANGED <<paused, waitingSenders, waitingReceivers, redo, kind>>
  BY DEF PopReady, channelVars, taskVars
<1>2. /\ x \in Range(ready) /\ IsInjective(ready') /\ Range(ready') = Range(ready) \ {x}
  BY <1>1, TailRange, PlaceTypes DEF PlaceInv, Distinct
<1>3. SendersIn' = SendersIn /\ ReceiversIn' = ReceiversIn /\ Alive' = Alive
  BY <1>1 DEF SendersIn, ReceiversIn, SendersOf, Alive, Live
<1>4. Distinct'
  BY <1>1, <1>2 DEF PlaceInv, Distinct, SendersOf
<1>5. Apart(x, Range(ready) \ {x}, Range(paused), SendersIn, ReceiversIn, Alive)
  BY <1>2, ReadyRuns DEF PlaceInv, Separate
<1>6. Separate'
  BY <1>1, <1>2, <1>3, <1>5 DEF Separate
<1> QED
  BY <1>4, <1>6 DEF PlaceInv

LEMMA TimerWakes ==
  ASSUME TypeOK, PlaceInv, FireTimer
  PROVE  LET t == Head(timers)
         IN  \/ /\ future[t.future] = "pending"
                /\ future' = [future EXCEPT ![t.future] =
                                IF t.sub = Nobody THEN "resolved" ELSE "rejected"]
                /\ \E M : Wakes(M) /\ WaitersOfFuture(t.future) \subseteq M
             \/ future[t.future] # "pending" /\ future' = future /\ Wakes({})
<1> DEFINE t == Head(timers)
<1>1. CASE UNCHANGED <<future, cancelled, queueVars>> /\ future[t.future] # "pending"
  BY <1>1, NobodyWakes
<1>2. CASE /\ future[t.future] = "pending"
           /\ future' = [future EXCEPT ![t.future] =
                            IF t.sub = Nobody THEN "resolved" ELSE "rejected"]
           /\ WakeAfter(SubToWake(t), WaitersOfFuture(t.future))
  <2>1. WaitersOfFuture(t.future) \in SUBSET Range(paused)
    BY DEF WaitersOfFuture
  <2>2. /\ SubToWake(t) \in Seq(Coroutine) /\ IsInjective(SubToWake(t))
        /\ Range(SubToWake(t)) \subseteq Range(paused)
    <3>1. CASE t.sub \in Range(paused)
      <4>1. t.sub \in Coroutine /\ SubToWake(t) = <<t.sub>>
        BY <3>1, PlaceTypes DEF SubToWake
      <4>2. Range(<<t.sub>>) = {t.sub} /\ IsInjective(<<t.sub>>) /\ <<t.sub>> \in Seq(Coroutine)
        BY <4>1 DEF IsInjective, Range
      <4> QED
        BY <3>1, <4>1, <4>2
    <3>2. CASE t.sub \notin Range(paused)
      BY <3>2, EmptySeq DEF SubToWake, IsInjective, Range
    <3> QED
      BY <3>1, <3>2
  <2>3. Wakes(WaitersOfFuture(t.future) \cup Range(SubToWake(t)))
    BY <1>2, <2>1, <2>2, WakeMoves
  <2> QED
    BY <1>2, <2>3
<1> QED
  BY <1>1, <1>2 DEF FireTimer, Unsettled

LEMMA DrainWakes ==
  ASSUME TypeOK, PlaceInv, Drain
  PROVE  LET f == Head(completions)
         IN  \/ /\ f \in inflight /\ future[f] = "pending"
                /\ \E st \in {"resolved", "rejected"} : future' = [future EXCEPT ![f] = st]
                /\ Wakes(WaitersOfFuture(f))
             \/ (f \notin inflight \/ future[f] # "pending") /\ future' = future /\ Wakes({})
<1> DEFINE f == Head(completions)
<1>1. WaitersOfFuture(f) \in SUBSET Range(paused)
  BY DEF WaitersOfFuture
<1> QED
  BY <1>1, PlainWake, NobodyWakes DEF Drain, Unsettled

LEMMA LoopPlace ==
  ASSUME TypeOK, PlaceInv, phase # "run" => current = Nobody,
         Loop \/ (\E f \in Future : PostCompletion(f)) \/ UNCHANGED vars
  PROVE  PlaceInv'
<1>1. ASSUME UNCHANGED <<current, redo, kind, waitingSenders, waitingReceivers>>,
             NEW M, Wakes(M)
      PROVE  PlaceInv'
  BY <1>1, WakesPlace DEF Alive, Live
<1>2. CASE FireTimer
  BY <1>1, <1>2, TimerWakes DEF FireTimer, channelVars
<1>3. CASE Drain
  BY <1>1, <1>3, DrainWakes DEF Drain, loopVars, taskVars, channelVars
<1>4. CASE TryWakeSelects
  <2>1. WakeableSelects \in SUBSET Range(paused)
    BY DEF WakeableSelects
  <2> QED
    BY <1>1, <1>4, <2>1, PlainWake DEF TryWakeSelects, LoopStep, taskVars, channelVars
<1>5. CASE PopReady
  BY <1>5, PopPlace DEF PopReady
<1>6. CASE \/ TimersDone \/ Drained \/ SleepUntilDeadline \/ WaitForThreads
           \/ ReturnOk \/ ReturnBlocked \/ ReturnDeadlock
           \/ (\E f \in Future : PostCompletion(f)) \/ UNCHANGED vars
  <2>1. UNCHANGED <<current, redo, kind, waitingSenders, waitingReceivers, queueVars>>
    BY <1>6 DEF TimersDone, Drained, SleepUntilDeadline, WaitForThreads, ReturnOk, ReturnBlocked,
                ReturnDeadlock, LoopStep, LoopReturns, PostCompletion, vars, loopVars, taskVars,
                channelVars
  <2> QED
    BY <1>1, <2>1, NobodyWakes
<1> QED
  BY <1>2, <1>3, <1>4, <1>5, <1>6 DEF Loop

-----------------------------------------------------------------------------
(* What the rest of the state sees of an operation that does not end its   *)
(* coroutine c.                                                            *)
WaitsRightly(o) ==
  /\ o.op \in {"await", "select"}
  /\ \A f \in Future : o = AwaitFuture(f) => future[f] = "pending"
  /\ \A h \in Coroutine : o = AwaitJoin(h) => kind[h] = "go" /\ done[h] = "no"

Provided(f) ==
  \/ f \in inflight
  \/ \E t \in Range(timers) : t.future = f
  \/ \E c \in Alive : resolves[c] = f

RedoKept ==
  \A d \in Coroutine : \/ redo'[d] = redo[d]
                       \/ d \in Alive \ Range(paused) /\ redo'[d] # Ended
Newborns ==
  \A d \in Coroutine :
    \/ kind'[d] = kind[d] /\ resolves'[d] = resolves[d]
    \/ kind[d] = "unborn" /\ kind'[d] = "go" /\ resolves'[d] = resolves[d]
    \/ kind[d] = "unborn" /\ kind'[d] \in {"async", "timeout"}
ParksOnly(c) ==
  \/ paused' = paused
  \/ paused' = Append(paused, c) /\ WaitsRightly(redo'[c]) /\ UNCHANGED <<kind, future>>
Announces ==
  \A f \in Future : \/ future'[f] = future[f]
                    \/ future[f] = "none" /\ (future'[f] = "pending" => Provided(f)')
SettlersStay == inflight \subseteq inflight' /\ Range(timers) \subseteq Range(timers')
LeavesLoop ==
  \/ UNCHANGED <<phase, current, outcome>>
  \/ phase' = "timers" /\ current' = Nobody /\ outcome' = outcome
QueuesUp == \E more \in Seq(Coroutine) : ready' = ready \o more

Continues(c) ==
  /\ RedoKept /\ done' = done /\ Newborns /\ ParksOnly(c) /\ Announces /\ SettlersStay
  /\ LeavesLoop /\ QueuesUp

LEMMA QueuesUpRules ==
  ASSUME TypeOK
  PROVE  /\ UNCHANGED ready => QueuesUp
         /\ \A x \in Coroutine : ready' = Append(ready, x) => QueuesUp
         /\ \A w \in Seq(Coroutine) : ready' = ready \o w => QueuesUp
<1>1. ready \in Seq(Coroutine)
  BY PlaceTypes
<1>2. ready \o <<>> = ready /\ <<>> \in Seq(Coroutine)
  BY <1>1, ConcatEmptySeq, EmptySeq
<1>3. \A x \in Coroutine : Append(ready, x) = ready \o <<x>> /\ <<x>> \in Seq(Coroutine)
  BY <1>1, AppendIsConcat
<1> QED
  BY <1>2, <1>3 DEF QueuesUp

LEMMA CurrentIsNotPaused ==
  ASSUME PlaceInv, NEW c \in Coroutine, current = c
  PROVE  c \in Alive \ Range(paused)
  BY CurrentIsAlive DEF PlaceInv, Separate, Apart, Alone

LEMMA GoesOnRedo ==
  ASSUME TypeOK, PlaceInv, NEW c \in Coroutine, current = c,
         NEW S \in SUBSET (Alive \ Range(paused)), GoesOn(c, S)
  PROVE  RedoKept /\ done' = done /\ LeavesLoop
  BY CurrentIsNotPaused, Unended DEF GoesOn, Resume, RedoKept, LeavesLoop, loopVars

LEMMA YieldsRedo ==
  ASSUME TypeOK, PlaceInv, NEW c \in Coroutine, current = c, NEW o, o # Ended, Yields(c, o)
  PROVE  /\ RedoKept /\ done' = done /\ Newborns /\ Announces /\ SettlersStay /\ LeavesLoop
         /\ redo'[c] = o
  BY CurrentIsNotPaused DEF Yields, RedoKept, Newborns, Announces, SettlersStay, LeavesLoop,
     TypeOK, TaskType, futureVars

LEMMA SameFutures ==
  ASSUME UNCHANGED <<kind, resolves, paused, futureVars>>, NEW c
  PROVE  Newborns /\ ParksOnly(c) /\ Announces /\ SettlersStay
  BY DEF Newborns, ParksOnly, Announces, SettlersStay, futureVars

LEMMA TakeContinues ==
  ASSUME TypeOK, PlaceInv, NEW c \in Coroutine, current = c, NEW ch \in Channel, Take(c, ch)
  PROVE  Continues(c)
<1>1. UNCHANGED <<kind, resolves, paused, futureVars>>
  BY DEF Take
<1>2. CASE waitingSenders[ch] = <<>>
  <2>1. GoesOn(c, {}) /\ UNCHANGED ready
    BY <1>2 DEF Take
  <2> QED
    BY <1>1, <2>1, GoesOnRedo, SameFutures, QueuesUpRules DEF Continues
<1>3. CASE waitingSenders[ch] # <<>>
  <2> DEFINE x == Head(waitingSenders[ch]).co
  <2>1. GoesOn(c, {x}) /\ ready' = Append(ready, x)
    BY <1>3 DEF Take
  <2>2. waitingSenders[ch] \in Seq(Offer) /\ SendersOf(ch) = Mapped(waitingSenders[ch], CoOf)
    BY SendersMapped DEF TypeOK
  <2>3. SendersOf(ch) \in Seq(Coroutine) /\ SendersOf(ch) # <<>> /\ Head(SendersOf(ch)) = x
    BY <1>3, <2>2, OffersMapped
  <2>4. x \in SendersIn[ch] /\ x \in Coroutine
    BY <2>3, TailRange DEF SendersIn
  <2>5. x \in Alive \ Range(paused)
    BY <2>4 DEF PlaceInv, Separate, Apart, Alone
  <2> QED
    BY <1>1, <2>1, <2>4, <2>5, GoesOnRedo, SameFutures, QueuesUpRules DEF Continues
<1> QED
  BY <1>2, <1>3

LEMMA GiveContinues ==
  ASSUME TypeOK, PlaceInv, NEW c \in Coroutine, current = c, NEW ch \in Channel,
         waitingReceivers[ch] # <<>>, Give(c, ch)
  PROVE  Continues(c)
<1> DEFINE x == Head(waitingReceivers[ch])
<1>1. /\ UNCHANGED <<kind, resolves, paused, futureVars>>
      /\ GoesOn(c, {x}) /\ ready' = Append(ready, x)
  BY DEF Give
<1>2. x \in ReceiversIn[ch] /\ x \in Coroutine
  BY TailRange, PlaceTypes DEF ReceiversIn
<1>3. x \in Alive \ Range(paused)
  BY <1>2 DEF PlaceInv, Separate, Apart, Alone
<1> QED
  BY <1>1, <1>2, <1>3, GoesOnRedo, SameFutures, QueuesUpRules DEF Continues

LEMMA StaysContinues ==
  ASSUME TypeOK, PlaceInv, NEW c \in Coroutine, current = c, GoesOn(c, {}),
         UNCHANGED <<ready, kind, resolves, paused, futureVars>>
  PROVE  Continues(c)
  BY GoesOnRedo, SameFutures, QueuesUpRules DEF Continues

LEMMA WaitsContinues ==
  ASSUME TypeOK, PlaceInv, NEW c \in Coroutine, current = c, NEW o, o # Ended, Yields(c, o),
         UNCHANGED queueVars
  PROVE  Continues(c)
  BY YieldsRedo, QueuesUpRules DEF Continues, ParksOnly, queueVars

LEMMA ParksContinues ==
  ASSUME TypeOK, PlaceInv, NEW c \in Coroutine, current = c, NEW o, o # Ended, Parks(c, o),
         WaitsRightly(o)
  PROVE  Continues(c)
<1>1. Yields(c, o) /\ paused' = Append(paused, c) /\ UNCHANGED <<ready, kind, future>>
  BY DEF Parks, Yields, futureVars
<1>2. WaitsRightly(redo'[c])
  BY <1>1, YieldsRedo
<1> QED
  BY <1>1, <1>2, YieldsRedo, QueuesUpRules DEF Continues, ParksOnly

LEMMA CloseContinues ==
  ASSUME TypeOK, PlaceInv, NEW c \in Coroutine, current = c, NEW ch \in Channel, Close(c, ch)
  PROVE  Continues(c)
<1> DEFINE W == waitingReceivers[ch]
           n == IF Len(W) < Len(buffer[ch]) THEN Len(W) ELSE Len(buffer[ch])
<1>1. /\ UNCHANGED <<kind, resolves, paused, done, futureVars, phase, current, outcome>>
      /\ ready' = ready \o Released(ch) /\ Released(ch) \in Seq(Coroutine)
  BY ReleasedType DEF Close, loopVars, TypeOK
<1>2. W \in Seq(Coroutine) /\ DOMAIN W = 1..Len(W) /\ Len(W) \in Nat /\ Len(buffer[ch]) \in Nat
  BY PlaceTypes, LenProperties DEF TypeOK, ChannelType
<1>3. \A i \in 1..n : W[i] \in Range(W)
  BY <1>2 DEF Range
<1>4. \A d \in Coroutine :
        \/ redo'[d] = redo[d]
        \/ d = c /\ redo'[d] = Fresh
        \/ d \in Range(W) /\ redo'[d] \in {Fresh, Rewound(redo[d])}
  BY <1>3 DEF Close
<1>5. \A d \in Range(W) : d \in Alive \ Range(paused)
  <2>1. \A d \in Range(W) : d \in ReceiversIn[ch] /\ d \in Coroutine
    BY <1>2, RangeOfSeq DEF ReceiversIn
  <2> QED
    BY <2>1 DEF PlaceInv, Separate, Apart, Alone
<1>6. \A d \in Alive : redo[d] # Ended
  BY DEF Alive, Live
<1>7. RedoKept
  <2>1. \A d \in Coroutine : redo'[d] \in {Fresh, Wild, redo[d]}
    BY <1>4 DEF Rewound
  <2> QED
    BY <1>4, <1>5, <1>6, <2>1, CurrentIsNotPaused, Unended DEF RedoKept
<1> QED
  BY <1>1, <1>7, SameFutures, QueuesUpRules DEF Continues, LeavesLoop

(* A timer filed among the others.                                         *)
LEMMA FiledTimer ==
  ASSUME TypeOK, NEW t \in Timer, FileTimer(t)
  PROVE  Range(timers') = Range(timers) \cup {t}
<1>1. PICK i \in 0..Len(timers) :
        timers' = SubSeq(timers, 1, i) \o <<t>> \o SubSeq(timers, i + 1, Len(timers))
  BY DEF FileTimer
<1> DEFINE A == SubSeq(timers, 1, i)
           B == SubSeq(timers, i + 1, Len(timers))
<1>2. timers \in Seq(Timer) /\ Len(timers) \in Nat /\ \A k \in 1..Len(timers) : timers[k] \in Timer
  <2>1. timers \in Seq(Timer)
    BY DEF TypeOK, FutureType
  <2> QED
    BY <2>1, LenProperties, ElementOfSeq
<1>3. A \in Seq(Timer) /\ B \in Seq(Timer) /\ <<t>> \in Seq(Timer) /\ Range(<<t>>) = {t}
  <2>1. A \in Seq(Timer)
    BY <1>2, SubSeqProperties
  <2>2. B \in Seq(Timer)
    BY <1>2, SubSeqProperties
  <2>3. <<t>> \in Seq(Timer) /\ Range(<<t>>) = {t}
    BY DEF Range
  <2> QED
    BY <2>1, <2>2, <2>3
<1>4. A \o B = timers
  <2>1. /\ 1 \in 1..(Len(timers) + 1) /\ i \in (1 - 1)..Len(timers)
        /\ Len(timers) \in i..Len(timers)
    BY <1>2
  <2>2. A \o B = SubSeq(timers, 1, Len(timers))
    BY <1>2, <2>1, ConcatAdjacentSubSeq
  <2> QED
    BY <1>2, <2>2, SubSeqFull
<1> HIDE DEF A, B
<1>5. Range(A) \cup Range(B) = Range(timers)
  <2>1. Range(A \o B) = Range(A) \cup Range(B)
    BY <1>3, RangeConcatenation
  <2> QED
    BY <1>4, <2>1
<1>6. A \o <<t>> \in Seq(Timer) /\ Range(A \o <<t>>) = Range(A) \cup {t}
  <2> DEFINE last == <<t>>
  <2>1. last \in Seq(Timer) /\ Range(last) = {t}
    BY <1>3
  <2> HIDE DEF last
  <2>2. A \o last \in Seq(Timer)
    BY <1>3, <2>1, ConcatProperties
  <2>3. Range(A \o last) = Range(A) \cup Range(last)
    BY <1>3, <2>1, RangeConcatenation
  <2> QED
    BY <2>1, <2>2, <2>3 DEF last
<1> DEFINE front == A \o <<t>>
<1>7. timers' = front \o B
  BY <1>1 DEF A, B
<1>8. front \in Seq(Timer)
  BY <1>6
<1> HIDE DEF front
<1>9. Range(timers') = Range(front) \cup Range(B)
  BY <1>3, <1>7, <1>8, RangeConcatenation
<1> QED
  BY <1>5, <1>6, <1>9 DEF front

LEMMA CreatesContinues ==
  ASSUME TypeOK, PlaceInv, NEW c \in Coroutine, current = c, Creates(c), QueuesUp, Newborns,
         Announces, SettlersStay
  PROVE  Continues(c)
  BY GoesOnRedo DEF Creates, Continues, ParksOnly

LEMMA AnnouncesOne ==
  ASSUME TypeOK, NEW f \in Future, NewFuture(f), NEW st,
         future' = [future EXCEPT ![f] = st], st = "pending" => Provided(f)'
  PROVE  Announces
  BY DEF Announces, NewFuture, TypeOK, FutureType

LEMMA GoContinues ==
  ASSUME TypeOK, PlaceInv, NEW c \in Coroutine, current = c, NEW d \in Coroutine, Go(c, d)
  PROVE  Continues(c)
<1>1. /\ Creates(c) /\ ready' = Append(ready, d) /\ NewCoroutine(d)
      /\ kind' = [kind EXCEPT ![d] = "go"] /\ UNCHANGED <<resolves, future, timers, inflight>>
  BY DEF Go, Born
<1>2. QueuesUp
  BY <1>1, QueuesUpRules
<1>3. Newborns
  BY <1>1 DEF Newborns, NewCoroutine, TypeOK, TaskType
<1>4. Announces /\ SettlersStay
  BY <1>1 DEF Announces, SettlersStay
<1> QED
  BY <1>1, <1>2, <1>3, <1>4, CreatesContinues

LEMMA CallAsyncContinues ==
  ASSUME TypeOK, PlaceInv, UnbornAreFresh, NEW c \in Coroutine, current = c, NEW d \in Coroutine,
         NEW f \in Future, CallAsync(c, d, f) \/ Timeout(c, d, f)
  PROVE  Continues(c)
<1>1. /\ Creates(c) /\ ready' = Append(ready, d) /\ NewCoroutine(d) /\ NewFuture(f)
      /\ kind' \in {[kind EXCEPT ![d] = "async"], [kind EXCEPT ![d] = "timeout"]}
      /\ future' = [future EXCEPT ![f] = "pending"]
      /\ resolves' = [resolves EXCEPT ![d] = f] /\ inflight' = inflight
  BY DEF CallAsync, Timeout, Born, Pending
<1>2. QueuesUp
  BY <1>1, QueuesUpRules
<1>3. Newborns
  BY <1>1 DEF Newborns, NewCoroutine, TypeOK, TaskType
<1>4. d \in Alive'
  <2>1. kind'[d] # "unborn"
    BY <1>1 DEF TypeOK, TaskType
  <2>2. redo'[d] # Ended
    <3>1. redo[d] # Ended
      BY <1>1 DEF UnbornAreFresh, NewCoroutine
    <3> QED
      BY <1>1, <3>1, Unended DEF Creates, GoesOn, Resume
  <2> QED
    BY <2>1, <2>2 DEF Alive, Live
<1>5. resolves'[d] = f
  BY <1>1 DEF TypeOK, TaskType
<1>6. Provided(f)'
  BY <1>4, <1>5 DEF Provided
<1>7. Announces
  BY <1>1, <1>6, AnnouncesOne
<1>8. SettlersStay
  <2>1. CASE CallAsync(c, d, f)
    BY <1>1, <2>1 DEF SettlersStay, CallAsync
  <2>2. CASE Timeout(c, d, f)
    <3>1. [future |-> f, sub |-> d] \in Timer
      BY DEF Timer
    <3> QED
      BY <1>1, <2>2, <3>1, FiledTimer DEF SettlersStay, Timeout
  <2> QED
    BY <2>1, <2>2
<1> QED
  BY <1>1, <1>2, <1>3, <1>7, <1>8, CreatesContinues

LEMMA RequestContinues ==
  ASSUME TypeOK, PlaceInv, NEW c \in Coroutine, current = c, NEW f \in Future,
         Sleep(c, f) \/ Http(c, f) \/ InvalidCall(c, f)
  PROVE  Continues(c)
<1>1. Creates(c) /\ NewFuture(f) /\ UNCHANGED <<ready, kind, resolves>>
  BY DEF Sleep, Http, InvalidCall
<1>2. QueuesUp /\ Newborns
  BY <1>1, QueuesUpRules DEF Newborns
<1>3. CASE Sleep(c, f)
  <2> DEFINE t == [future |-> f, sub |-> Nobody]
  <2>1. t \in Timer /\ t.future = f
    BY DEF Timer
  <2>2. FileTimer(t) /\ inflight' = inflight /\ future' = [future EXCEPT ![f] = "pending"]
    BY <1>3 DEF Sleep, Pending
  <2>3. Range(timers') = Range(timers) \cup {t}
    BY <2>1, <2>2, FiledTimer
  <2>4. Provided(f)' /\ SettlersStay
    BY <2>1, <2>2, <2>3 DEF Provided, SettlersStay
  <2> QED
    BY <1>1, <1>2, <2>2, <2>4, AnnouncesOne, CreatesContinues
<1>4. CASE Http(c, f)
  <2>1. /\ inflight' = inflight \cup {f} /\ timers' = timers
        /\ future' = [future EXCEPT ![f] = "pending"]
    BY <1>4 DEF Http, Pending
  <2>2. Provided(f)' /\ SettlersStay
    BY <2>1 DEF Provided, SettlersStay
  <2> QED
    BY <1>1, <1>2, <2>1, <2>2, AnnouncesOne, CreatesContinues
<1>5. CASE InvalidCall(c, f)
  <2>1. UNCHANGED <<timers, inflight>> /\ future' = [future EXCEPT ![f] = "rejected"]
    BY <1>5 DEF InvalidCall
  <2>2. SettlersStay
    BY <2>1 DEF SettlersStay
  <2> QED
    BY <1>1, <1>2, <2>1, <2>2, AnnouncesOne, CreatesContinues
<1> QED
  BY <1>3, <1>4, <1>5

(* Every operation, for the rest of the state.                             *)
LEMMA ExecuteRuns ==
  ASSUME NEW c \in Coroutine, Execute(c)
  PROVE  phase = "run" /\ current = c
  BY DEF Execute, Finish, CancelledAtSafepoint, Send, Receive, Iterate, Close, Select, Poll, Join,
         Cancel, Go, Await, Sleep, Http, InvalidCall, CallAsync, Timeout, Starts, Calls

Ends(c) == EndOk(c) \/ EndError(c)

LEMMA PassesContinues ==
  ASSUME TypeOK, PlaceInv, NEW c \in Coroutine, current = c, Throws(c) \/ Passes(c)
  PROVE  Ends(c) \/ Continues(c)
<1>1. ASSUME Passes(c)
      PROVE  Continues(c)
  BY <1>1, StaysContinues DEF Passes, queueVars
<1> QED
  BY <1>1 DEF Throws, Ends

LEMMA ChannelOpsContinue ==
  ASSUME TypeOK, PlaceInv, NEW c \in Coroutine, current = c, NEW ch \in Channel,
         Send(c, ch) \/ (\E w \in LoadWidth : Receive(c, ch, w)) \/ Iterate(c, ch) \/ Close(c, ch)
  PROVE  Ends(c) \/ Continues(c)
<1>1. ASSUME Store(c, ch)
      PROVE  Continues(c)
  BY <1>1, StaysContinues DEF Store, queueVars
<1>2. CASE Send(c, ch)
  <2>1. ASSUME WaitsToSend(c, ch)
        PROVE  Continues(c)
    BY <2>1, WaitsContinues, Unended DEF WaitsToSend
  <2> QED
    BY <1>1, <1>2, <2>1, PassesContinues, GiveContinues DEF Send
<1>3. ASSUME NEW o, o # Ended, WaitsToReceive(c, ch, o)
      PROVE  Continues(c)
  BY <1>3, WaitsContinues DEF WaitsToReceive
<1>4. CASE \E w \in LoadWidth : Receive(c, ch, w)
  BY <1>3, <1>4, PassesContinues, TakeContinues, Unended DEF Receive
<1>5. CASE Iterate(c, ch)
  BY <1>3, <1>5, PassesContinues, TakeContinues, Unended DEF Iterate
<1>6. CASE Close(c, ch)
  BY <1>6, CloseContinues
<1> QED
  BY <1>2, <1>4, <1>5, <1>6

LEMMA SelectContinues ==
  ASSUME TypeOK, PlaceInv, NEW c \in Coroutine, current = c, NEW cs \in Selects,
         Select(c, cs) \/ Poll(c, cs)
  PROVE  Ends(c) \/ Continues(c)
<1>1. ASSUME NEW k \in ReadyCases(cs), RunCase(c, k)
      PROVE  Ends(c) \/ Continues(c)
  <2>1. k[2] \in Channel
    BY <1>1, ConstantsAssumption DEF ReadyCases, Case
  <2>2. ASSUME Store(c, k[2])
        PROVE  Continues(c)
    BY <2>1, <2>2, StaysContinues DEF Store, queueVars
  <2> QED
    BY <1>1, <2>1, <2>2, TakeContinues, GiveContinues, PassesContinues DEF RunCase
<1>2. WaitsRightly(SelectOp(cs))
  BY DEF WaitsRightly, SelectOp, AwaitFuture, AwaitJoin
<1> QED
  BY <1>1, <1>2, ParksContinues, PassesContinues, Unended DEF Select, Poll

LEMMA AwaitContinues ==
  ASSUME TypeOK, PlaceInv, NEW c \in Coroutine, current = c,
         (\E f \in Future : Await(c, f)) \/ (\E h \in Coroutine : Join(c, h) \/ Cancel(c, h))
  PROVE  Ends(c) \/ Continues(c)
<1>1. ASSUME NEW f \in Future, Await(c, f)
      PROVE  Ends(c) \/ Continues(c)
  <2>1. future[f] = "pending" => WaitsRightly(AwaitFuture(f))
    BY DEF WaitsRightly, AwaitFuture, AwaitJoin
  <2> QED
    BY <1>1, <2>1, PassesContinues, ParksContinues, Unended DEF Await
<1>2. ASSUME NEW h \in Coroutine, Join(c, h)
      PROVE  Ends(c) \/ Continues(c)
  <2>1. kind[h] = "go" /\ done[h] = "no" => WaitsRightly(AwaitJoin(h))
    BY DEF WaitsRightly, AwaitFuture, AwaitJoin
  <2> QED
    BY <1>2, <2>1, PassesContinues, ParksContinues, Unended DEF Join
<1>3. ASSUME NEW h \in Coroutine, Cancel(c, h)
      PROVE  Continues(c)
  BY <1>3, GoesOnRedo, QueuesUpRules
     DEF Cancel, Continues, Newborns, ParksOnly, Announces, SettlersStay, queueVars, futureVars
<1> QED
  BY <1>1, <1>2, <1>3

LEMMA ExecuteContinues ==
  ASSUME TypeOK, PlaceInv, UnbornAreFresh, NEW c \in Coroutine, Execute(c)
  PROVE  Ends(c) \/ Continues(c)
<1>1. current = c
  BY ExecuteRuns
<1>2. CASE Finish(c) \/ CancelledAtSafepoint(c)
  BY <1>1, <1>2, PassesContinues DEF Finish, CancelledAtSafepoint, Ends
<1>3. CASE \E ch \in Channel :
             Send(c, ch) \/ (\E w \in LoadWidth : Receive(c, ch, w)) \/ Iterate(c, ch) \/ Close(c, ch)
  BY <1>1, <1>3, ChannelOpsContinue
<1>4. CASE \E cs \in Selects : Select(c, cs) \/ Poll(c, cs)
  BY <1>1, <1>4, SelectContinues
<1>5. CASE \E h \in Coroutine : Join(c, h) \/ Cancel(c, h) \/ Go(c, h)
  BY <1>1, <1>5, AwaitContinues, GoContinues
<1>6. CASE \E f \in Future :
             \/ Await(c, f)
             \/ Sleep(c, f)
             \/ Http(c, f)
             \/ InvalidCall(c, f)
             \/ \E d \in Coroutine : CallAsync(c, d, f) \/ Timeout(c, d, f)
  BY <1>1, <1>6, AwaitContinues, RequestContinues, CallAsyncContinues
<1> QED
  BY <1>2, <1>3, <1>4, <1>5, <1>6 DEF Execute

LEMMA ExecutePlace ==
  ASSUME TypeOK, TypeOK', PlaceInv, UnbornAreFresh, NEW c \in Coroutine, Execute(c)
  PROVE  PlaceInv'
<1>1. current = c
  BY ExecuteRuns
<1>2. ASSUME Passes(c) \/ Throws(c) \/ EndOk(c) \/ EndError(c)
      PROVE  PlaceInv'
  BY <1>1, <1>2, PassesPlace, EndPlace DEF Throws
<1>3. ASSUME NEW ch \in Channel,
             Send(c, ch) \/ (\E w \in LoadWidth : Receive(c, ch, w)) \/ Iterate(c, ch) \/ Close(c, ch)
      PROVE  PlaceInv'
  <2>1. CASE Send(c, ch)
    BY <1>1, <1>2, <2>1, GivePlace, StorePlace, WaitsToSendPlace DEF Send
  <2>2. CASE \E w \in LoadWidth : Receive(c, ch, w)
    BY <1>1, <1>2, <2>2, TakePlace, WaitsToReceivePlace, Unended DEF Receive
  <2>3. CASE Iterate(c, ch)
    BY <1>1, <1>2, <2>3, TakePlace, WaitsToReceivePlace, Unended DEF Iterate
  <2>4. CASE Close(c, ch)
    BY <1>1, <2>4, ClosePlace
  <2> QED
    BY <1>3, <2>1, <2>2, <2>3, <2>4
<1>4. ASSUME NEW cs \in Selects, Select(c, cs) \/ Poll(c, cs)
      PROVE  PlaceInv'
  <2>1. ASSUME NEW k \in ReadyCases(cs), RunCase(c, k)
        PROVE  PlaceInv'
    <3>1. k[2] \in Channel
      BY <2>1, ConstantsAssumption DEF ReadyCases, Case
    <3> QED
      BY <1>1, <1>2, <2>1, <3>1, TakePlace, GivePlace, StorePlace DEF RunCase
  <2> QED
    BY <1>1, <1>2, <1>4, <2>1, ParksPlace, Unended DEF Select, Poll
<1>5. ASSUME NEW h \in Coroutine, Join(c, h) \/ Cancel(c, h) \/ Go(c, h)
      PROVE  PlaceInv'
  <2>1. CASE Join(c, h)
    BY <1>1, <1>2, <2>1, ParksPlace, Unended DEF Join
  <2>2. CASE Cancel(c, h)
    BY <1>1, <2>2, CurrentIsAlive, GoesOnAlive, NobodyMoves
       DEF Cancel, GoesOn, loopVars, queueVars, channelVars
  <2>3. CASE Go(c, h)
    BY <1>1, <2>3, BornPlace DEF Go
  <2> QED
    BY <1>5, <2>1, <2>2, <2>3
<1>6. ASSUME NEW f \in Future, Await(c, f) \/ Sleep(c, f) \/ Http(c, f) \/ InvalidCall(c, f)
      PROVE  PlaceInv'
  <2>1. CASE Await(c, f)
    BY <1>1, <1>2, <2>1, ParksPlace, Unended DEF Await
  <2>2. CASE Sleep(c, f) \/ Http(c, f) \/ InvalidCall(c, f)
    BY <1>1, <2>2, CreatesPlace DEF Sleep, Http, InvalidCall
  <2> QED
    BY <1>6, <2>1, <2>2
<1>7. ASSUME NEW f \in Future, NEW d \in Coroutine, CallAsync(c, d, f) \/ Timeout(c, d, f)
      PROVE  PlaceInv'
  BY <1>1, <1>7, BornPlace DEF CallAsync, Timeout
<1> QED
  BY <1>2, <1>3, <1>4, <1>5, <1>6, <1>7 DEF Execute, Finish, CancelledAtSafepoint

-----------------------------------------------------------------------------
(* The inductive invariant.                                                *)
Busy ==
  /\ phase = "run" <=> current # Nobody
  /\ outcome # "none" <=> phase = "exited"
EndedTell ==
  \A c \in Coroutine : /\ done[c] # "no" => redo[c] = Ended
                       /\ kind[c] = "go" /\ redo[c] = Ended => done[c] # "no"
OnlyAsyncSettle ==
  \A c \in Coroutine : kind[c] \in {"unborn", "main", "go"} => resolves[c] = Nobody
LifeInv == UnbornAreFresh /\ EndedTell /\ OnlyAsyncSettle
PausedInv == \A c \in Range(paused) : WaitsRightly(redo[c])
PromiseInv == \A f \in Future : future[f] = "pending" => Provided(f)

(* Once the loop has given up, nobody is ready and no paused coroutine     *)
(* could go on.                                                            *)
OnlyTheStuckArePaused ==
  outcome \in {"ok", "deadlock"} =>
    ready = <<>> /\ \A c \in Range(paused) : Stuck(redo[c])

Inv == /\ TypeOK /\ PlaceInv /\ Busy /\ LifeInv /\ PausedInv /\ PromiseInv
       /\ OnlyTheStuckArePaused

(* How a coroutine ends, for the rest of the state.                        *)
Settles(f, M) == /\ future[f] = "pending" /\ future'[f] \in {"resolved", "rejected"}
                 /\ WaitersOfFuture(f) \subseteq M
Concludes(c, M) ==
  /\ Wakes(M)
  /\ \A f \in Future : future'[f] = future[f] \/ (f = resolves[c] /\ Settles(f, M))
  /\ \A d \in Coroutine : \/ done'[d] = done[d]
                          \/ d = c /\ (kind[c] = "go" => WaitersOfHandle(c) \subseteq M)
  /\ kind[c] = "go" => done'[c] # "no"
  /\ kind[c] \notin {"main", "go"} /\ resolves[c] \in Future => future'[resolves[c]] # "pending"

LEMMA EndConcludes ==
  ASSUME TypeOK, PlaceInv, NEW c \in Coroutine, Ends(c)
  PROVE  \E M : Concludes(c, M)
<1>1. ASSUME NEW st \in {"resolved", "rejected"}, Settle(c, st), kind[c] \notin {"main", "go"},
             \A d \in Coroutine : done'[d] = done[d] \/ d = c
      PROVE  \E M : Concludes(c, M)
  <2>1. CASE /\ resolves[c] # Nobody /\ future[resolves[c]] = "pending"
             /\ future' = [future EXCEPT ![resolves[c]] = st]
             /\ Wakes(WaitersOfFuture(resolves[c]))
    <3>1. resolves[c] \in Future
      BY <2>1 DEF TypeOK, TaskType
    <3>2. \A f \in Future : future'[f] = IF f = resolves[c] THEN st ELSE future[f]
      BY <2>1 DEF TypeOK, FutureType
    <3>3. Concludes(c, WaitersOfFuture(resolves[c]))
      BY <1>1, <2>1, <3>1, <3>2 DEF Concludes, Settles
    <3> QED
      BY <3>3
  <2>2. CASE (resolves[c] = Nobody \/ future[resolves[c]] # "pending") /\ future' = future /\ Wakes({})
    <3>1. Nobody \notin Future
      BY DEF Nobody, Future
    <3>2. Concludes(c, {})
      BY <1>1, <2>2, <3>1 DEF Concludes
    <3> QED
      BY <3>2
  <2> QED
    BY <1>1, <2>1, <2>2, SettleWakes
<1>2. ASSUME NEW res \in {"result", "error"}, FillHandle(c, res), kind[c] = "go", future' = future
      PROVE  \E M : Concludes(c, M)
  <2>1. \A d \in Coroutine : done'[d] = IF d = c THEN res ELSE done[d]
    BY <1>2 DEF FillHandle, TypeOK, TaskType
  <2>2. Wakes(WaitersOfHandle(c))
    BY <1>2, FillHandleWakes
  <2>3. Concludes(c, WaitersOfHandle(c))
    BY <1>2, <2>1, <2>2 DEF Concludes
  <2> QED
    BY <2>3
<1>3. ASSUME UNCHANGED <<queueVars, done, future>>, kind[c] = "main"
      PROVE  \E M : Concludes(c, M)
  <2>1. Concludes(c, {})
    BY <1>3, NobodyWakes DEF Concludes
  <2> QED
    BY <2>1
<1>4. CASE EndOk(c)
  <2>1. CASE kind[c] = "main"
    BY <1>3, <1>4, <2>1 DEF EndOk
  <2>2. CASE kind[c] = "go"
    BY <1>2, <1>4, <2>2 DEF EndOk
  <2>3. CASE kind[c] = "timeout"
    <3>1. \A d \in Coroutine : done'[d] = done[d] \/ d = c
      BY <1>4, <2>3 DEF EndOk, TypeOK, TaskType
    <3> QED
      BY <1>1, <1>4, <2>3, <3>1 DEF EndOk
  <2>4. CASE kind[c] \notin {"main", "go", "timeout"}
    BY <1>1, <1>4, <2>4 DEF EndOk
  <2> QED
    BY <2>1, <2>2, <2>3, <2>4
<1>5. CASE EndError(c)
  BY <1>1, <1>2, <1>3, <1>5 DEF EndError
<1> QED
  BY <1>4, <1>5 DEF Ends

(* Nobody paused was executing.                                            *)
LEMMA EndInv ==
  ASSUME Inv, TypeOK', NEW c \in Coroutine, phase = "run", current = c, Ends(c)
  PROVE  Inv'
<1>1. PICK M : Concludes(c, M)
  BY EndConcludes DEF Inv
<1>2. /\ UNCHANGED <<kind, resolves, timers, inflight>> /\ current' = Nobody
      /\ \/ phase' = "timers" /\ outcome' = outcome
         \/ phase' = "exited" /\ outcome' = "error"
  BY DEF Ends, EndOk, EndError, Returns
<1>3. \A d \in Coroutine : redo'[d] = IF d = c THEN Ended ELSE redo[d]
  BY DEF Ends, EndOk, EndError, Returns, Inv, TypeOK, TaskType
<1>4. c \in Alive \ Range(paused) /\ kind[c] # "unborn" /\ redo[c] # Ended
  BY CurrentIsNotPaused DEF Inv, Alive, Live
<1>5. PlaceInv'
  BY EndPlace DEF Inv, Ends
<1>6. Busy' /\ OnlyTheStuckArePaused'
  BY <1>2 DEF Inv, Busy, OnlyTheStuckArePaused
<1>7. LifeInv'
  BY <1>1, <1>2, <1>3, <1>4 DEF Inv, LifeInv, UnbornAreFresh, EndedTell, OnlyAsyncSettle, Concludes
<1>8. PausedInv'
  <2> SUFFICES ASSUME NEW d \in Range(paused')
               PROVE  WaitsRightly(redo[d])'
    BY <1>1, <1>3 DEF PausedInv
  <2>1. d \in Range(paused) /\ d \notin M /\ d \in Coroutine
    BY <1>1, PlaceTypes DEF Concludes, Wakes, Inv
  <2>2. redo'[d] = redo[d] /\ WaitsRightly(redo[d])
    BY <1>3, <1>4, <2>1 DEF Inv, PausedInv
  <2>3. ASSUME NEW f \in Future, redo[d] = AwaitFuture(f)
        PROVE  future'[f] = "pending"
    <3>1. future[f] = "pending" /\ d \in WaitersOfFuture(f)
      BY <2>1, <2>2, <2>3 DEF WaitsRightly, WaitersOfFuture
    <3> QED
      BY <1>1, <2>1, <3>1 DEF Concludes, Settles
  <2>4. ASSUME NEW h \in Coroutine, redo[d] = AwaitJoin(h)
        PROVE  kind'[h] = "go" /\ done'[h] = "no"
    <3>1. kind[h] = "go" /\ done[h] = "no" /\ d \in WaitersOfHandle(h)
      BY <2>1, <2>2, <2>4 DEF WaitsRightly, WaitersOfHandle
    <3> QED
      BY <1>1, <1>2, <2>1, <3>1 DEF Concludes
  <2> QED
    BY <2>2, <2>3, <2>4 DEF WaitsRightly
<1>9. PromiseInv'
  <2> SUFFICES ASSUME NEW f \in Future, future'[f] = "pending"
               PROVE  Provided(f)'
    BY DEF PromiseInv
  <2>1. future[f] = "pending" /\ Provided(f)
    BY <1>1 DEF Concludes, Settles, Inv, PromiseInv
  <2>2. resolves[c] # f
    <3>1. kind[c] \in {"main", "go"} => resolves[c] = Nobody
      BY DEF Inv, LifeInv, OnlyAsyncSettle
    <3>2. Nobody \notin Future
      BY DEF Nobody, Future
    <3> QED
      BY <1>1, <3>1, <3>2 DEF Concludes
  <2>3. \A d \in Alive : d # c => d \in Alive'
    BY <1>2, <1>3 DEF Alive, Live
  <2> QED
    BY <1>2, <2>1, <2>2, <2>3 DEF Provided
<1> QED
  BY <1>5, <1>6, <1>7, <1>8, <1>9 DEF Inv

LEMMA ContinuesInv ==
  ASSUME Inv, TypeOK', PlaceInv', NEW c \in Coroutine, phase = "run", current = c, Continues(c)
  PROVE  Inv'
<1>1. Busy' /\ OnlyTheStuckArePaused'
  BY NobodyIsNoCoroutine DEF Continues, LeavesLoop, Inv, Busy, OnlyTheStuckArePaused
<1>2. LifeInv'
  BY DEF Continues, RedoKept, Newborns, Inv, LifeInv, UnbornAreFresh, EndedTell, OnlyAsyncSettle,
         Alive, Live
<1>3. \A f \in Future : future[f] = "pending" => future'[f] = "pending"
  BY DEF Continues, Announces
<1>4. \A h \in Coroutine : kind[h] = "go" => kind'[h] = "go"
  BY DEF Continues, Newborns
<1>5. \A o : WaitsRightly(o) => WaitsRightly(o)'
  BY <1>3, <1>4 DEF WaitsRightly, Continues
<1>6. PausedInv'
  <2>1. \A d \in Range(paused) : redo'[d] = redo[d] /\ WaitsRightly(redo[d])
    BY PlaceTypes DEF Continues, RedoKept, Inv, PausedInv
  <2>2. CASE paused' = paused
    BY <1>5, <2>1, <2>2 DEF PausedInv, WaitsRightly
  <2>3. CASE paused' = Append(paused, c) /\ WaitsRightly(redo'[c])
    <3>1. Range(paused') = Range(paused) \cup {c}
      BY <2>3, AppendRange, PlaceTypes DEF Inv
    <3>2. \A d \in Range(paused') : WaitsRightly(redo'[d])
      BY <2>1, <2>3, <3>1
    <3> QED
      BY <1>5, <3>2 DEF PausedInv, WaitsRightly
  <2> QED
    BY <2>2, <2>3 DEF Continues, ParksOnly
<1>7. PromiseInv'
  <2>1. \A d \in Alive : d \in Alive'
    BY DEF Continues, RedoKept, Newborns, Alive, Live
  <2>2. \A d \in Alive : resolves'[d] = resolves[d]
    BY DEF Continues, Newborns, Alive, Live
  <2>3. \A f \in Future : Provided(f) => Provided(f)'
    BY <2>1, <2>2 DEF Provided, Continues, SettlersStay
  <2> QED
    BY <2>3 DEF Continues, Announces, Inv, PromiseInv
<1> QED
  BY <1>1, <1>2, <1>6, <1>7 DEF Inv

(* The loop settles futures and wakes their waiters, and gives up when it  *)
(* finds nobody to run and nothing to wait for.                            *)
Oversees(M) ==
  /\ Wakes(M)
  /\ \A f \in Future : future'[f] = future[f] \/ Settles(f, M)
  /\ \A f \in Future : future'[f] = "pending" /\ Provided(f) => Provided(f)'
LoopKeeps == UNCHANGED <<redo, kind, resolves, done>>

LEMMA OverseesRest ==
  ASSUME TypeOK, PlaceInv, LoopKeeps, NEW M, Wakes(M), UNCHANGED future,
         inflight \subseteq inflight', Range(timers) \subseteq Range(timers')
  PROVE  Oversees(M)
<1>1. Alive' = Alive
  BY DEF LoopKeeps, Alive, Live
<1> QED
  BY <1>1 DEF Oversees, Provided, LoopKeeps

LEMMA FireTimerOversees ==
  ASSUME TypeOK, PlaceInv, FireTimer
  PROVE  \E M : Oversees(M)
<1> DEFINE t == Head(timers)
<1>1. /\ t \in Timer /\ t.future \in Future /\ timers \in Seq(Timer) /\ timers # <<>>
      /\ timers' = Tail(timers) /\ inflight' = inflight /\ LoopKeeps
  <2>1. timers \in Seq(Timer) /\ timers # <<>>
    BY DEF FireTimer, TypeOK, FutureType
  <2>2. t \in Timer
    BY <2>1, HeadTailProperties
  <2>3. t.future \in Future
    BY <2>2 DEF Timer
  <2> QED
    BY <2>1, <2>2, <2>3 DEF FireTimer, LoopKeeps
<1>2. Range(timers) \ {t} \subseteq Range(timers')
  BY <1>1, TailRange
<1>3. Alive' = Alive
  BY <1>1 DEF LoopKeeps, Alive, Live
<1>4. \A f \in Future : f # t.future /\ Provided(f) => Provided(f)'
  BY <1>1, <1>2, <1>3 DEF Provided, LoopKeeps
<1>5. CASE /\ future[t.future] = "pending"
           /\ future' = [future EXCEPT ![t.future] = IF t.sub = Nobody THEN "resolved" ELSE "rejected"]
           /\ \E M : Wakes(M) /\ WaitersOfFuture(t.future) \subseteq M
  <2>1. PICK M : Wakes(M) /\ WaitersOfFuture(t.future) \subseteq M
    BY <1>5
  <2>2. \A f \in Future : \/ f # t.future /\ future'[f] = future[f]
                          \/ f = t.future /\ future'[f] \in {"resolved", "rejected"}
    BY <1>5 DEF TypeOK, FutureType
  <2>3. Oversees(M)
    BY <1>4, <1>5, <2>1, <2>2 DEF Oversees, Settles
  <2> QED
    BY <2>3
<1>6. CASE future[t.future] # "pending" /\ future' = future /\ Wakes({})
  <2>1. Oversees({})
    BY <1>4, <1>6 DEF Oversees
  <2> QED
    BY <2>1
<1> QED
  BY <1>5, <1>6, TimerWakes

LEMMA DrainOversees ==
  ASSUME TypeOK, PlaceInv, Drain
  PROVE  \E M : Oversees(M)
<1> DEFINE f == Head(completions)
<1>1. inflight' = inflight \ {f} /\ timers' = timers /\ LoopKeeps
  BY DEF Drain, LoopKeeps, taskVars
<1>2. Alive' = Alive
  BY <1>1 DEF LoopKeeps, Alive, Live
<1>3. \A g \in Future : (g # f \/ f \notin inflight) /\ Provided(g) => Provided(g)'
  BY <1>1, <1>2 DEF Provided, LoopKeeps
<1>4. CASE /\ f \in inflight /\ future[f] = "pending"
           /\ \E st \in {"resolved", "rejected"} : future' = [future EXCEPT ![f] = st]
           /\ Wakes(WaitersOfFuture(f))
  <2>1. \A g \in Future : \/ g # f /\ future'[g] = future[g]
                          \/ g = f /\ future'[g] \in {"resolved", "rejected"}
    BY <1>4 DEF TypeOK, FutureType
  <2>2. Oversees(WaitersOfFuture(f))
    BY <1>3, <1>4, <2>1 DEF Oversees, Settles
  <2> QED
    BY <2>2
<1>5. CASE (f \notin inflight \/ future[f] # "pending") /\ future' = future /\ Wakes({})
  <2>1. Oversees({})
    BY <1>3, <1>5 DEF Oversees
  <2> QED
    BY <2>1
<1> QED
  BY <1>4, <1>5, DrainWakes

LEMMA LoopOversees ==
  ASSUME TypeOK, PlaceInv, (Loop /\ ~PopReady) \/ (\E f \in Future : PostCompletion(f)) \/ UNCHANGED vars
  PROVE  LoopKeeps /\ UNCHANGED current /\ \E M : Oversees(M)
<1>1. CASE FireTimer
  BY <1>1, FireTimerOversees DEF FireTimer, LoopKeeps
<1>2. CASE Drain
  BY <1>2, DrainOversees DEF Drain, LoopKeeps, taskVars, loopVars
<1>3. CASE TryWakeSelects
  <2>1. LoopKeeps /\ UNCHANGED <<current, future, inflight, timers>> /\ Wake(WakeableSelects)
    BY <1>3 DEF TryWakeSelects, LoopStep, LoopKeeps, taskVars, futureVars
  <2>2. WakeableSelects \in SUBSET Range(paused)
    BY DEF WakeableSelects
  <2>3. Wakes(WakeableSelects)
    BY <2>1, <2>2, PlainWake
  <2> QED
    BY <2>1, <2>3, OverseesRest
<1>4. CASE \/ TimersDone \/ Drained \/ SleepUntilDeadline \/ WaitForThreads
           \/ ReturnOk \/ ReturnBlocked \/ ReturnDeadlock
           \/ (\E f \in Future : PostCompletion(f)) \/ UNCHANGED vars
  <2>1. LoopKeeps /\ UNCHANGED <<current, future, inflight, timers, queueVars>>
    BY <1>4 DEF TimersDone, Drained, SleepUntilDeadline, WaitForThreads, ReturnOk, ReturnBlocked,
                ReturnDeadlock, LoopStep, LoopReturns, PostCompletion, vars, loopVars, taskVars,
                queueVars, futureVars, LoopKeeps
  <2>2. Wakes({})
    BY <2>1, NobodyWakes
  <2> QED
    BY <2>1, <2>2, OverseesRest
<1> QED
  BY <1>1, <1>2, <1>3, <1>4 DEF Loop

(* When the loop gives up, every paused coroutine would park again.        *)
LEMMA GivesUpStuck ==
  ASSUME Inv, ReturnOk \/ ReturnBlocked \/ ReturnDeadlock
  PROVE  ready = <<>> /\ \A c \in Range(paused) : Stuck(redo[c])
<1>1. ASSUME NEW c \in Range(paused), ReturnDeadlock
      PROVE  Stuck(redo[c])
  <2>1. WaitsRightly(redo[c]) /\ c \in Coroutine /\ redo[c] \in Operation
    BY PlaceTypes DEF Inv, PausedInv, TypeOK, TaskType
  <2>2. CASE redo[c].op = "select"
    BY <1>1, <2>2 DEF ReturnDeadlock, Idle, WakeableSelects, Stuck
  <2>3. CASE redo[c].op = "await"
    <3>1. redo[c] \in [op : {"await"}, on : {"future"}, id : Future]
                        \cup [op : {"await"}, on : {"handle"}, id : Coroutine]
      BY <2>1, <2>3 DEF Operation, Fresh, Wild, Ended
    <3>2. CASE redo[c] \in [op : {"await"}, on : {"future"}, id : Future]
      <4>1. redo[c].id \in Future /\ redo[c] = AwaitFuture(redo[c].id) /\ redo[c].on = "future"
        BY <3>2 DEF AwaitFuture
      <4>2. ~Scheduled(redo[c].id)
        BY <1>1 DEF ReturnDeadlock, Scheduled
      <4> QED
        BY <2>1, <2>3, <4>1, <4>2 DEF WaitsRightly, Stuck
    <3>3. CASE redo[c] \in [op : {"await"}, on : {"handle"}, id : Coroutine]
      <4>1. redo[c].id \in Coroutine /\ redo[c] = AwaitJoin(redo[c].id) /\ redo[c].on = "handle"
        BY <3>3 DEF AwaitJoin
      <4> QED
        BY <2>1, <2>3, <4>1 DEF WaitsRightly, Stuck
    <3> QED
      BY <3>1, <3>2, <3>3
  <2> QED
    BY <2>1, <2>2, <2>3 DEF WaitsRightly
<1>2. ASSUME ReturnOk
      PROVE  Range(paused) = {}
  BY <1>2 DEF ReturnOk, KeepsRunning, Range
<1>3. ASSUME ReturnBlocked, NEW c \in Range(paused)
      PROVE  Stuck(redo[c])
  BY <1>3 DEF ReturnBlocked, OnlyEmptySelects, Stuck, SelectOp, ReadyCases
<1>4. ready = <<>>
  BY DEF ReturnOk, KeepsRunning, ReturnBlocked, ReturnDeadlock, Idle
<1> QED
  BY <1>1, <1>2, <1>3, <1>4

LEMMA LoopBusy ==
  ASSUME Inv, Loop \/ (\E f \in Future : PostCompletion(f)) \/ UNCHANGED vars
  PROVE  Busy' /\ OnlyTheStuckArePaused'
<1>1. CASE ReturnOk \/ ReturnBlocked \/ ReturnDeadlock
  <2>1. /\ outcome' \in {"ok", "deadlock"} /\ phase' = "exited" /\ UNCHANGED current
        /\ phase # "run"
        /\ UNCHANGED <<ready, paused, redo, future, timers, inflight, done, buffer, waitingSenders, waitingReceivers, closed>>
    BY <1>1 DEF ReturnOk, ReturnBlocked, ReturnDeadlock, LoopReturns, Idle, queueVars, taskVars,
                channelVars, futureVars
  <2>2. \A o : Stuck(o)' <=> Stuck(o)
    BY <2>1 DEF Stuck, Scheduled, ReadyCases, IsReady, HasValue, HasRoom
  <2>3. ready = <<>> /\ \A c \in Range(paused) : Stuck(redo[c])
    BY <1>1, GivesUpStuck
  <2>4. OnlyTheStuckArePaused'
    BY <2>1, <2>3 DEF OnlyTheStuckArePaused, Stuck, Scheduled, ReadyCases, IsReady, HasValue, HasRoom
  <2> QED
    BY <2>1, <2>4 DEF Inv, Busy
<1>2. CASE \/ TimersDone \/ Drained \/ SleepUntilDeadline \/ WaitForThreads \/ TryWakeSelects
           \/ FireTimer \/ Drain
  <2>1. /\ phase \notin {"run", "exited"} /\ phase' \notin {"run", "exited"}
        /\ UNCHANGED <<outcome, current>>
    BY <1>2 DEF TimersDone, Drained, SleepUntilDeadline, WaitForThreads, TryWakeSelects, Idle,
                FireTimer, Drain, LoopStep, loopVars
  <2> QED
    BY <2>1 DEF Inv, Busy, OnlyTheStuckArePaused
<1>3. CASE PopReady
  <2>1. Head(ready) \in Coroutine
    BY <1>3, TailRange, PlaceTypes DEF PopReady, Inv
  <2> QED
    BY <1>3, <2>1, NobodyIsNoCoroutine DEF PopReady, Inv, Busy, OnlyTheStuckArePaused
<1>4. CASE \E f \in Future : PostCompletion(f)
  BY <1>4 DEF PostCompletion, loopVars, Inv, Busy, OnlyTheStuckArePaused
<1>5. CASE UNCHANGED vars
  BY <1>5 DEF Inv, Busy, OnlyTheStuckArePaused, Stuck, Scheduled, ReadyCases, IsReady, HasValue, HasRoom,
              vars, loopVars, queueVars, taskVars, channelVars, futureVars
<1> QED
  BY <1>1, <1>2, <1>3, <1>4, <1>5 DEF Loop

LEMMA OverseesInv ==
  ASSUME Inv, TypeOK', PlaceInv', Busy', OnlyTheStuckArePaused', LoopKeeps, NEW M, Oversees(M)
  PROVE  Inv'
<1>1. LifeInv'
  BY DEF Inv, LifeInv, UnbornAreFresh, EndedTell, OnlyAsyncSettle, LoopKeeps
<1>2. PausedInv'
  <2> SUFFICES ASSUME NEW d \in Range(paused')
               PROVE  WaitsRightly(redo[d])'
    BY DEF PausedInv, LoopKeeps
  <2>1. d \in Range(paused) /\ d \notin M
    BY DEF Oversees, Wakes
  <2>2. redo' = redo /\ WaitsRightly(redo[d])
    BY <2>1 DEF Inv, PausedInv, LoopKeeps
  <2>3. ASSUME NEW f \in Future, redo[d] = AwaitFuture(f)
        PROVE  future'[f] = "pending"
    <3>1. future[f] = "pending" /\ d \in WaitersOfFuture(f)
      BY <2>1, <2>2, <2>3 DEF WaitsRightly, WaitersOfFuture
    <3> QED
      BY <2>1, <3>1 DEF Oversees, Settles
  <2> QED
    BY <2>2, <2>3 DEF WaitsRightly, LoopKeeps
<1>3. PromiseInv'
  BY DEF Inv, PromiseInv, Oversees, Settles
<1> QED
  BY <1>1, <1>2, <1>3 DEF Inv

LEMMA PopInv ==
  ASSUME Inv, TypeOK', PlaceInv', Busy', OnlyTheStuckArePaused', PopReady
  PROVE  Inv'
<1>1. UNCHANGED <<paused, redo, kind, resolves, done, future, inflight, timers>>
  BY DEF PopReady, taskVars, futureVars
<1>2. LifeInv' /\ PausedInv' /\ PromiseInv'
  BY <1>1 DEF Inv, LifeInv, UnbornAreFresh, EndedTell, OnlyAsyncSettle, PausedInv, WaitsRightly,
              PromiseInv, Provided, Alive, Live
<1> QED
  BY <1>2 DEF Inv

LEMMA InvStep == Inv /\ [Next]_vars => Inv'
<1> SUFFICES ASSUME Inv, [Next]_vars PROVE Inv'
  OBVIOUS
<1>1. TypeOK'
  BY NextType DEF Inv
<1>2. ASSUME NEW c \in Coroutine, Execute(c)
      PROVE  Inv'
  <2>1. phase = "run" /\ current = c /\ PlaceInv'
    BY <1>1, <1>2, ExecuteRuns, ExecutePlace DEF Inv, LifeInv
  <2>2. Ends(c) \/ Continues(c)
    BY <1>2, ExecuteContinues DEF Inv, LifeInv
  <2> QED
    BY <1>1, <2>1, <2>2, EndInv, ContinuesInv
<1>3. ASSUME Loop \/ (\E f \in Future : PostCompletion(f)) \/ UNCHANGED vars
      PROVE  Inv'
  <2>1. phase # "run" => current = Nobody
    BY DEF Inv, Busy
  <2>2. PlaceInv' /\ Busy' /\ OnlyTheStuckArePaused'
    BY <1>3, <2>1, LoopPlace, LoopBusy DEF Inv
  <2>3. CASE PopReady
    BY <1>1, <2>2, <2>3, PopInv
  <2>4. CASE ~PopReady
    <3>1. LoopKeeps /\ \E M : Oversees(M)
      BY <1>3, <2>4, LoopOversees DEF Inv
    <3> QED
      BY <1>1, <2>2, <3>1, OverseesInv
  <2> QED
    BY <2>3, <2>4
<1> QED
  BY <1>2, <1>3 DEF Next, Returned

(* At the start the main coroutine is ready and there is nobody else.      *)
LEMMA InitInv == Init => Inv
<1> SUFFICES ASSUME Init PROVE Inv
  OBVIOUS
<1>1. TypeOK
  BY InitType
<1>2. Main \in Coroutine /\ Range(<<Main>>) = {Main} /\ Range(<<>>) = {}
      /\ IsInjective(<<Main>>) /\ IsInjective(<<>>)
  BY ConstantsAssumption DEF Main, Coroutine, Range, IsInjective
<1>3. Alive = {Main}
  BY <1>2, Unended DEF Init, Alive, Live
<1>4. \A ch \in Channel : SendersOf(ch) = <<>> /\ waitingReceivers[ch] = <<>>
  <2>1. \A ch \in Channel : waitingSenders[ch] = <<>> /\ waitingReceivers[ch] = <<>>
    BY DEF Init
  <2> QED
    BY <2>1 DEF SendersOf
<1>5. \A ch \in Channel : SendersIn[ch] = {} /\ ReceiversIn[ch] = {}
  BY <1>2, <1>4 DEF SendersIn, ReceiversIn
<1>6. Range(ready) = {Main} /\ Range(paused) = {} /\ current = Nobody
  BY <1>2 DEF Init
<1>7. Separate
  BY <1>2, <1>3, <1>5, <1>6, NobodyIsNoCoroutine DEF Separate, Apart, Alone
<1>8. Distinct
  BY <1>2, <1>4 DEF Distinct, Init
<1>9. Busy /\ LifeInv /\ PausedInv /\ OnlyTheStuckArePaused
  BY <1>6, Unended DEF Init, Busy, LifeInv, UnbornAreFresh, EndedTell, OnlyAsyncSettle, PausedInv,
                       OnlyTheStuckArePaused
<1>10. PromiseInv
  BY DEF Init, PromiseInv
<1> QED
  BY <1>1, <1>7, <1>8, <1>9, <1>10 DEF Inv, PlaceInv

LEMMA Invariance == Spec => []Inv
  BY InitInv, InvStep, PTL DEF Spec

(* When event_loop_run returns or reports a deadlock, whoever is left is   *)
(* in a place where it can be found and what it waits for has not come:    *)
(* whatever the program, the loop never gives up on, nor loses, a coroutine*)
(* that could go on.                                                       *)
THEOREM LeavesOnlyTheStuckAlways == Spec => []LeavesOnlyTheStuck
<1>1. Inv /\ ChannelDiscipline => LeavesOnlyTheStuck
  <2> SUFFICES ASSUME Inv, ChannelDiscipline, outcome \in {"ok", "deadlock"},
                      NEW c \in Coroutine, Live(c)
               PROVE  \/ c \in Range(paused) /\ Stuck(redo[c])
                      \/ \E ch \in Channel : StuckIn(ch, c)
    BY DEF LeavesOnlyTheStuck
  <2>1. current # c /\ c \notin Range(ready)
    <3>1. current = Nobody
      BY DEF Inv, Busy
    <3>2. ready = <<>>
      BY DEF Inv, OnlyTheStuckArePaused
    <3> QED
      BY <3>1, <3>2, NobodyIsNoCoroutine DEF Range
  <2>2. \/ c \in Range(paused)
        \/ \E ch \in Channel : c \in SendersIn[ch] \/ c \in ReceiversIn[ch]
    BY <2>1 DEF Inv, PlaceInv, Separate, Apart, Alone, Alive
  <2>3. CASE c \in Range(paused)
    BY <2>3 DEF Inv, OnlyTheStuckArePaused
  <2>4. ASSUME NEW ch \in Channel, c \in SendersIn[ch]
        PROVE  StuckIn(ch, c)
    <3>1. c \in Range(SendersOf(ch)) /\ waitingSenders[ch] # <<>>
      <4>1. c \in Range(SendersOf(ch))
        BY <2>4 DEF SendersIn
      <4>2. Range(SendersOf(ch)) = {} \/ DOMAIN waitingSenders[ch] # {}
        BY DEF SendersOf, Range
      <4> QED
        BY <4>1, <4>2
    <3>2. Disciplined(ch) /\ Len(buffer[ch]) \in Nat /\ Capacity[ch] \in Nat
      BY ChannelFacts DEF Inv
    <3> QED
      BY <3>1, <3>2 DEF StuckIn, Disciplined, HasRoom
  <2>5. ASSUME NEW ch \in Channel, c \in ReceiversIn[ch]
        PROVE  StuckIn(ch, c)
    <3>1. c \in Range(waitingReceivers[ch]) /\ waitingReceivers[ch] # <<>>
      BY <2>5 DEF ReceiversIn, Range
    <3> QED
      BY <3>1 DEF StuckIn, ChannelDiscipline, Disciplined, HasValue
  <2> QED
    BY <2>2, <2>3, <2>4, <2>5
<1> QED
  BY <1>1, Invariance, ChannelsAreDisciplined, PTL

(* A coroutine that is paused on a future or on a handle is paused on one  *)
(* that is still open: whoever settles it, an ending coroutine, a timer or *)
(* a background thread, wakes every waiter in the same step.               *)
THEOREM NoWakeupIsLost == Spec => []NoLostWakeup
<1>1. Inv => NoLostWakeup
  BY DEF Inv, PausedInv, WaitsRightly, NoLostWakeup
<1> QED
  BY <1>1, Invariance, PTL

(* A pending future always has a live coroutine, a timer or a request in   *)
(* flight that will settle it, and the handle of a go coroutine is open    *)
(* exactly while that coroutine lives.                                     *)
THEOREM SomeoneAlwaysSettles == Spec => []SomeoneWillSettle
<1>1. Inv => SomeoneWillSettle
  <2> SUFFICES ASSUME Inv PROVE SomeoneWillSettle
    OBVIOUS
  <2>1. ASSUME NEW f \in Future, Provided(f)
        PROVE  \/ f \in inflight
               \/ \E i \in DOMAIN timers : timers[i].future = f
               \/ \E c \in Coroutine : resolves[c] = f /\ Live(c)
    BY <2>1 DEF Provided, Range, Alive
  <2>2. \A c \in Coroutine : kind[c] = "go" => (done[c] = "no" <=> redo[c] # Ended)
    BY DEF Inv, LifeInv, EndedTell
  <2> QED
    BY <2>1, <2>2 DEF SomeoneWillSettle, Inv, PromiseInv
<1> QED
  BY <1>1, Invariance, PTL

-----------------------------------------------------------------------------
(* One place each.                                                         *)
LEMMA OnePosition ==
  ASSUME NEW s \in Seq(Coroutine), IsInjective(s), NEW c
  PROVE  /\ c \notin Range(s) => Positions(s, c) = {}
         /\ c \in Range(s) => \E i : Positions(s, c) = {i}
  BY DEF Positions, Range, IsInjective

InPlace(c, p) ==
  \/ current = c /\ p = <<"current">>
  \/ \E i \in Positions(ready, c) : p = <<"ready", i>>
  \/ \E i \in Positions(paused, c) : p = <<"paused", i>>
  \/ \E ch \in Channel : \E i \in Positions(SendersOf(ch), c) : p = <<"sender", ch, i>>
  \/ \E ch \in Channel : \E i \in Positions(waitingReceivers[ch], c) : p = <<"receiver", ch, i>>

LEMMA PlacesAre == \A c, p : p \in Places(c) <=> InPlace(c, p)
<1> SUFFICES ASSUME NEW c, NEW p PROVE p \in Places(c) <=> InPlace(c, p)
  OBVIOUS
<1>1. p \in UNION {{<<"sender", ch, i>> : i \in Positions(SendersOf(ch), c)} : ch \in Channel}
        <=> \E ch \in Channel : \E i \in Positions(SendersOf(ch), c) : p = <<"sender", ch, i>>
  OBVIOUS
<1>2. p \in UNION {{<<"receiver", ch, i>> : i \in Positions(waitingReceivers[ch], c)} : ch \in Channel}
        <=> \E ch \in Channel : \E i \in Positions(waitingReceivers[ch], c) : p = <<"receiver", ch, i>>
  OBVIOUS
<1> QED
  BY <1>1, <1>2 DEF Places, InPlace

LEMMA OneInPlace ==
  ASSUME TypeOK, PlaceInv, NEW c \in Coroutine
  PROVE  /\ Live(c) => \E x : \A p : InPlace(c, p) <=> p = x
         /\ ~Live(c) => \A p : ~InPlace(c, p)
<1>1. /\ c \notin Range(ready) => Positions(ready, c) = {}
      /\ c \notin Range(paused) => Positions(paused, c) = {}
      /\ \A ch \in Channel : c \notin SendersIn[ch] => Positions(SendersOf(ch), c) = {}
      /\ \A ch \in Channel : c \notin ReceiversIn[ch] => Positions(waitingReceivers[ch], c) = {}
  BY OnePosition, PlaceTypes DEF PlaceInv, Distinct, SendersIn, ReceiversIn
<1>2. Alone(current, Range(ready), Range(paused), SendersIn, ReceiversIn, Alive, c)
  BY DEF PlaceInv, Separate, Apart
<1>3. CASE ~Live(c)
  BY <1>1, <1>2, <1>3 DEF Alone, Alive, InPlace
<1>4. CASE current = c
  <2>1. Live(c)
    BY <1>2, <1>4 DEF Alone, Alive
  <2>2. \A p : InPlace(c, p) <=> p = <<"current">>
    BY <1>1, <1>2, <1>4 DEF Alone, InPlace
  <2> QED
    BY <2>1, <2>2
<1>5. CASE c \in Range(ready)
  <2>1. PICK i : Positions(ready, c) = {i}
    BY <1>5, OnePosition, PlaceTypes DEF PlaceInv, Distinct
  <2>2. current # c /\ Live(c)
    BY <1>2, <1>5 DEF Alone, Alive
  <2>3. \A p : InPlace(c, p) <=> p = <<"ready", i>>
    BY <1>1, <1>2, <1>5, <2>1, <2>2 DEF Alone, InPlace
  <2> QED
    BY <2>2, <2>3
<1>6. CASE c \in Range(paused)
  <2>1. PICK i : Positions(paused, c) = {i}
    BY <1>6, OnePosition, PlaceTypes DEF PlaceInv, Distinct
  <2>2. current # c /\ Live(c) /\ c \notin Range(ready)
    BY <1>2, <1>6 DEF Alone, Alive
  <2>3. \A p : InPlace(c, p) <=> p = <<"paused", i>>
    BY <1>1, <1>2, <1>6, <2>1, <2>2 DEF Alone, InPlace
  <2> QED
    BY <2>2, <2>3
<1>7. ASSUME NEW ch \in Channel, c \in SendersIn[ch]
      PROVE  Live(c) /\ \E x : \A p : InPlace(c, p) <=> p = x
  <2>1. PICK i : Positions(SendersOf(ch), c) = {i}
    BY <1>7, OnePosition, PlaceTypes DEF PlaceInv, Distinct, SendersIn
  <2>2. current # c /\ Live(c) /\ c \notin Range(ready) /\ c \notin Range(paused)
    BY <1>2, <1>7 DEF Alone, Alive
  <2>3. /\ \A d \in Channel : Positions(waitingReceivers[d], c) = {}
        /\ \A d \in Channel : d # ch => Positions(SendersOf(d), c) = {}
    BY <1>1, <1>2, <1>7 DEF Alone
  <2>4. \A p : InPlace(c, p) <=> p = <<"sender", ch, i>>
    BY <1>1, <2>1, <2>2, <2>3 DEF InPlace
  <2> QED
    BY <2>2, <2>4
<1>8. ASSUME NEW ch \in Channel, c \in ReceiversIn[ch]
      PROVE  Live(c) /\ \E x : \A p : InPlace(c, p) <=> p = x
  <2>1. PICK i : Positions(waitingReceivers[ch], c) = {i}
    BY <1>8, OnePosition, PlaceTypes DEF PlaceInv, Distinct, ReceiversIn
  <2>2. current # c /\ Live(c) /\ c \notin Range(ready) /\ c \notin Range(paused)
    BY <1>2, <1>8 DEF Alone, Alive
  <2>3. /\ \A d \in Channel : Positions(SendersOf(d), c) = {}
        /\ \A d \in Channel : d # ch => Positions(waitingReceivers[d], c) = {}
    BY <1>1, <1>2, <1>8 DEF Alone
  <2>4. \A p : InPlace(c, p) <=> p = <<"receiver", ch, i>>
    BY <1>1, <2>1, <2>2, <2>3 DEF InPlace
  <2> QED
    BY <2>2, <2>4
<1>9. Live(c) => \/ current = c \/ c \in Range(ready) \/ c \in Range(paused)
                 \/ \E ch \in Channel : c \in SendersIn[ch] \/ c \in ReceiversIn[ch]
  BY <1>2 DEF Alone, Alive
<1> QED
  BY <1>3, <1>4, <1>5, <1>6, <1>7, <1>8, <1>9

(* A coroutine is moved, never copied or dropped: until it ends it runs,   *)
(* is ready, is paused, or waits in one queue of one channel, and only in  *)
(* that place, once; afterwards it is nowhere.                             *)
THEOREM ExactlyOnePlaceAlways == Spec => []ExactlyOnePlace
<1>1. Inv => ExactlyOnePlace
  <2> SUFFICES ASSUME Inv, NEW c \in Coroutine
               PROVE  Cardinality(Places(c)) = IF Live(c) THEN 1 ELSE 0
    BY DEF ExactlyOnePlace
  <2>1. CASE Live(c)
    <3>1. PICK x : \A p : InPlace(c, p) <=> p = x
      BY <2>1, OneInPlace DEF Inv
    <3>2. Places(c) = {x}
      BY <3>1, PlacesAre
    <3> QED
      BY <2>1, <3>2, FS_Singleton
  <2>2. CASE ~Live(c)
    <3>1. Places(c) = {}
      BY <2>2, OneInPlace, PlacesAre DEF Inv
    <3> QED
      BY <2>2, <3>1, FS_EmptySet
  <2> QED
    BY <2>1, <2>2
<1> QED
  BY <1>1, Invariance, PTL

-----------------------------------------------------------------------------
(* Action properties.                                                      *)
LEMMA StepKinds ==
  ASSUME Inv, [Next]_vars
  PROVE  \/ \E c \in Coroutine : c \in Alive /\ Continues(c)
         \/ \E c \in Coroutine : \E M : c \in Alive /\ Concludes(c, M)
         \/ \E M : Oversees(M) /\ done' = done
         \/ PopReady /\ UNCHANGED <<future, done>>
<1>1. ASSUME NEW c \in Coroutine, Execute(c)
      PROVE  c \in Alive /\ (Continues(c) \/ \E M : Concludes(c, M))
  <2>1. phase = "run" /\ current = c
    BY <1>1, ExecuteRuns
  <2>2. c \in Alive
    BY <2>1, CurrentIsAlive DEF Inv
  <2>3. Ends(c) \/ Continues(c)
    BY <1>1, ExecuteContinues DEF Inv, LifeInv
  <2> QED
    BY <2>2, <2>3, EndConcludes DEF Inv
<1>2. ASSUME Loop \/ (\E f \in Future : PostCompletion(f)) \/ UNCHANGED vars, ~PopReady
      PROVE  \E M : Oversees(M) /\ done' = done
  BY <1>2, LoopOversees DEF Inv, LoopKeeps
<1>3. ASSUME PopReady
      PROVE  UNCHANGED <<future, done>>
  BY <1>3 DEF PopReady, taskVars, futureVars
<1> QED
  BY <1>1, <1>2, <1>3 DEF Next, Returned

(* A future that is resolved or rejected, and a handle that is done, stay  *)
(* as they are, however many coroutines, timers and background threads     *)
(* still try to settle them.                                               *)
THEOREM SettledOnce == Spec => SettlesOnce
<1>1. Inv /\ [Next]_vars =>
        /\ \A f \in Future : future[f] \in {"resolved", "rejected"} => future'[f] = future[f]
        /\ \A c \in Coroutine : done[c] # "no" => done'[c] = done[c]
  <2> SUFFICES ASSUME Inv, [Next]_vars
               PROVE  /\ \A f \in Future : future[f] \in {"resolved", "rejected"} => future'[f] = future[f]
                      /\ \A c \in Coroutine : done[c] # "no" => done'[c] = done[c]
    OBVIOUS
  <2>1. \A c \in Alive : done[c] = "no"
    BY DEF Inv, LifeInv, EndedTell, Alive, Live
  <2>2. ASSUME NEW c \in Coroutine, Continues(c)
        PROVE  done' = done /\ \A f \in Future : future[f] # "none" => future'[f] = future[f]
    BY <2>2 DEF Continues, Announces
  <2>3. ASSUME NEW c \in Alive, NEW M, Concludes(c, M)
        PROVE  /\ \A f \in Future : future[f] # "pending" => future'[f] = future[f]
               /\ \A d \in Coroutine : done[d] # "no" => done'[d] = done[d]
    BY <2>1, <2>3 DEF Concludes, Settles
  <2>4. ASSUME NEW M, Oversees(M)
        PROVE  \A f \in Future : future[f] # "pending" => future'[f] = future[f]
    BY <2>4 DEF Oversees, Settles
  <2>5. CASE \E c \in Coroutine : c \in Alive /\ Continues(c)
    BY <2>2, <2>5
  <2>6. CASE \E c \in Coroutine : \E M : c \in Alive /\ Concludes(c, M)
    BY <2>3, <2>6
  <2>7. CASE \E M : Oversees(M) /\ done' = done
    BY <2>4, <2>7
  <2> QED
    BY <2>5, <2>6, <2>7, StepKinds
<1> QED
  BY <1>1, Invariance, PTL DEF Spec, SettlesOnce

LEMMA GrownQueue ==
  ASSUME TypeOK, NEW more \in Seq(Coroutine), ready' = ready \o more
  PROVE  Len(ready) <= Len(ready') /\ SubSeq(ready', 1, Len(ready)) = ready
  BY PlaceTypes, ConcatProperties, SubSeqOfConcat1, SubSeqFull

(* Coroutines run in the order they became ready: a step appends to the    *)
(* ready queue or takes its head, and does nothing else to it.             *)
THEOREM ReadyIsAQueue == Spec => ReadyIsFifo
<1>1. Inv /\ [Next]_vars =>
        \E front \in {ready} \cup (IF ready = <<>> THEN {} ELSE {Tail(ready)}) :
          /\ Len(front) <= Len(ready')
          /\ SubSeq(ready', 1, Len(front)) = front
  <2> SUFFICES ASSUME Inv, [Next]_vars
               PROVE  \E front \in {ready} \cup (IF ready = <<>> THEN {} ELSE {Tail(ready)}) :
                        /\ Len(front) <= Len(ready')
                        /\ SubSeq(ready', 1, Len(front)) = front
    OBVIOUS
  <2>1. ASSUME \E more \in Seq(Coroutine) : ready' = ready \o more
        PROVE  Len(ready) <= Len(ready') /\ SubSeq(ready', 1, Len(ready)) = ready
    BY <2>1, GrownQueue DEF Inv
  <2>2. CASE PopReady
    <3>1. ready # <<>> /\ ready' = Tail(ready) /\ Tail(ready) \in Seq(Coroutine)
      BY <2>2, PlaceTypes, HeadTailProperties DEF PopReady, Inv
    <3>2. SubSeq(Tail(ready), 1, Len(Tail(ready))) = Tail(ready) /\ Len(Tail(ready)) \in Nat
      BY <3>1, SubSeqFull, LenProperties
    <3> QED
      BY <3>1, <3>2
  <2>3. CASE ~PopReady
    BY <2>1, <2>3, StepKinds DEF Continues, QueuesUp, Concludes, Oversees, Wakes
  <2> QED
    BY <2>2, <2>3
<1> QED
  BY <1>1, Invariance, PTL DEF Spec, ReadyIsFifo

-----------------------------------------------------------------------------
(***************************************************************************)
(* Every channel of the event loop implements the FIFO channel of          *)
(* FifoChannel: the values pending in it are those of its buffer, then     *)
(* those its waiting senders hold.  Each step of each operation maps to    *)
(* one step of FifoChannel, or to none.                                    *)
(***************************************************************************)

(* Sequences.                                                              *)
LEMMA HeadTailConcat ==
  ASSUME NEW S, NEW s \in Seq(S), NEW t \in Seq(S), s # <<>>
  PROVE  s \o t # <<>> /\ Head(s \o t) = Head(s) /\ Tail(s \o t) = Tail(s) \o t
<1>1. /\ Tail(s) \in Seq(S) /\ Len(Tail(s)) = Len(s) - 1 /\ Len(s) \in Nat \ {0} /\ Len(t) \in Nat
      /\ \A i \in 1..Len(Tail(s)) : Tail(s)[i] = s[i + 1]
  BY HeadTailProperties, EmptySeq, LenProperties
<1> DEFINE u == s \o t
<1>2. /\ u \in Seq(S) /\ Len(u) = Len(s) + Len(t)
      /\ \A i \in 1..Len(s) + Len(t) : u[i] = IF i <= Len(s) THEN s[i] ELSE t[i - Len(s)]
  BY ConcatProperties
<1> HIDE DEF u
<1>3. u # <<>> /\ Head(u) = u[1] /\ Head(s) = s[1]
  BY <1>1, <1>2, EmptySeq
<1>4. /\ Tail(u) \in Seq(S) /\ Len(Tail(u)) = Len(u) - 1
      /\ \A i \in 1..Len(Tail(u)) : Tail(u)[i] = u[i + 1]
  BY <1>2, <1>3, HeadTailProperties
<1> DEFINE w == Tail(s) \o t
<1>5. /\ w \in Seq(S) /\ Len(w) = Len(Tail(s)) + Len(t)
      /\ \A i \in 1..Len(Tail(s)) + Len(t) :
           w[i] = IF i <= Len(Tail(s)) THEN Tail(s)[i] ELSE t[i - Len(Tail(s))]
  BY <1>1, ConcatProperties
<1> HIDE DEF w
<1>6. Len(Tail(u)) = Len(w)
  BY <1>1, <1>2, <1>4, <1>5
<1>7. ASSUME NEW i \in 1..Len(Tail(u))
      PROVE  Tail(u)[i] = w[i]
  <2>1. Tail(u)[i] = IF i + 1 <= Len(s) THEN s[i + 1] ELSE t[(i + 1) - Len(s)]
    BY <1>1, <1>2, <1>4
  <2>2. w[i] = IF i <= Len(s) - 1 THEN s[i + 1] ELSE t[i - (Len(s) - 1)]
    BY <1>1, <1>2, <1>4, <1>5
  <2>3. i + 1 <= Len(s) <=> i <= Len(s) - 1
    BY <1>1
  <2>4. (i + 1) - Len(s) = i - (Len(s) - 1)
    BY <1>1
  <2> QED
    BY <2>1, <2>2, <2>3, <2>4
<1>8. Tail(u) = w
  BY <1>4, <1>5, <1>6, <1>7, SeqEqual
<1>9. u[1] = s[1]
  BY <1>1, <1>2
<1> QED
  BY <1>3, <1>8, <1>9 DEF u, w

LEMMA HeadAndTail ==
  ASSUME NEW S, NEW s \in Seq(S), s # <<>>
  PROVE  s = <<Head(s)>> \o Tail(s)
<1>1. /\ Tail(s) \in Seq(S) /\ Len(Tail(s)) = Len(s) - 1 /\ Len(s) \in Nat \ {0}
      /\ \A i \in 1..Len(Tail(s)) : Tail(s)[i] = s[i + 1]
      /\ Head(s) \in S /\ Head(s) = s[1]
  BY HeadTailProperties, EmptySeq, LenProperties
<1> DEFINE h == <<Head(s)>>
<1>2. h \in Seq(S) /\ Len(h) = 1 /\ h[1] = s[1]
  BY <1>1
<1> HIDE DEF h
<1> DEFINE u == h \o Tail(s)
<1>3. /\ u \in Seq(S) /\ Len(u) = Len(h) + Len(Tail(s))
      /\ \A i \in 1..Len(h) + Len(Tail(s)) : u[i] = IF i <= Len(h) THEN h[i] ELSE Tail(s)[i - Len(h)]
  BY <1>1, <1>2, ConcatProperties
<1> HIDE DEF u
<1>4. Len(u) = Len(s)
  BY <1>1, <1>2, <1>3
<1>5. ASSUME NEW i \in 1..Len(s)
      PROVE  u[i] = s[i]
  <2>1. CASE i = 1
    BY <1>1, <1>2, <1>3, <2>1
  <2>2. CASE i # 1
    <3>1. i - 1 \in 1..Len(Tail(s)) /\ (i - 1) + 1 = i
      BY <1>1, <2>2
    <3>2. Tail(s)[i - 1] = s[i]
      BY <1>1, <3>1
    <3> QED
      BY <1>1, <1>2, <1>3, <2>2, <3>2
  <2> QED
    BY <2>1, <2>2
<1>6. u = s
  BY <1>3, <1>4, <1>5, SeqEqual
<1> QED
  BY <1>6 DEF u, h

LEMMA AppendConcat ==
  ASSUME NEW S, NEW s \in Seq(S), NEW t \in Seq(S), NEW x \in S
  PROVE  /\ Append(s, x) \o t = s \o (<<x>> \o t)
         /\ s \o Append(t, x) = Append(s \o t, x)
<1>1. <<x>> \in Seq(S) /\ Append(s, x) = s \o <<x>> /\ Append(t, x) = t \o <<x>>
  BY AppendIsConcat
<1>2. s \o t \in Seq(S)
  BY ConcatProperties
<1>3. Append(s \o t, x) = (s \o t) \o <<x>>
  BY <1>2, AppendIsConcat
<1> DEFINE one == <<x>>
<1>4. one \in Seq(S)
  BY <1>1
<1> HIDE DEF one
<1>5. \A u, v, w \in Seq(S) : (u \o v) \o w = u \o (v \o w)
  BY SMTT(60), ConcatAssociative
<1>6. (s \o one) \o t = s \o (one \o t) /\ (s \o t) \o one = s \o (t \o one)
  BY <1>4, <1>5
<1> QED
  BY <1>1, <1>3, <1>6 DEF one

LEMMA FrontOfConcat ==
  ASSUME NEW S, NEW s \in Seq(S), NEW t \in Seq(S)
  PROVE  SubSeq(s \o t, 1, Len(s)) = s
<1>1. CASE s = <<>>
  <2>1. s \o t = t /\ Len(s) = 0
    BY <1>1, ConcatEmptySeq
  <2>2. SubSeq(t, 1, 0) \in Seq(S) /\ Len(SubSeq(t, 1, 0)) = 0
    BY SubSeqProperties
  <2> QED
    BY <1>1, <2>1, <2>2, EmptySeq
<1>2. CASE s # <<>>
  <2>1. Len(s) \in 1..Len(s) /\ 1 \in 1..Len(s)
    BY <1>2, EmptySeq, LenProperties
  <2> QED
    BY <2>1, SubSeqOfConcat1, SubSeqFull
<1> QED
  BY <1>1, <1>2

-----------------------------------------------------------------------------
(* The refinement mapping.                                                 *)
Held(ch) == Mapped(waitingSenders[ch], ValOf)
InChannel(ch) == buffer[ch] \o Held(ch)

LEMMA FifoTypes ==
  ASSUME TypeOK, NEW ch \in Channel
  PROVE  /\ buffer[ch] \in Seq(Nat) /\ Held(ch) \in Seq(Nat) /\ InChannel(ch) \in Seq(Nat)
         /\ waitingSenders[ch] \in Seq(Offer) /\ sent[ch] \in Nat
         /\ waitingSenders[ch] = <<>> => Held(ch) = <<>> /\ InChannel(ch) = buffer[ch]
<1>0. buffer[ch] \in Seq(Nat) /\ waitingSenders[ch] \in Seq(Offer) /\ sent[ch] \in Nat
  BY DEF TypeOK, ChannelType
<1>1. /\ buffer[ch] \in Seq(Nat) /\ Held(ch) \in Seq(Nat)
      /\ waitingSenders[ch] \in Seq(Offer) /\ sent[ch] \in Nat
  BY <1>0, OffersMapped DEF Held
<1>2. waitingSenders[ch] = <<>> => Held(ch) = <<>>
  BY DEF Held, Mapped
<1>3. InChannel(ch) = buffer[ch] \o Held(ch) /\ InChannel(ch) \in Seq(Nat)
  BY <1>1, ConcatProperties DEF InChannel
<1>4. buffer[ch] \o <<>> = buffer[ch]
  BY <1>1, ConcatEmptySeq
<1> QED
  BY <1>1, <1>2, <1>3, <1>4

LEMMA FifoTypesNext ==
  ASSUME TypeOK', NEW ch \in Channel, waitingSenders'[ch] = <<>>
  PROVE  InChannel(ch)' = buffer'[ch]
<1>1. Held(ch)' = <<>> /\ buffer'[ch] \in Seq(Nat)
  BY DEF TypeOK, ChannelType, Held, Mapped
<1> QED
  BY <1>1, ConcatEmptySeq DEF InChannel

LEMMA FifoBegins ==
  ASSUME Init, NEW ch \in Channel
  PROVE  Fifo(ch)!Init
<1>1. /\ buffer[ch] = <<>> /\ waitingSenders[ch] = <<>> /\ sent[ch] = 0 /\ delivered[ch] = <<>>
      /\ closed[ch] = FALSE
  BY DEF Init
<1>2. [i \in DOMAIN waitingSenders[ch] |-> waitingSenders[ch][i].val] = <<>>
  BY <1>1
<1> QED
  BY <1>1, <1>2 DEF Fifo!Init

FifoStep(ch) == Fifo(ch)!Next \/ UNCHANGED Fifo(ch)!vars

LEMMA FifoOffers ==
  ASSUME TypeOK, TypeOK', NEW ch \in Channel, ~closed[ch], ~closed'[ch],
         sent'[ch] = sent[ch] + 1, delivered'[ch] = delivered[ch],
         InChannel(ch)' = Append(InChannel(ch), sent[ch] + 1)
  PROVE  FifoStep(ch)
<1>1. Fifo(ch)!OfferValue
  BY SendersMapped, SendersMappedNext DEF Fifo!OfferValue, InChannel, Held, TypeOK, ChannelType
<1> QED
  BY <1>1 DEF Fifo!Next, FifoStep

LEMMA FifoReceives ==
  ASSUME TypeOK, TypeOK', NEW ch \in Channel, InChannel(ch) # <<>>,
         closed'[ch] = closed[ch], sent'[ch] = sent[ch],
         delivered'[ch] = Append(delivered[ch], Head(InChannel(ch))),
         InChannel(ch)' = Tail(InChannel(ch))
  PROVE  FifoStep(ch)
<1>1. Fifo(ch)!ReceiveValue
  BY SendersMapped, SendersMappedNext DEF Fifo!ReceiveValue, InChannel, Held, TypeOK
<1> QED
  BY <1>1 DEF Fifo!Next, FifoStep

LEMMA FifoHandsOver ==
  ASSUME TypeOK, TypeOK', NEW ch \in Channel, InChannel(ch) = <<>>, InChannel(ch)' = <<>>,
         ~closed[ch], ~closed'[ch], sent'[ch] = sent[ch] + 1,
         delivered'[ch] = Append(delivered[ch], sent[ch] + 1)
  PROVE  FifoStep(ch)
<1>1. Fifo(ch)!HandOver
  BY SendersMapped, SendersMappedNext DEF Fifo!HandOver, InChannel, Held, TypeOK, ChannelType
<1> QED
  BY <1>1 DEF Fifo!Next, FifoStep

LEMMA FifoShuts ==
  ASSUME TypeOK, TypeOK', NEW ch \in Channel, closed'[ch],
         sent'[ch] = sent[ch], delivered'[ch] = delivered[ch],
         InChannel(ch)' = IF Len(InChannel(ch)) > Capacity[ch]
                          THEN SubSeq(InChannel(ch), 1, Capacity[ch]) ELSE InChannel(ch)
  PROVE  FifoStep(ch)
<1>1. Fifo(ch)!Shut
  BY SendersMapped, SendersMappedNext DEF Fifo!Shut, InChannel, Held, TypeOK, ChannelType
<1> QED
  BY <1>1 DEF Fifo!Next, FifoStep

LEMMA FifoRests ==
  ASSUME NEW ch \in Channel, buffer'[ch] = buffer[ch], waitingSenders'[ch] = waitingSenders[ch],
         closed'[ch] = closed[ch], sent'[ch] = sent[ch], delivered'[ch] = delivered[ch]
  PROVE  FifoStep(ch)
<1>1. UNCHANGED Fifo(ch)!vars
  BY DEF Fifo!vars
<1> QED
  BY <1>1 DEF FifoStep

LEMMA FifoRestsAll ==
  ASSUME UNCHANGED channelVars, NEW ch \in Channel
  PROVE  FifoStep(ch)
  BY FifoRests DEF channelVars

-----------------------------------------------------------------------------
(* The steps of a channel's operations.                                    *)
LEMMA TakeIsFifo ==
  ASSUME TypeOK, TypeOK', NEW c \in Coroutine, NEW ch \in Channel, HasValue(ch), Take(c, ch),
         NEW d \in Channel
  PROVE  FifoStep(d)
<1>1. CASE d # ch
  BY <1>1, FifoRests DEF Take, TypeOK, ChannelType
<1>2. CASE d = ch
  <2> DEFINE ws == waitingSenders[ch]
             rest == IF ws = <<>> THEN <<>> ELSE Mapped(Tail(ws), ValOf)
  <2>1. Values(ch) \in Seq(Nat) /\ Values(ch) # <<>>
    BY ValuesType DEF TypeOK
  <2>2. rest \in Seq(Nat) /\ InChannel(ch) = Values(ch) \o rest
    <3>1. CASE ws = <<>>
      <4>1. Values(ch) = buffer[ch] /\ rest = <<>> /\ InChannel(ch) = buffer[ch]
        BY <3>1, FifoTypes DEF Values
      <4> QED
        BY <2>1, <4>1, ConcatEmptySeq, EmptySeq
    <3>2. CASE ws # <<>>
      <4>1. ws \in Seq(Offer) /\ Tail(ws) \in Seq(Offer) /\ Head(ws).val \in Nat
        BY <3>2, FifoTypes, HeadTailProperties, OfferFields DEF TypeOK
      <4>2. rest \in Seq(Nat) /\ Held(ch) \in Seq(Nat) /\ Held(ch) # <<>>
            /\ Head(Held(ch)) = Head(ws).val /\ Tail(Held(ch)) = rest
        BY <3>2, <4>1, OffersMapped DEF Held
      <4> HIDE DEF rest
      <4>3. Held(ch) = <<Head(ws).val>> \o rest
        BY <4>2, HeadAndTail
      <4>4. Values(ch) = Append(buffer[ch], Head(ws).val) /\ buffer[ch] \in Seq(Nat)
        BY <3>2, FifoTypes DEF Values
      <4>6. Append(buffer[ch], Head(ws).val) \o rest = buffer[ch] \o (<<Head(ws).val>> \o rest)
        <5> DEFINE b == buffer[ch]
                   x == Head(ws).val
        <5>1. b \in Seq(Nat) /\ x \in Nat
          BY <4>1, <4>4
        <5> HIDE DEF b, x
        <5>2. \A v, w \in Seq(Nat), n \in Nat : Append(v, n) \o w = v \o (<<n>> \o w)
          BY SMTT(60), AppendConcat
        <5>3. Append(b, x) \o rest = b \o (<<x>> \o rest)
          BY <4>2, <5>1, <5>2
        <5> QED
          BY <5>3 DEF b, x
      <4>7. InChannel(ch) = buffer[ch] \o Held(ch)
        BY DEF InChannel
      <4>8. InChannel(ch) = Values(ch) \o rest
        BY <4>3, <4>4, <4>6, <4>7
      <4> QED
        BY <4>2, <4>8
    <3> QED
      BY <3>1, <3>2
  <2>3. Held(ch)' = rest
    <3>1. waitingSenders'[ch] = IF ws = <<>> THEN <<>> ELSE Tail(ws)
      BY DEF Take, TypeOK, ChannelType
    <3>2. Mapped(<<>>, ValOf) = <<>>
      BY DEF Mapped
    <3> QED
      BY <3>1, <3>2 DEF Held
  <2>4. /\ buffer'[ch] = Tail(Values(ch)) /\ closed'[ch] = closed[ch] /\ sent'[ch] = sent[ch]
        /\ delivered'[ch] = Append(delivered[ch], Head(Values(ch)))
    BY DEF Take, TypeOK, ChannelType
  <2> HIDE DEF rest
  <2>5. /\ InChannel(ch) # <<>> /\ Head(InChannel(ch)) = Head(Values(ch))
        /\ Tail(InChannel(ch)) = Tail(Values(ch)) \o rest
    BY <2>1, <2>2, HeadTailConcat
  <2>6. InChannel(ch)' = Tail(InChannel(ch))
    BY <2>3, <2>4, <2>5 DEF InChannel
  <2> QED
    BY <1>2, <2>4, <2>5, <2>6, FifoReceives
<1> QED
  BY <1>1, <1>2

LEMMA GiveIsFifo ==
  ASSUME TypeOK, TypeOK', ChannelDiscipline, NEW c \in Coroutine, NEW ch \in Channel,
         waitingReceivers[ch] # <<>>, Give(c, ch), NEW d \in Channel
  PROVE  FifoStep(d)
<1>1. CASE d # ch
  BY <1>1, FifoRests DEF Give, TypeOK, ChannelType
<1>2. CASE d = ch
  <2>1. buffer[ch] = <<>> /\ waitingSenders[ch] = <<>> /\ ~closed[ch]
    BY DEF ChannelDiscipline, Disciplined
  <2>2. /\ buffer'[ch] = <<>> /\ waitingSenders'[ch] = <<>> /\ ~closed'[ch]
        /\ sent'[ch] = sent[ch] + 1 /\ delivered'[ch] = Append(delivered[ch], sent[ch] + 1)
    BY <2>1 DEF Give, TypeOK, ChannelType
  <2>3. InChannel(ch) = <<>> /\ InChannel(ch)' = <<>>
    BY <2>1, <2>2, FifoTypes, FifoTypesNext
  <2> QED
    BY <1>2, <2>1, <2>2, <2>3, FifoHandsOver
<1> QED
  BY <1>1, <1>2

LEMMA StoreIsFifo ==
  ASSUME TypeOK, TypeOK', NEW c \in Coroutine, NEW ch \in Channel, ~closed[ch],
         waitingSenders[ch] = <<>>, Store(c, ch), NEW d \in Channel
  PROVE  FifoStep(d)
<1>1. CASE d # ch
  BY <1>1, FifoRests DEF Store, TypeOK, ChannelType
<1>2. CASE d = ch
  <2>1. /\ buffer'[ch] = Append(buffer[ch], sent[ch] + 1) /\ waitingSenders'[ch] = <<>>
        /\ ~closed'[ch] /\ sent'[ch] = sent[ch] + 1 /\ delivered'[ch] = delivered[ch]
    BY DEF Store, TypeOK, ChannelType
  <2>2. InChannel(ch) = buffer[ch] /\ InChannel(ch)' = buffer'[ch]
    BY <2>1, FifoTypes, FifoTypesNext
  <2> QED
    BY <1>2, <2>1, <2>2, FifoOffers
<1> QED
  BY <1>1, <1>2

LEMMA WaitsToSendIsFifo ==
  ASSUME TypeOK, TypeOK', NEW c \in Coroutine, NEW ch \in Channel, ~closed[ch],
         WaitsToSend(c, ch), NEW d \in Channel
  PROVE  FifoStep(d)
<1>1. CASE d # ch
  BY <1>1, FifoRests DEF WaitsToSend, TypeOK, ChannelType
<1>2. CASE d = ch
  <2> DEFINE o == [co |-> c, val |-> sent[ch] + 1]
  <2>1. /\ buffer'[ch] = buffer[ch] /\ waitingSenders'[ch] = Append(waitingSenders[ch], o)
        /\ ~closed'[ch] /\ sent'[ch] = sent[ch] + 1 /\ delivered'[ch] = delivered[ch]
    BY DEF WaitsToSend, TypeOK, ChannelType
  <2>2. o \in Offer /\ o.val = sent[ch] + 1 /\ sent[ch] + 1 \in Nat
    BY FifoTypes DEF Offer
  <2> HIDE DEF o
  <2>3. Held(ch)' = Append(Held(ch), sent[ch] + 1)
    BY <2>1, <2>2, FifoTypes, OffersMapped DEF Held
  <2>4. InChannel(ch)' = buffer[ch] \o Append(Held(ch), sent[ch] + 1)
    BY <2>1, <2>3 DEF InChannel
  <2>5. buffer[ch] \in Seq(Nat) /\ Held(ch) \in Seq(Nat)
    BY FifoTypes
  <2>6. InChannel(ch)' = Append(InChannel(ch), sent[ch] + 1)
    <3> DEFINE b == buffer[ch]
               v == sent[ch] + 1
    <3>1. b \in Seq(Nat) /\ v \in Nat
      BY <2>2, <2>5
    <3> HIDE DEF b, v
    <3>2. b \o Append(Held(ch), v) = Append(b \o Held(ch), v)
      BY SMTT(60), <2>5, <3>1, AppendConcat
    <3> QED
      BY <2>4, <3>2 DEF InChannel, b, v
  <2> QED
    BY <1>2, <2>1, <2>6, FifoOffers
<1> QED
  BY <1>1, <1>2

LEMMA WaitsToReceiveIsFifo ==
  ASSUME NEW c, NEW ch, NEW o, WaitsToReceive(c, ch, o), NEW d \in Channel
  PROVE  FifoStep(d)
  BY FifoRests DEF WaitsToReceive

(* close() withdraws what the waiting senders hold.  They wait only when   *)
(* the buffer is full, so that the channel keeps just what it has room for.*)
LEMMA CloseIsFifo ==
  ASSUME TypeOK, TypeOK', ChannelDiscipline, NEW c \in Coroutine, NEW ch \in Channel,
         Close(c, ch), NEW d \in Channel
  PROVE  FifoStep(d)
<1>1. CASE d # ch
  BY <1>1, FifoRests DEF Close, TypeOK, ChannelType
<1>2. CASE d = ch
  <2> DEFINE B == buffer[ch]
             n == IF Len(waitingReceivers[ch]) < Len(B) THEN Len(waitingReceivers[ch]) ELSE Len(B)
  <2>1. /\ B \in Seq(Nat) /\ Len(B) \in Nat /\ Held(ch) \in Seq(Nat) /\ Capacity[ch] \in Nat
        /\ waitingReceivers[ch] \in Seq(Coroutine) /\ delivered[ch] \in Seq(Nat)
        /\ waitingSenders[ch] \in Seq(Offer)
    BY FifoTypes, ChannelFacts DEF TypeOK, ChannelType
  <2>2. n = 0
    <3>1. CASE waitingReceivers[ch] = <<>>
      BY <2>1, <3>1
    <3>2. CASE waitingReceivers[ch] # <<>>
      BY <3>2 DEF ChannelDiscipline, Disciplined
    <3> QED
      BY <3>1, <3>2
  <2>3. /\ buffer'[ch] = SubSeq(B, n + 1, Len(B)) /\ waitingSenders'[ch] = <<>> /\ closed'[ch]
        /\ sent'[ch] = sent[ch] /\ delivered'[ch] = delivered[ch] \o SubSeq(B, 1, n)
    BY DEF Close, TypeOK, ChannelType
  <2> HIDE DEF n
  <2>4. buffer'[ch] = B
    BY <2>1, <2>2, <2>3, SubSeqFull
  <2>5. delivered'[ch] = delivered[ch]
    <3>1. SubSeq(B, 1, 0) \in Seq(Nat) /\ Len(SubSeq(B, 1, 0)) = 0
      BY SubSeqProperties
    <3>2. SubSeq(B, 1, 0) = <<>>
      BY <3>1, EmptySeq
    <3> QED
      BY <2>1, <2>2, <2>3, <3>2, ConcatEmptySeq
  <2>6. InChannel(ch)' = B
    BY <2>3, <2>4, FifoTypesNext
  <2>7. Len(InChannel(ch)) = Len(B) + Len(waitingSenders[ch])
    <3>1. Len(Held(ch)) = Len(waitingSenders[ch])
      BY <2>1, OfferMaps, MappedSequence DEF Held
    <3>2. Len(InChannel(ch)) = Len(B) + Len(Held(ch))
      BY <2>1, ConcatProperties DEF InChannel
    <3> QED
      BY <3>1, <3>2
  <2>8. CASE waitingSenders[ch] = <<>>
    <3>1. InChannel(ch) = B /\ Len(B) <= Capacity[ch]
      BY <2>8, FifoTypes DEF ChannelDiscipline, Disciplined
    <3>2. InChannel(ch)' = IF Len(InChannel(ch)) > Capacity[ch]
                           THEN SubSeq(InChannel(ch), 1, Capacity[ch]) ELSE InChannel(ch)
      BY <2>1, <2>6, <3>1
    <3> QED
      BY <1>2, <2>3, <2>5, <3>2, FifoShuts
  <2>9. CASE waitingSenders[ch] # <<>>
    <3>1. Len(B) = Capacity[ch] /\ Len(waitingSenders[ch]) \in Nat \ {0}
      BY <2>1, <2>9, EmptySeq, LenProperties DEF ChannelDiscipline, Disciplined
    <3>2. Len(InChannel(ch)) > Capacity[ch]
      BY <2>1, <2>7, <3>1
    <3>3. SubSeq(InChannel(ch), 1, Capacity[ch]) = B
      BY <2>1, <3>1, FrontOfConcat DEF InChannel
    <3> QED
      BY <1>2, <2>3, <2>5, <2>6, <3>2, <3>3, FifoShuts
  <2> QED
    BY <2>8, <2>9
<1> QED
  BY <1>1, <1>2

-----------------------------------------------------------------------------
(* Every step.                                                             *)
LEMMA EndsRestChannels ==
  ASSUME NEW c, EndOk(c) \/ EndError(c) \/ Passes(c) \/ Throws(c), NEW d \in Channel
  PROVE  FifoStep(d)
<1>1. UNCHANGED channelVars
  BY DEF EndOk, EndError, Passes, Throws, Returns
<1> QED
  BY <1>1, FifoRestsAll

LEMMA ChannelStepIsFifo ==
  ASSUME TypeOK, TypeOK', ChannelDiscipline, NEW c \in Coroutine, NEW ch \in Channel,
         Send(c, ch) \/ (\E w \in LoadWidth : Receive(c, ch, w)) \/ Iterate(c, ch) \/ Close(c, ch),
         NEW d \in Channel
  PROVE  FifoStep(d)
<1>1. CASE Send(c, ch)
  <2>1. CASE ~closed[ch] /\ waitingReceivers[ch] # <<>> /\ Give(c, ch)
    BY <2>1, GiveIsFifo
  <2>2. CASE ~closed[ch] /\ HasRoom(ch) /\ Store(c, ch)
    <3>1. waitingSenders[ch] = <<>>
      BY <2>2, ChannelFacts DEF Disciplined, HasRoom
    <3> QED
      BY <2>2, <3>1, StoreIsFifo
  <2>3. CASE ~closed[ch] /\ WaitsToSend(c, ch)
    BY <2>3, WaitsToSendIsFifo
  <2> QED
    BY <1>1, <2>1, <2>2, <2>3, EndsRestChannels DEF Send
<1>2. CASE \E w \in LoadWidth : Receive(c, ch, w)
  BY <1>2, EndsRestChannels, TakeIsFifo, WaitsToReceiveIsFifo DEF Receive
<1>3. CASE Iterate(c, ch)
  BY <1>3, EndsRestChannels, TakeIsFifo, WaitsToReceiveIsFifo DEF Iterate, HasValue
<1>4. CASE Close(c, ch)
  BY <1>4, CloseIsFifo
<1> QED
  BY <1>1, <1>2, <1>3, <1>4

LEMMA RunCaseIsFifo ==
  ASSUME TypeOK, TypeOK', ChannelDiscipline, NEW c \in Coroutine, NEW cs \in Selects,
         NEW k \in ReadyCases(cs), RunCase(c, k), NEW d \in Channel
  PROVE  FifoStep(d)
<1>1. k[2] \in Channel /\ IsReady(k)
  BY ConstantsAssumption DEF ReadyCases, Case
<1>2. CASE Passes(c)
  BY <1>2, EndsRestChannels
<1>3. CASE HasValue(k[2]) /\ Take(c, k[2])
  BY <1>1, <1>3, TakeIsFifo
<1>4. CASE waitingReceivers[k[2]] # <<>> /\ Give(c, k[2])
  BY <1>1, <1>4, GiveIsFifo
<1>5. CASE waitingReceivers[k[2]] = <<>> /\ k[1] # "receive" /\ Store(c, k[2])
  <2>1. ~closed[k[2]] /\ HasRoom(k[2])
    BY <1>1, <1>5 DEF IsReady
  <2>2. waitingSenders[k[2]] = <<>>
    BY <1>1, <2>1, ChannelFacts DEF Disciplined, HasRoom
  <2> QED
    BY <1>1, <1>5, <2>1, <2>2, StoreIsFifo
<1> QED
  BY <1>2, <1>3, <1>4, <1>5 DEF RunCase

LEMMA ExecuteIsFifo ==
  ASSUME TypeOK, TypeOK', ChannelDiscipline, NEW c \in Coroutine, Execute(c), NEW d \in Channel
  PROVE  FifoStep(d)
<1>1. CASE Finish(c) \/ CancelledAtSafepoint(c)
  BY <1>1, EndsRestChannels DEF Finish, CancelledAtSafepoint
<1>2. ASSUME NEW ch \in Channel,
             Send(c, ch) \/ (\E w \in LoadWidth : Receive(c, ch, w)) \/ Iterate(c, ch) \/ Close(c, ch)
      PROVE  FifoStep(d)
  BY <1>2, ChannelStepIsFifo
<1>3. ASSUME NEW cs \in Selects, Select(c, cs) \/ Poll(c, cs)
      PROVE  FifoStep(d)
  BY <1>3, RunCaseIsFifo, EndsRestChannels, FifoRestsAll DEF Select, Poll, Parks
<1>4. ASSUME NEW h \in Coroutine, Join(c, h) \/ Cancel(c, h) \/ Go(c, h)
      PROVE  FifoStep(d)
  BY <1>4, EndsRestChannels, FifoRestsAll DEF Join, Cancel, Go, Creates, Parks
<1>5. ASSUME NEW f \in Future, Await(c, f)
      PROVE  FifoStep(d)
  BY <1>5, EndsRestChannels, FifoRestsAll DEF Await, Parks
<1>6. ASSUME NEW f \in Future,
             \/ Sleep(c, f)
             \/ Http(c, f)
             \/ InvalidCall(c, f)
             \/ \E e \in Coroutine : CallAsync(c, e, f) \/ Timeout(c, e, f)
      PROVE  FifoStep(d)
  BY <1>6, FifoRestsAll DEF Sleep, Http, InvalidCall, CallAsync, Timeout, Creates
<1> QED
  BY <1>1, <1>2, <1>3, <1>4, <1>5, <1>6 DEF Execute

LEMMA StepIsFifo ==
  ASSUME TypeOK, TypeOK', ChannelDiscipline, [Next]_vars, NEW d \in Channel
  PROVE  FifoStep(d)
<1>1. CASE \E c \in Coroutine : Execute(c)
  BY <1>1, ExecuteIsFifo
<1>2. CASE Loop \/ (\E f \in Future : PostCompletion(f)) \/ UNCHANGED vars
  <2>1. UNCHANGED channelVars
    BY <1>2 DEF Loop, ReturnOk, FireTimer, TimersDone, Drain, Drained, PopReady, TryWakeSelects,
           ReturnBlocked, SleepUntilDeadline, WaitForThreads, ReturnDeadlock, LoopStep,
           LoopReturns, PostCompletion, vars
  <2> QED
    BY <2>1, FifoRestsAll
<1> QED
  BY <1>1, <1>2 DEF Next, Returned

(* Every channel is a FIFO channel, whatever its capacity and the program: *)
(* a value offered to it is received at most once and in the order of the  *)
(* offers, and close() withdraws exactly the offers not yet in its buffer. *)
THEOREM ChannelsImplementFifo == Spec => ChannelsAreFifo
<1>1. Init => \A ch \in Channel : Fifo(ch)!Init
  BY FifoBegins
<1>2. TypeOK /\ TypeOK' /\ ChannelDiscipline /\ [Next]_vars =>
        \A ch \in Channel : Fifo(ch)!Next \/ UNCHANGED Fifo(ch)!vars
  BY StepIsFifo DEF FifoStep
<1> QED
  BY <1>1, <1>2, TypeCorrect, ChannelsAreDisciplined, PTL DEF Spec, ChannelsAreFifo

-----------------------------------------------------------------------------
(* What the refinement gives: no channel skips an offer.                   *)
Gapless(offers, pending, received, open) ==
  /\ \A i \in 1..Len(received) : received[i] = i
  /\ \A i \in 1..Len(pending) : pending[i] = Len(received) + i
  /\ Len(received) + Len(pending) <= offers
  /\ open => Len(received) + Len(pending) = offers

LEMMA NoGapAtFirst ==
  ASSUME NEW n, NEW p, NEW r, NEW o, n = 0, p = <<>>, r = <<>>
  PROVE  Gapless(n, p, r, o)
  BY DEF Gapless

LEMMA OfferLeavesNoGap ==
  ASSUME NEW n \in Nat, NEW p \in Seq(Nat), NEW r \in Seq(Nat), Gapless(n, p, r, TRUE)
  PROVE  Gapless(n + 1, Append(p, n + 1), r, TRUE)
  BY DEF Gapless

LEMMA ReceiveLeavesNoGap ==
  ASSUME NEW n \in Nat, NEW p \in Seq(Nat), NEW r \in Seq(Nat), NEW o \in BOOLEAN,
         p # <<>>, Gapless(n, p, r, o)
  PROVE  Gapless(n, Tail(p), Append(r, Head(p)), o)
<1> DEFINE t == Tail(p)
           s == Append(r, Head(p))
<1>1. /\ t \in Seq(Nat) /\ Len(t) = Len(p) - 1 /\ Len(p) \in Nat \ {0}
      /\ \A i \in 1..Len(t) : t[i] = p[i + 1]
      /\ Head(p) = p[1] /\ Head(p) \in Nat
  OBVIOUS
<1>2. /\ s \in Seq(Nat) /\ Len(s) = Len(r) + 1 /\ Len(r) \in Nat
      /\ \A i \in 1..Len(r) : s[i] = r[i]
      /\ s[Len(r) + 1] = Len(r) + 1
  BY <1>1 DEF Gapless
<1>3. \A i \in 1..Len(s) : s[i] = i
  BY <1>2 DEF Gapless
<1>4. \A i \in 1..Len(t) : t[i] = Len(s) + i
  BY <1>1, <1>2 DEF Gapless
<1> HIDE DEF t, s
<1>5. Len(s) + Len(t) = Len(r) + Len(p)
  BY <1>1, <1>2
<1>6. Len(s) + Len(t) <= n /\ (o => Len(s) + Len(t) = n)
  BY <1>5 DEF Gapless
<1>7. Gapless(n, t, s, o)
  BY <1>3, <1>4, <1>6 DEF Gapless
<1> QED
  BY <1>7 DEF t, s

LEMMA HandOverLeavesNoGap ==
  ASSUME NEW n \in Nat, NEW r \in Seq(Nat), Gapless(n, <<>>, r, TRUE)
  PROVE  Gapless(n + 1, <<>>, Append(r, n + 1), TRUE)
  BY DEF Gapless

LEMMA ShutLeavesNoGap ==
  ASSUME NEW n \in Nat, NEW p \in Seq(Nat), NEW r \in Seq(Nat), NEW o \in BOOLEAN,
         NEW room \in Nat, Gapless(n, p, r, o)
  PROVE  Gapless(n, IF Len(p) > room THEN SubSeq(p, 1, room) ELSE p, r, FALSE)
<1>1. CASE Len(p) > room
  <2>1. /\ Len(SubSeq(p, 1, room)) = room
        /\ \A i \in 1..room : SubSeq(p, 1, room)[i] = p[i]
    BY <1>1, SubSeqProperties
  <2> QED
    BY <1>1, <2>1 DEF Gapless
<1> QED
  BY <1>1 DEF Gapless

LEMMA ChannelKeepsNoGap ==
  ASSUME TypeOK, TypeOK', NEW ch \in Channel, Fifo(ch)!NoneMissing,
         Fifo(ch)!Next \/ UNCHANGED Fifo(ch)!vars
  PROVE  Fifo(ch)!NoneMissing'
<1> DEFINE p == InChannel(ch)
           r == delivered[ch]
           n == sent[ch]
           q == InChannel(ch)'
<1>1. /\ n \in Nat /\ p \in Seq(Nat) /\ r \in Seq(Nat)
      /\ closed[ch] \in BOOLEAN /\ closed'[ch] \in BOOLEAN /\ Capacity[ch] \in Nat
  BY FifoTypes, ConstantsAssumption DEF TypeOK, ChannelType
<1>2. Gapless(n, p, r, ~closed[ch])
  BY SendersMapped DEF Fifo!NoneMissing, Gapless, InChannel, Held, TypeOK, ChannelType
<1>3. ASSUME Gapless(sent'[ch], q, delivered'[ch], ~closed'[ch])
      PROVE  Fifo(ch)!NoneMissing'
  BY <1>3, SendersMappedNext DEF Fifo!NoneMissing, Gapless, InChannel, Held, TypeOK, ChannelType
<1>4. CASE Fifo(ch)!OfferValue
  <2>1. /\ ~closed[ch] /\ ~closed'[ch] /\ sent'[ch] = n + 1 /\ delivered'[ch] = r
        /\ q = Append(p, n + 1)
    BY <1>4, SendersMapped, SendersMappedNext DEF Fifo!OfferValue, InChannel, Held, TypeOK, ChannelType
  <2> QED
    BY <1>1, <1>2, <1>3, <2>1, OfferLeavesNoGap
<1>5. CASE Fifo(ch)!ReceiveValue
  <2>1. /\ p # <<>> /\ closed'[ch] = closed[ch] /\ sent'[ch] = n
        /\ delivered'[ch] = Append(r, Head(p)) /\ q = Tail(p)
    BY <1>1, <1>5, SendersMapped, SendersMappedNext DEF Fifo!ReceiveValue, InChannel, Held, TypeOK, ChannelType
  <2> QED
    BY <1>1, <1>2, <1>3, <2>1, ReceiveLeavesNoGap
<1>6. CASE Fifo(ch)!HandOver
  <2>1. /\ p = <<>> /\ q = <<>> /\ ~closed[ch] /\ ~closed'[ch] /\ sent'[ch] = n + 1
        /\ delivered'[ch] = Append(r, n + 1)
    BY <1>6, SendersMapped, SendersMappedNext DEF Fifo!HandOver, InChannel, Held, TypeOK, ChannelType
  <2> QED
    BY <1>1, <1>2, <1>3, <2>1, HandOverLeavesNoGap
<1>7. CASE Fifo(ch)!Shut
  <2>1. /\ closed'[ch] /\ sent'[ch] = n /\ delivered'[ch] = r
        /\ q = IF Len(p) > Capacity[ch] THEN SubSeq(p, 1, Capacity[ch]) ELSE p
    BY <1>1, <1>7, SendersMapped, SendersMappedNext DEF Fifo!Shut, InChannel, Held, TypeOK, ChannelType
  <2>2. Gapless(n, q, r, FALSE)
    BY <1>1, <1>2, <2>1, ShutLeavesNoGap
  <2>3. (~closed'[ch]) = FALSE
    BY <2>1
  <2> QED
    BY <1>3, <2>1, <2>2, <2>3
<1>8. CASE UNCHANGED Fifo(ch)!vars
  <2>1. /\ closed'[ch] = closed[ch] /\ sent'[ch] = n /\ delivered'[ch] = r /\ q = p
    BY <1>1, <1>8, SendersMapped, SendersMappedNext DEF Fifo!vars, InChannel, Held, TypeOK, ChannelType
  <2> QED
    BY <1>1, <1>2, <1>3, <2>1
<1> QED
  BY <1>4, <1>5, <1>6, <1>7, <1>8 DEF Fifo!Next

(* No channel skips an offer: its receivers have got the first offers, all *)
(* of them, the next ones are in its buffer and with its waiting senders,  *)
(* and only close() ever withdraws any, from the end.                      *)
THEOREM ChannelsSkipNothing == Spec => [](\A ch \in Channel : Fifo(ch)!NoneMissing)
<1> DEFINE Whole == \A ch \in Channel : Fifo(ch)!NoneMissing
<1>1. Init => Whole
  <2> SUFFICES ASSUME Init, NEW ch \in Channel
               PROVE  Fifo(ch)!NoneMissing
    OBVIOUS
  <2>1. Fifo(ch)!Init
    BY FifoBegins
  <2>2. Gapless(sent[ch], buffer[ch] \o [i \in DOMAIN waitingSenders[ch] |-> waitingSenders[ch][i].val],
                delivered[ch], ~closed[ch])
    BY <2>1, NoGapAtFirst DEF Fifo!Init
  <2> QED
    BY <2>2 DEF Gapless, Fifo!NoneMissing
<1>2. TypeOK /\ TypeOK' /\ ChannelDiscipline /\ [Next]_vars /\ Whole => Whole'
  <2> SUFFICES ASSUME TypeOK, TypeOK', ChannelDiscipline, [Next]_vars, Whole, NEW ch \in Channel
               PROVE  Fifo(ch)!NoneMissing'
    OBVIOUS
  <2>1. Fifo(ch)!Next \/ UNCHANGED Fifo(ch)!vars
    BY StepIsFifo DEF FifoStep
  <2> QED
    BY <2>1, ChannelKeepsNoGap
<1> QED
  BY <1>1, <1>2, TypeCorrect, ChannelsAreDisciplined, PTL DEF Spec
=============================================================================
