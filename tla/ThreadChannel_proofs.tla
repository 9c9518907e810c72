------------------------ MODULE ThreadChannel_proofs ------------------------
(***************************************************************************)
(* What ThreadChannel promises, for any threads, coroutines and capacity:  *)
(* partners meet, the buffer exceeds its capacity by one at the most, and  *)
(* every value is in exactly one place.                                    *)
(***************************************************************************)
EXTENDS ThreadChannel, SequenceTheorems, FiniteSetTheorems, TLAPS

(* A thread that sends carries a value.                                    *)
SendersCarry == \A t \in Thread : Sending(t) => arg[t] \in 1..sent

(* The thread that holds the VM mutex between its two uses of the buffer.  *)
HalfIsFast ==
  half.todo \in {"announce", "release"} => pc[half.by] = "fast"

(* sync_mutex excludes.                                                    *)
Inside == {"testSend", "testReceive", "sleepSend", "sleepReceive", "check", "push", "pop"}
MutexExcludes == \A t \in Thread : pc[t] \in Inside <=> mutex = t

(* Places of the buffer that somebody saw free and has not filled yet: one *)
(* under the VM mutex, one under sync_mutex.                               *)
VmHolds == half.todo \in {"push", "refill"}
Promised(t) == pc[t] = "push" \/ (pc[t] = "check" /\ ~closed)
Reserved ==
  (IF VmHolds THEN 1 ELSE 0) + (IF \E t \in Thread : Promised(t) THEN 1 ELSE 0)
RoomIsReserved ==
  IF Capacity = 0 THEN Len(buffer) = 0 /\ Reserved = 0
  ELSE Len(buffer) + Reserved <= Capacity + 1

Inv == /\ TypeOK /\ SendersCarry /\ HalfIsFast /\ MutexExcludes /\ RoomIsReserved
       /\ PartnersMeet /\ NothingLostOrDuplicated

-----------------------------------------------------------------------------
(* Type correctness.                                                       *)
HalfType ==
  {Nothing} \cup [todo : {"push"}, by : Coroutine, val : 1..sent]
    \cup [todo : {"refill"}, by : Coroutine]
    \cup [todo : {"announce", "release"}, by : Thread]
WaitingType == [co : Coroutine, val : 1..sent]

LEMMA InitType == Init => TypeOK
<1> SUFFICES ASSUME Init PROVE TypeOK
  OBVIOUS
<1>1. <<>> \in Seq(1..sent) /\ <<>> \in Seq(WaitingType) /\ <<>> \in Seq(Coroutine)
  BY EmptySeq
<1>2. pc \in [Thread -> Steps] /\ arg \in [Thread -> 0..sent] /\ calls \in [Thread \cup Coroutine -> 0..MaxCalls]
  BY ThreadsAssumption DEF Init, Steps
<1>3. co \in [Coroutine -> {"running", "sending", "receiving"} \cup Resumed]
  BY DEF Init
<1> QED
  BY <1>1, <1>2, <1>3 DEF Init, TypeOK, WaitingType

(* What the other threads see when one returns and notifies.               *)
LEMMA NotifiesPc ==
  ASSUME TypeOK, NEW t \in Thread, NEW r, NEW waiting, NEW next \in Steps,
         pc[t] # waiting, ReturnsAndNotifies(t, r, waiting, next)
  PROVE  /\ pc' \in [Thread -> Steps] /\ pc'[t] = "idle"
         /\ \A u \in Thread \ {t} : pc'[u] = pc[u] \/ (pc[u] = waiting /\ pc'[u] = next)
         /\ result' = [result EXCEPT ![t] = r]
<1>1. pc \in [Thread -> Steps] /\ "idle" \in Steps
  BY DEF TypeOK, Steps
<1>2. CASE {u \in Thread : pc[u] = waiting} = {}
  BY <1>1, <1>2 DEF ReturnsAndNotifies
<1>3. ASSUME NEW v \in Thread, pc[v] = waiting, pc' = [pc EXCEPT ![t] = "idle", ![v] = next]
      PROVE  /\ pc' \in [Thread -> Steps] /\ pc'[t] = "idle"
             /\ \A u \in Thread \ {t} : pc'[u] = pc[u] \/ (pc[u] = waiting /\ pc'[u] = next)
  BY <1>1, <1>3
<1> QED
  BY <1>2, <1>3 DEF ReturnsAndNotifies

(* A value is offered: what was typed stays so.                            *)
LEMMA OfferGrows ==
  ASSUME TypeOK, sent' = sent + 1
  PROVE  /\ sent' \in Nat /\ 1..sent \subseteq 1..sent' /\ sent' \in 1..sent'
         /\ buffer \in Seq(1..sent') /\ delivered \in Seq(1..sent') /\ refused \subseteq 1..sent'
         /\ waitingSenders \in Seq(WaitingType')
         /\ arg \in [Thread -> 0..sent']
         /\ half \in HalfType'
<1>1. /\ sent' \in Nat /\ 1..sent \subseteq 1..sent' /\ sent' \in 1..sent'
      /\ 0..sent \subseteq 0..sent'
  BY DEF TypeOK
<1>2. WaitingType \subseteq WaitingType'
  BY <1>1 DEF WaitingType
<1>3. waitingSenders \in Seq(WaitingType')
  <2>1. waitingSenders \in Seq(WaitingType)
    BY DEF TypeOK, WaitingType
  <2> QED
    BY <1>2, <2>1, SeqMonotonic
<1>4. buffer \in Seq(1..sent') /\ delivered \in Seq(1..sent')
  BY <1>1, SeqMonotonic DEF TypeOK
<1>5. arg \in [Thread -> 0..sent']
  BY <1>1 DEF TypeOK
<1>6. half \in HalfType'
  <2>1. [todo : {"push"}, by : Coroutine, val : 1..sent]
           \subseteq [todo : {"push"}, by : Coroutine, val : 1..sent']
    BY <1>1
  <2> QED
    BY <2>1 DEF TypeOK, HalfType
<1> QED
  BY <1>1, <1>3, <1>4, <1>5, <1>6 DEF TypeOK

LEMMA HeadTypes ==
  ASSUME TypeOK
  PROVE  /\ buffer # <<>> => Head(buffer) \in 1..sent /\ Tail(buffer) \in Seq(1..sent)
         /\ waitingSenders # <<>> =>
              /\ Head(waitingSenders).co \in Coroutine /\ Head(waitingSenders).val \in 1..sent
              /\ Tail(waitingSenders) \in Seq([co : Coroutine, val : 1..sent])
         /\ waitingReceivers # <<>> =>
              Head(waitingReceivers) \in Coroutine /\ Tail(waitingReceivers) \in Seq(Coroutine)
<1>1. waitingSenders # <<>> => Head(waitingSenders) \in [co : Coroutine, val : 1..sent]
  BY HeadTailProperties DEF TypeOK
<1> QED
  BY <1>1, HeadTailProperties DEF TypeOK

LEMMA WaitingAre ==
  ASSUME TypeOK
  PROVE  \A i \in DOMAIN waitingSenders :
           waitingSenders[i].co \in Coroutine /\ waitingSenders[i].val \in 1..sent
<1>1. waitingSenders \in Seq(WaitingType)
  BY DEF TypeOK, WaitingType
<1>2. \A i \in DOMAIN waitingSenders : waitingSenders[i] \in WaitingType
  BY <1>1, LenProperties
<1> QED
  BY <1>2 DEF WaitingType

LEMMA StartsType ==
  ASSUME TypeOK, NEW x \in Thread \cup Coroutine, Starts(x)
  PROVE  calls' \in [Thread \cup Coroutine -> 0..MaxCalls] /\ UNCHANGED aborted /\ half = Nothing
  BY ThreadsAssumption DEF TypeOK, Starts, MayStart

LEMMA MovesInType ==
  ASSUME TypeOK, MovesIn
  PROVE  /\ buffer' \in Seq(1..sent) /\ waitingSenders' \in Seq([co : Coroutine, val : 1..sent])
         /\ co' \in [Coroutine -> {"running", "sending", "receiving"} \cup Resumed]
<1>1. CASE waitingSenders = <<>>
  BY <1>1 DEF MovesIn, TypeOK
<1>2. CASE waitingSenders # <<>>
  <2>1. /\ buffer' = Append(buffer, Head(waitingSenders).val)
        /\ co' = [co EXCEPT ![Head(waitingSenders).co] = "running"]
        /\ waitingSenders' = Tail(waitingSenders)
    BY <1>2 DEF MovesIn
  <2>2. buffer' \in Seq(1..sent)
    BY <1>2, <2>1, HeadTypes, AppendProperties DEF TypeOK
  <2> QED
    BY <1>2, <2>1, <2>2, HeadTypes DEF TypeOK
<1> QED
  BY <1>1, <1>2

LEMMA AppendType ==
  ASSUME NEW S, NEW s \in Seq(S), NEW e \in S
  PROVE  Append(s, e) \in Seq(S)
  BY AppendProperties

LEMMA CoSendType ==
  ASSUME TypeOK, NEW c \in Coroutine, CoSend(c)
  PROVE  TypeOK'
<1>1. /\ sent' = sent + 1
      /\ UNCHANGED threadVars
      /\ calls' \in [Thread \cup Coroutine -> 0..MaxCalls] /\ UNCHANGED aborted
  BY StartsType DEF CoSend, Executes
<1>2. /\ sent' \in Nat /\ sent' \in 1..sent' /\ 1..sent \subseteq 1..sent'
      /\ buffer \in Seq(1..sent') /\ delivered \in Seq(1..sent') /\ refused \subseteq 1..sent'
      /\ waitingSenders \in Seq(WaitingType')
      /\ arg \in [Thread -> 0..sent'] /\ half \in HalfType'
  BY <1>1, OfferGrows
<1>3. buffer' \in Seq(1..sent') /\ closed' \in BOOLEAN
  BY <1>2 DEF CoSend, channelVars, TypeOK
<1>4. waitingSenders' \in Seq(WaitingType')
  <2>1. [co |-> c, val |-> sent'] \in WaitingType'
    BY <1>2 DEF WaitingType
  <2>2. waitingSenders' \in {waitingSenders, Append(waitingSenders, [co |-> c, val |-> sent'])}
    BY <1>1 DEF CoSend, channelVars
  <2>3. Append(waitingSenders, [co |-> c, val |-> sent']) \in Seq(WaitingType')
    BY <1>2, <2>1, AppendType
  <2> QED
    BY <1>2, <2>2, <2>3
<1>5. waitingReceivers' \in Seq(Coroutine)
  BY HeadTypes DEF CoSend, channelVars, TypeOK
<1>6. co' \in [Coroutine -> {"running", "sending", "receiving"} \cup Resumed]
  BY HeadTypes DEF CoSend, TypeOK
<1>7. half' \in HalfType'
  <2>1. PushFor(c, sent') \in HalfType'
    BY <1>2 DEF PushFor, HalfType
  <2>2. half' \in {half, PushFor(c, sent')}
    BY <1>1 DEF CoSend
  <2> QED
    BY <1>2, <2>1, <2>2
<1>8. delivered' \in Seq(1..sent')
  <2>1. delivered' \in {delivered, Append(delivered, sent')}
    BY <1>1 DEF CoSend, Deliver
  <2>2. Append(delivered, sent') \in Seq(1..sent')
    BY <1>2, AppendType
  <2> QED
    BY <1>2, <2>1, <2>2
<1>9. refused' \subseteq 1..sent'
  BY <1>1, <1>2 DEF CoSend
<1> QED
  BY <1>1, <1>2, <1>3, <1>4, <1>5, <1>6, <1>7, <1>8, <1>9
     DEF TypeOK, threadVars, WaitingType, HalfType

LEMMA CoReceiveType ==
  ASSUME TypeOK, NEW c \in Coroutine, CoReceive(c)
  PROVE  TypeOK'
<1>1. /\ UNCHANGED <<threadVars, sent, refused, closed>>
      /\ calls' \in [Thread \cup Coroutine -> 0..MaxCalls] /\ UNCHANGED aborted
  BY StartsType DEF CoReceive, Executes, channelVars
<1>2. buffer' \in Seq(1..sent)
  BY HeadTypes DEF CoReceive, channelVars, TypeOK
<1>3. waitingSenders' \in Seq([co : Coroutine, val : 1..sent])
  BY HeadTypes DEF CoReceive, CanRendezvous, channelVars, TypeOK
<1>4. waitingReceivers' \in Seq(Coroutine)
  <2>1. Append(waitingReceivers, c) \in Seq(Coroutine)
    BY AppendType DEF TypeOK
  <2> QED
    BY <2>1 DEF CoReceive, channelVars, TypeOK
<1>5. co' \in [Coroutine -> {"running", "sending", "receiving"} \cup Resumed]
  BY HeadTypes DEF CoReceive, CanRendezvous, TypeOK
<1>6. half' \in HalfType
  <2>1. half \in HalfType /\ RefillFor(c) \in HalfType
    BY DEF TypeOK, HalfType, RefillFor
  <2> QED
    BY <2>1 DEF CoReceive
<1>7. delivered' \in Seq(1..sent)
  <2>1. \A v \in 1..sent : Append(delivered, v) \in Seq(1..sent)
    BY AppendType DEF TypeOK
  <2>2. \/ delivered' = delivered
        \/ buffer # <<>> /\ delivered' = Append(delivered, Head(buffer))
        \/ waitingSenders # <<>> /\ delivered' = Append(delivered, Head(waitingSenders).val)
    BY DEF CoReceive, Deliver, CanRendezvous
  <2> QED
    BY ZenonT(60), <2>1, <2>2, HeadTypes DEF TypeOK
<1> QED
  BY <1>1, <1>2, <1>3, <1>4, <1>5, <1>6, <1>7 DEF TypeOK, threadVars, HalfType

(* Steps that only move a thread.                                          *)
LEMMA MoveType ==
  ASSUME TypeOK, UNCHANGED <<channelVars, arg, co, valueVars, half, calls, aborted>>,
         mutex' \in Thread \cup {Nobody}, pc' \in [Thread -> Steps],
         result' \in [Thread -> {"none", "ok", "error", "value", "nil"}]
  PROVE  TypeOK'
  BY DEF TypeOK, channelVars, valueVars

LEMMA CoRestType ==
  ASSUME TypeOK, CoPush \/ CoRefill
  PROVE  TypeOK'
<1>1. CASE CoPush
  <2>1. half.val \in 1..sent
    BY <1>1 DEF CoPush, TypeOK, Nothing
  <2>2. buffer' \in Seq(1..sent)
    BY <1>1, <2>1, AppendType DEF CoPush, TypeOK
  <2> QED
    BY <1>1, <2>2 DEF CoPush, Continues, TypeOK, threadVars, valueVars
<1>2. CASE CoRefill
  <2>1. /\ buffer' \in Seq(1..sent) /\ waitingSenders' \in Seq([co : Coroutine, val : 1..sent])
        /\ co' \in [Coroutine -> {"running", "sending", "receiving"} \cup Resumed]
    BY <1>2, MovesInType DEF CoRefill
  <2> QED
    BY <1>2, <2>1 DEF CoRefill, Continues, TypeOK, threadVars, valueVars
<1> QED
  BY <1>1, <1>2

LEMMA SendFastType ==
  ASSUME TypeOK, NEW t \in Thread, SendFast(t)
  PROVE  TypeOK'
<1>1. /\ sent' = sent + 1
      /\ UNCHANGED <<closed, waitingSenders, waitingReceivers, mutex, co, delivered, aborted>>
      /\ calls' \in [Thread \cup Coroutine -> 0..MaxCalls]
  BY StartsType DEF SendFast, Calls
<1>2. /\ sent' \in Nat /\ sent' \in 1..sent' /\ 1..sent \subseteq 1..sent'
      /\ buffer \in Seq(1..sent') /\ delivered \in Seq(1..sent') /\ refused \subseteq 1..sent'
      /\ waitingSenders \in Seq(WaitingType')
      /\ arg \in [Thread -> 0..sent'] /\ half \in HalfType'
  BY <1>1, OfferGrows
<1>3. buffer' \in Seq(1..sent')
  <2>1. Append(buffer, sent') \in Seq(1..sent')
    BY <1>2, AppendType
  <2> QED
    BY <1>1, <1>2, <2>1 DEF SendFast
<1>4. half' \in HalfType'
  <2>1. Announce(t) \in HalfType'
    BY DEF Announce, HalfType
  <2> QED
    BY <1>2, <2>1 DEF SendFast
<1>5. arg' \in [Thread -> 0..sent']
  <2>1. [arg EXCEPT ![t] = sent'] \in [Thread -> 0..sent']
    BY <1>2
  <2> QED
    BY <1>1, <1>2, <2>1 DEF SendFast
<1>6. refused' \subseteq 1..sent'
  BY <1>1, <1>2 DEF SendFast
<1>7. pc' \in [Thread -> Steps] /\ result' \in [Thread -> {"none", "ok", "error", "value", "nil"}]
  BY DEF SendFast, Returns, GoesTo, TypeOK, Steps
<1> QED
  BY <1>1, <1>2, <1>3, <1>4, <1>5, <1>6, <1>7 DEF TypeOK, WaitingType, HalfType

LEMMA SendAnnouncesType ==
  ASSUME TypeOK, HalfIsFast, SendAnnounces
  PROVE  TypeOK'
<1>1. half.by \in Thread /\ pc[half.by] = "fast"
  BY DEF SendAnnounces, TypeOK, Nothing, HalfIsFast
<1>2. ReturnsAndNotifies(half.by, "ok", "waitReceive", "toReceive")
  BY DEF SendAnnounces
<1>3. pc' \in [Thread -> Steps] /\ result' = [result EXCEPT ![half.by] = "ok"]
  BY <1>1, <1>2, NotifiesPc DEF Steps
<1>4. waitingReceivers' \in Seq(Coroutine)
  BY HeadTypes DEF SendAnnounces, TypeOK
<1>5. co' \in [Coroutine -> {"running", "sending", "receiving"} \cup Resumed]
  BY HeadTypes DEF SendAnnounces, TypeOK, Resumed
<1>6. result' \in [Thread -> {"none", "ok", "error", "value", "nil"}]
  BY <1>3 DEF TypeOK
<1>7. /\ UNCHANGED <<buffer, closed, waitingSenders, mutex, arg, valueVars, calls, aborted>>
      /\ half' = Nothing
  BY DEF SendAnnounces, Continues
<1> QED
  BY <1>3, <1>4, <1>5, <1>6, <1>7 DEF TypeOK, valueVars

LEMMA ReceiveFastType ==
  ASSUME TypeOK, NEW t \in Thread, ReceiveFast(t)
  PROVE  TypeOK'
<1>1. /\ calls' \in [Thread \cup Coroutine -> 0..MaxCalls]
      /\ UNCHANGED <<closed, waitingSenders, waitingReceivers, half, mutex, arg, co, sent, refused,
                     aborted>>
  BY StartsType DEF ReceiveFast, Calls
<1>2. buffer' \in Seq(1..sent)
  BY HeadTypes DEF ReceiveFast, TypeOK
<1>3. delivered' \in Seq(1..sent)
  <2>1. \A v \in 1..sent : Append(delivered, v) \in Seq(1..sent)
    BY AppendType DEF TypeOK
  <2> QED
    BY ZenonT(60), <2>1, HeadTypes DEF ReceiveFast, Deliver, TypeOK
<1>4. pc' \in [Thread -> Steps] /\ result' \in [Thread -> {"none", "ok", "error", "value", "nil"}]
  <2>1. CASE buffer # <<>>
    <3>1. ReturnsAndNotifies(t, "value", "waitSend", "toSend") /\ pc[t] = "idle"
      BY <2>1 DEF ReceiveFast, Calls
    <3>2. pc' \in [Thread -> Steps] /\ result' = [result EXCEPT ![t] = "value"]
      BY <3>1, NotifiesPc DEF Steps
    <3> QED
      BY <3>2 DEF TypeOK
  <2>2. CASE buffer = <<>>
    BY <2>2 DEF ReceiveFast, Returns, GoesTo, TypeOK, Steps
  <2> QED
    BY <2>1, <2>2
<1> QED
  BY <1>1, <1>2, <1>3, <1>4 DEF TypeOK

LEMMA ReceiveAbortsType ==
  ASSUME TypeOK, NEW t \in Thread, ReceiveAborts(t)
  PROVE  TypeOK'
<1>1. /\ buffer' \in Seq(1..sent) /\ waitingSenders' \in Seq([co : Coroutine, val : 1..sent])
      /\ aborted' \in BOOLEAN
  BY HeadTypes DEF ReceiveAborts
<1>2. UNCHANGED <<closed, waitingReceivers, half, threadVars, co, calls, valueVars>>
  BY DEF ReceiveAborts
<1> QED
  BY <1>1, <1>2 DEF TypeOK, threadVars, valueVars

LEMMA CloseType ==
  ASSUME TypeOK, HalfIsFast, (\E t \in Thread : Close(t)) \/ CloseReleases
  PROVE  TypeOK'
<1>1. ASSUME NEW t \in Thread, Close(t)
      PROVE  TypeOK'
  <2>1. /\ calls' \in [Thread \cup Coroutine -> 0..MaxCalls]
        /\ UNCHANGED <<buffer, waitingSenders, waitingReceivers, mutex, arg, co, valueVars, aborted>>
    BY <1>1, StartsType DEF Close, Calls
  <2>2. pc' \in [Thread -> Steps] /\ result' \in [Thread -> {"none", "ok", "error", "value", "nil"}]
    BY <1>1 DEF Close, Returns, GoesTo, TypeOK, Steps
  <2>3. half' \in HalfType
    <3>1. half \in HalfType /\ Release(t) \in HalfType
      BY DEF TypeOK, HalfType, Release
    <3> QED
      BY <1>1, <3>1 DEF Close
  <2>4. closed' \in BOOLEAN
    BY <1>1 DEF Close, TypeOK
  <2> QED
    BY <2>1, <2>2, <2>3, <2>4 DEF TypeOK, valueVars, HalfType
<1>2. CASE CloseReleases
  <2>1. half.by \in Thread
    BY <1>2 DEF CloseReleases, TypeOK, Nothing
  <2>2. pc' \in [Thread -> Steps]
    BY <1>2 DEF CloseReleases, TypeOK, Steps
  <2>3. result' \in [Thread -> {"none", "ok", "error", "value", "nil"}]
    BY <1>2, <2>1 DEF CloseReleases, TypeOK
  <2>4. co' \in [Coroutine -> {"running", "sending", "receiving"} \cup Resumed]
    BY <1>2 DEF CloseReleases, TypeOK, Resumed
  <2>5. refused' \subseteq 1..sent
    <3>1. \A i \in DOMAIN waitingSenders : waitingSenders[i].val \in 1..sent
      BY WaitingAre
    <3>2. /\ refused \subseteq 1..sent
          /\ refused' = refused \cup {waitingSenders[i].val : i \in DOMAIN waitingSenders}
          /\ sent' = sent
      BY <1>2 DEF CloseReleases, TypeOK
    <3> QED
      BY <3>1, <3>2
  <2>6. waitingSenders' \in Seq([co : Coroutine, val : 1..sent]) /\ waitingReceivers' \in Seq(Coroutine)
    BY <1>2, EmptySeq DEF CloseReleases
  <2>7. UNCHANGED <<buffer, closed, mutex, arg, sent, delivered, calls, aborted>> /\ half' = Nothing
    BY <1>2 DEF CloseReleases, Continues
  <2> QED
    BY <2>2, <2>3, <2>4, <2>5, <2>6, <2>7 DEF TypeOK
<1> QED
  BY <1>1, <1>2

LEMMA BlockingType ==
  ASSUME TypeOK, SendersCarry, NEW t \in Thread,
         \/ Lock(t) \/ Test(t) \/ Sleep(t) \/ WakeByItself(t)
         \/ CheckClosed(t) \/ Push(t) \/ Pop(t)
  PROVE  TypeOK'
<1>1. CASE Lock(t) \/ Test(t) \/ Sleep(t) \/ WakeByItself(t)
  <2>1. /\ UNCHANGED <<channelVars, arg, co, valueVars, half, calls, aborted, result>>
        /\ mutex' \in {mutex, t, Nobody}
    BY <1>1 DEF Lock, Test, Sleep, WakeByItself, GoesTo, Continues
  <2>2. pc' \in [Thread -> Steps]
    BY ZenonT(60), <1>1 DEF Lock, Test, Sleep, WakeByItself, GoesTo, TypeOK, Steps
  <2> QED
    BY <2>1, <2>2, MoveType DEF TypeOK
<1>2. CASE CheckClosed(t)
  <2>1. /\ UNCHANGED <<channelVars, half, arg, co, sent, delivered, calls, aborted>>
        /\ mutex' \in {mutex, Nobody}
    BY <1>2 DEF CheckClosed, Continues
  <2>2. /\ pc' \in [Thread -> Steps]
        /\ result' \in [Thread -> {"none", "ok", "error", "value", "nil"}]
    BY <1>2 DEF CheckClosed, Returns, GoesTo, TypeOK, Steps
  <2>3. refused' \subseteq 1..sent
    <3>1. arg[t] \in 1..sent
      BY <1>2 DEF CheckClosed, SendersCarry, Sending
    <3> QED
      BY <1>2, <3>1 DEF CheckClosed, TypeOK
  <2> QED
    BY <2>1, <2>2, <2>3 DEF TypeOK, channelVars
<1>3. CASE Push(t)
  <2>1. arg[t] \in 1..sent
    BY <1>3 DEF Push, SendersCarry, Sending
  <2>2. buffer' \in Seq(1..sent)
    BY <1>3, <2>1, AppendType DEF Push, TypeOK
  <2>3. pc' \in [Thread -> Steps] /\ result' = [result EXCEPT ![t] = "ok"]
    BY <1>3, NotifiesPc DEF Push, Steps
  <2>4. /\ UNCHANGED <<closed, waitingSenders, waitingReceivers, half, arg, co, valueVars,
                       calls, aborted>>
        /\ mutex' = Nobody
    BY <1>3 DEF Push, Continues
  <2>5. result' \in [Thread -> {"none", "ok", "error", "value", "nil"}]
    BY <2>3 DEF TypeOK
  <2> QED
    BY <2>2, <2>3, <2>4, <2>5 DEF TypeOK, valueVars
<1>4. CASE Pop(t)
  <2>1. /\ UNCHANGED <<closed, waitingSenders, waitingReceivers, half, arg, co, sent, refused,
                       calls, aborted>>
        /\ mutex' = Nobody
    BY <1>4 DEF Pop, Continues
  <2>2. CASE buffer = <<>>
    <3>1. /\ pc' \in [Thread -> Steps]
          /\ result' \in [Thread -> {"none", "ok", "error", "value", "nil"}]
      BY <1>4, <2>2 DEF Pop, Returns, TypeOK, Steps
    <3>2. UNCHANGED <<buffer, delivered>>
      BY <1>4, <2>2 DEF Pop
    <3> QED
      BY <2>1, <3>1, <3>2 DEF TypeOK
  <2>3. CASE buffer # <<>>
    <3>1. pc' \in [Thread -> Steps] /\ result' = [result EXCEPT ![t] = "value"]
      BY <1>4, <2>3, NotifiesPc DEF Pop, Steps
    <3>2. result' \in [Thread -> {"none", "ok", "error", "value", "nil"}]
      BY <3>1 DEF TypeOK
    <3>3. buffer' \in Seq(1..sent)
      BY <1>4, <2>3, HeadTypes DEF Pop
    <3>4. delivered' \in Seq(1..sent)
      <4>1. Append(delivered, Head(buffer)) \in Seq(1..sent)
        BY <2>3, HeadTypes, AppendType DEF TypeOK
      <4> QED
        BY <1>4, <2>3, <4>1 DEF Pop, Deliver
    <3> QED
      BY <2>1, <3>1, <3>2, <3>3, <3>4 DEF TypeOK
  <2> QED
    BY <2>2, <2>3
<1> QED
  BY <1>1, <1>2, <1>3, <1>4

LEMMA TypeStep ==
  ASSUME TypeOK, SendersCarry, HalfIsFast, [Next]_vars
  PROVE  TypeOK'
<1>1. CASE Collide
  BY <1>1 DEF Collide, TypeOK, channelVars, threadVars, valueVars
<1>2. CASE UNCHANGED vars
  BY <1>2 DEF TypeOK, vars, channelVars, threadVars, valueVars
<1> QED
  BY <1>1, <1>2, CoSendType, CoReceiveType, CoRestType, SendFastType, SendAnnouncesType,
     ReceiveFastType, ReceiveAbortsType, CloseType, BlockingType
     DEF Next, CoroutineStep, ThreadStep, Over

-----------------------------------------------------------------------------
(* What the threads' program counters say.                                 *)
ControlInv == SendersCarry /\ HalfIsFast /\ MutexExcludes

(* A step that moves t alone, or t and a thread that it notifies.          *)
Wakes == {<<"waitSend", "toSend">>, <<"waitReceive", "toReceive">>}
MovesOnly(t) ==
  \A u \in Thread \ {t} : pc'[u] = pc[u] \/ <<pc[u], pc'[u]>> \in Wakes

LEMMA OthersKeepControl ==
  ASSUME TypeOK, ControlInv, NEW t \in Thread, MovesOnly(t),
         1..sent \subseteq 1..sent', NEW u \in Thread \ {t}, arg'[u] = arg[u]
  PROVE  /\ Sending(u)' => arg'[u] \in 1..sent'
         /\ pc[u] = "fast" => pc'[u] = "fast"
         /\ pc'[u] \in Inside <=> pc[u] \in Inside
         /\ Sending(u)' <=> Sending(u)
         /\ Promised(u)' /\ (closed => closed') => Promised(u)
  BY DEF MovesOnly, Wakes, ControlInv, SendersCarry, Sending, Inside, Promised

LEMMA ControlFrom ==
  ASSUME TypeOK, ControlInv, NEW t \in Thread, MovesOnly(t), 1..sent \subseteq 1..sent',
         \A u \in Thread \ {t} : arg'[u] = arg[u],
         Sending(t)' => arg'[t] \in 1..sent',
         pc'[t] \in Inside <=> mutex' = t,
         \/ mutex' = mutex
         \/ mutex \in {t, Nobody} /\ mutex' \in {t, Nobody},
         \/ half' = half /\ pc[t] # "fast"
         \/ half' = Nothing
         \/ half'.by = t /\ pc'[t] = "fast"
  PROVE  ControlInv'
<1>1. SendersCarry'
  BY OthersKeepControl DEF SendersCarry
<1>2. HalfIsFast'
  <2>1. CASE half' = half /\ pc[t] # "fast"
    <3>1. half.todo \in {"announce", "release"} => half.by \in Thread
      BY DEF TypeOK, Nothing
    <3> QED
      BY <2>1, <3>1, OthersKeepControl DEF HalfIsFast, ControlInv
  <2>2. CASE half' = Nothing
    BY <2>2 DEF HalfIsFast, Nothing
  <2>3. CASE half'.by = t /\ pc'[t] = "fast"
    BY <2>3 DEF HalfIsFast
  <2> QED
    BY <2>1, <2>2, <2>3
<1>3. MutexExcludes'
  <2> SUFFICES ASSUME NEW u \in Thread \ {t}
               PROVE  pc'[u] \in Inside <=> mutex' = u
    BY DEF MutexExcludes
  <2>1. pc'[u] \in Inside <=> mutex = u
    BY OthersKeepControl DEF ControlInv, MutexExcludes
  <2> QED
    BY <2>1, ThreadsAssumption
<1> QED
  BY <1>1, <1>2, <1>3 DEF ControlInv

LEMMA ControlQuiet ==
  ASSUME TypeOK, ControlInv, 1..sent \subseteq 1..sent', UNCHANGED <<pc, arg, mutex>>,
         \/ half' = half \/ half' = Nothing
         \/ half'.todo = "push"
         \/ half'.todo = "refill"
  PROVE  ControlInv'
<1>1. SendersCarry'
  BY DEF SendersCarry, ControlInv, Sending
<1>2. HalfIsFast'
  BY ThreadsAssumption DEF HalfIsFast, ControlInv, Nothing
<1>3. MutexExcludes'
  BY DEF MutexExcludes, ControlInv
<1> QED
  BY <1>1, <1>2, <1>3 DEF ControlInv

LEMMA NotifiesMoves ==
  ASSUME TypeOK, NEW t \in Thread, NEW r, NEW w \in Wakes, pc[t] # w[1],
         ReturnsAndNotifies(t, r, w[1], w[2])
  PROVE  MovesOnly(t) /\ pc'[t] = "idle"
<1>1. w[2] \in Steps
  BY DEF Wakes, Steps
<1>2. /\ pc'[t] = "idle"
      /\ \A u \in Thread \ {t} : pc'[u] = pc[u] \/ (pc[u] = w[1] /\ pc'[u] = w[2])
  BY <1>1, NotifiesPc
<1>3. w = <<w[1], w[2]>>
  BY DEF Wakes
<1> QED
  BY <1>2, <1>3 DEF MovesOnly

LEMMA ReceiveFastMoves ==
  ASSUME TypeOK, NEW t \in Thread, ReceiveFast(t)
  PROVE  MovesOnly(t) /\ pc'[t] \in {"idle", "toReceive"} /\ UNCHANGED half
<1>1. pc[t] = "idle" /\ UNCHANGED half
  BY DEF ReceiveFast, Calls
<1>2. CASE buffer # <<>>
  <2>1. ReturnsAndNotifies(t, "value", "waitSend", "toSend")
    BY <1>2 DEF ReceiveFast
  <2>2. <<"waitSend", "toSend">> \in Wakes
    BY DEF Wakes
  <2> QED
    BY <1>1, <2>1, <2>2, NotifiesMoves
<1>3. CASE buffer = <<>>
  BY <1>1, <1>3 DEF ReceiveFast, Returns, GoesTo, MovesOnly, TypeOK
<1> QED
  BY <1>2, <1>3

(* Offering a value or receiving one, as a thread.                         *)
LEMMA ControlStarts ==
  ASSUME TypeOK, ControlInv, NEW t \in Thread, SendFast(t) \/ ReceiveFast(t) \/ Close(t)
  PROVE  ControlInv'
<1>1. /\ pc[t] = "idle" /\ half = Nothing /\ UNCHANGED mutex /\ mutex # t
  BY DEF SendFast, ReceiveFast, Close, Calls, Starts, MayStart, ControlInv, MutexExcludes, Inside
<1>2. /\ sent' \in {sent, sent + 1} /\ 1..sent \subseteq 1..sent'
      /\ \A u \in Thread \ {t} : arg'[u] = arg[u]
  BY DEF SendFast, ReceiveFast, Close, valueVars, TypeOK
<1>3. MovesOnly(t) /\ pc'[t] \in {"idle", "fast", "toSend", "toReceive"}
  <2>1. CASE SendFast(t) \/ Close(t)
    BY <2>1 DEF SendFast, Close, Returns, GoesTo, MovesOnly, TypeOK
  <2>2. CASE ReceiveFast(t)
    BY <1>1, <2>2, ReceiveFastMoves
  <2> QED
    BY <2>1, <2>2
<1>4. Sending(t)' => arg'[t] \in 1..sent'
  <2>1. CASE SendFast(t)
    <3>1. pc'[t] = "toSend" => arg'[t] = sent + 1 /\ sent' = sent + 1
      BY <2>1 DEF SendFast, Returns, GoesTo, TypeOK
    <3> QED
      BY SMTT(60), <1>3, <3>1 DEF Sending, TypeOK
  <2>2. CASE ReceiveFast(t) \/ Close(t)
    <3>1. pc'[t] # "toSend"
      BY <2>2, ReceiveFastMoves DEF Close, Returns, GoesTo, TypeOK
    <3> QED
      BY <1>3, <3>1 DEF Sending
  <2> QED
    BY <2>1, <2>2
<1>5. \/ half' = Nothing
      \/ half'.by = t /\ pc'[t] = "fast"
  BY <1>1 DEF SendFast, ReceiveFast, Close, Returns, GoesTo, TypeOK, Announce, Release
<1>6. pc'[t] \in Inside <=> mutex' = t
  BY <1>1, <1>3 DEF Inside
<1> QED
  BY <1>1, <1>2, <1>3, <1>4, <1>5, <1>6, ControlFrom

LEMMA HalvesMove ==
  ASSUME TypeOK, ControlInv, SendAnnounces \/ CloseReleases
  PROVE  /\ half.by \in Thread /\ pc[half.by] = "fast" /\ half' = Nothing
         /\ UNCHANGED <<mutex, arg, sent, closed>> /\ mutex # half.by
         /\ MovesOnly(half.by) /\ pc'[half.by] = "idle"
<1> DEFINE t == half.by
<1>1. /\ half' = Nothing /\ UNCHANGED <<mutex, arg, sent, closed>>
      /\ half.todo \in {"announce", "release"}
  BY DEF SendAnnounces, CloseReleases, valueVars
<1>2. t \in Thread
  BY <1>1 DEF TypeOK, Nothing
<1>3. pc[t] = "fast"
  BY <1>1 DEF ControlInv, HalfIsFast
<1>4. mutex # t
  BY <1>2, <1>3 DEF ControlInv, MutexExcludes, Inside
<1>5. CASE SendAnnounces
  <2>1. ReturnsAndNotifies(t, "ok", "waitReceive", "toReceive")
    BY <1>5 DEF SendAnnounces
  <2>2. <<"waitReceive", "toReceive">> \in Wakes
    BY DEF Wakes
  <2> QED
    BY <1>1, <1>2, <1>3, <1>4, <2>1, <2>2, NotifiesMoves
<1>6. CASE CloseReleases
  BY <1>1, <1>2, <1>3, <1>4, <1>6 DEF CloseReleases, MovesOnly, Wakes, TypeOK
<1> QED
  BY <1>5, <1>6

LEMMA ControlHalves ==
  ASSUME TypeOK, ControlInv, SendAnnounces \/ CloseReleases
  PROVE  ControlInv'
  BY HalvesMove, ControlFrom DEF Sending, Inside

(* The steps of a thread that waits, under sync_mutex.                     *)
LEMMA BlockingMoves ==
  ASSUME TypeOK, ControlInv, NEW t \in Thread,
         \/ Lock(t) \/ Test(t) \/ Sleep(t) \/ WakeByItself(t)
         \/ CheckClosed(t) \/ Push(t) \/ Pop(t)
  PROVE  /\ MovesOnly(t) /\ UNCHANGED <<half, arg, sent, closed>> /\ pc[t] # "fast"
         /\ CheckClosed(t) \/ Push(t) \/ Pop(t) => pc'[t] \in {"idle", "push"} /\ mutex = t
         /\ Push(t) \/ Pop(t) => pc'[t] = "idle" /\ mutex' = Nobody
         /\ Lock(t) \/ Test(t) \/ Sleep(t) \/ WakeByItself(t) => (Sending(t)' <=> Sending(t))
         /\ Sending(t)' => Sending(t)
<1>1. UNCHANGED <<half, arg, sent, closed>> /\ pc[t] # "fast"
  BY DEF Lock, Test, Sleep, WakeByItself, CheckClosed, Push, Pop, valueVars, channelVars
<1>2. CheckClosed(t) \/ Push(t) \/ Pop(t) => mutex = t
  BY DEF CheckClosed, Push, Pop, ControlInv, MutexExcludes, Inside
<1>3. CASE Lock(t) \/ Test(t) \/ Sleep(t) \/ WakeByItself(t)
  <2>1. MovesOnly(t)
    BY <1>3 DEF Lock, Test, Sleep, WakeByItself, GoesTo, MovesOnly, TypeOK
  <2>2. Sending(t)' <=> Sending(t)
    BY <1>3 DEF Lock, Test, Sleep, WakeByItself, GoesTo, Sending, TypeOK
  <2>3. ~CheckClosed(t) /\ ~Push(t) /\ ~Pop(t)
    BY <1>3 DEF Lock, Test, Sleep, WakeByItself, CheckClosed, Push, Pop
  <2> QED
    BY <1>1, <2>1, <2>2, <2>3
<1>4. CASE CheckClosed(t)
  <2>1. MovesOnly(t) /\ pc[t] = "check" /\ pc'[t] \in {"idle", "push"}
    BY <1>4 DEF CheckClosed, GoesTo, Returns, MovesOnly, TypeOK
  <2>2. ~Push(t) /\ ~Pop(t) /\ ~Lock(t) /\ ~Test(t) /\ ~Sleep(t) /\ ~WakeByItself(t)
    BY <2>1 DEF Push, Pop, Lock, Test, Sleep, WakeByItself
  <2> QED
    BY <1>1, <1>2, <1>4, <2>1, <2>2 DEF Sending
<1>5. CASE Push(t) \/ Pop(t)
  <2>1. MovesOnly(t) /\ pc'[t] = "idle" /\ mutex' = Nobody /\ pc[t] \in {"push", "pop"}
    <3>1. CASE Push(t)
      <4>1. <<"waitReceive", "toReceive">> \in Wakes
        BY DEF Wakes
      <4> QED
        BY <3>1, <4>1, NotifiesMoves DEF Push
    <3>2. CASE Pop(t) /\ buffer = <<>>
      BY <3>2 DEF Pop, Returns, MovesOnly, TypeOK
    <3>3. CASE Pop(t) /\ buffer # <<>>
      <4>1. <<"waitSend", "toSend">> \in Wakes
        BY DEF Wakes
      <4> QED
        BY <3>3, <4>1, NotifiesMoves DEF Pop
    <3> QED
      BY <1>5, <3>1, <3>2, <3>3
  <2>2. ~Lock(t) /\ ~Test(t) /\ ~Sleep(t) /\ ~WakeByItself(t) /\ ~Sending(t)'
    BY <2>1 DEF Lock, Test, Sleep, WakeByItself, Sending
  <2> QED
    BY <1>1, <1>2, <1>5, <2>1, <2>2
<1> QED
  BY <1>3, <1>4, <1>5

LEMMA ControlBlocking ==
  ASSUME TypeOK, ControlInv, NEW t \in Thread,
         \/ Lock(t) \/ Test(t) \/ Sleep(t) \/ WakeByItself(t)
         \/ CheckClosed(t) \/ Push(t) \/ Pop(t)
  PROVE  ControlInv'
<1>1. /\ MovesOnly(t) /\ UNCHANGED <<half, arg, sent>> /\ pc[t] # "fast"
      /\ Sending(t)' => Sending(t)
  BY BlockingMoves
<1>2. CASE Lock(t) \/ Test(t) \/ Sleep(t) \/ WakeByItself(t) \/ CheckClosed(t)
  <2>1. pc'[t] \in Inside <=> mutex' = t
    BY ZenonT(60), <1>2, ThreadsAssumption DEF Lock, Test, Sleep, WakeByItself, CheckClosed, GoesTo, Returns,
       Inside, TypeOK, ControlInv, MutexExcludes
  <2>2. \/ mutex' = mutex
        \/ mutex \in {t, Nobody} /\ mutex' \in {t, Nobody}
    BY <1>2 DEF Lock, Test, Sleep, WakeByItself, CheckClosed, ControlInv, MutexExcludes, Inside
  <2> QED
    BY <1>1, <2>1, <2>2, ControlFrom DEF ControlInv, SendersCarry
<1>3. CASE Push(t) \/ Pop(t)
  <2>1. mutex = t /\ mutex' = Nobody /\ pc'[t] = "idle"
    BY <1>3, BlockingMoves
  <2> QED
    BY <1>1, <2>1, ControlFrom, ThreadsAssumption DEF Sending, Inside
<1> QED
  BY <1>2, <1>3

LEMMA ControlStep ==
  ASSUME TypeOK, ControlInv, [Next]_vars
  PROVE  ControlInv'
<1>1. ASSUME NEW c \in Coroutine, CoSend(c) \/ CoReceive(c)
      PROVE  ControlInv'
  <2>1. UNCHANGED <<pc, arg, mutex>> /\ sent' \in {sent, sent + 1}
    BY <1>1 DEF CoSend, CoReceive, threadVars
  <2>2. 1..sent \subseteq 1..sent'
    BY <2>1 DEF TypeOK
  <2>3. \/ half' = half \/ half'.todo = "push"
        \/ half'.todo = "refill"
    BY <1>1 DEF CoSend, CoReceive, PushFor, RefillFor
  <2> QED
    BY <2>1, <2>2, <2>3, ControlQuiet
<1>2. ASSUME \/ CoPush \/ CoRefill \/ Collide \/ UNCHANGED vars
             \/ \E t \in Thread : ReceiveAborts(t)
      PROVE  ControlInv'
  <2>1. UNCHANGED <<pc, arg, mutex, sent>> /\ (half' = half \/ half' = Nothing)
    BY <1>2 DEF CoPush, CoRefill, Collide, ReceiveAborts, vars, threadVars, valueVars
  <2> QED
    BY <2>1, ControlQuiet
<1> QED
  BY <1>1, <1>2, ControlStarts, ControlHalves, ControlBlocking
     DEF Next, CoroutineStep, ThreadStep, Over

-----------------------------------------------------------------------------
(* The places of the buffer.                                               *)
SomePromise == \E t \in Thread : Promised(t)

LEMMA BufferLength ==
  ASSUME TypeOK
  PROVE  /\ Len(buffer) \in Nat
         /\ buffer # <<>> => Len(buffer) > 0 /\ Len(Tail(buffer)) = Len(buffer) - 1
         /\ \A v \in 1..sent : Len(Append(buffer, v)) = Len(buffer) + 1
<1>1. buffer \in Seq(1..sent)
  BY DEF TypeOK
<1> QED
  BY <1>1, EmptySeq, LenProperties, HeadTailProperties, AppendProperties

(* How the room may change.                                                *)
LEMMA RoomFrom ==
  ASSUME RoomIsReserved, Len(buffer) \in Nat, Len(buffer)' \in Nat,
         \/ /\ Len(buffer)' <= Len(buffer) /\ (VmHolds' => VmHolds) /\ (SomePromise' => SomePromise)
         \/ /\ Len(buffer)' < Len(buffer) /\ (SomePromise' => SomePromise)
         \/ /\ Len(buffer)' <= Len(buffer) + 1 /\ VmHolds /\ ~VmHolds'
            /\ (SomePromise' => SomePromise)
         \/ /\ Len(buffer)' = Len(buffer) + 1 /\ (VmHolds' => VmHolds)
            /\ SomePromise /\ ~SomePromise'
         \/ /\ HasRoom /\ Len(buffer)' = Len(buffer) /\ (SomePromise' => SomePromise)
         \/ /\ HasRoom /\ Len(buffer)' = Len(buffer) /\ (VmHolds' => VmHolds)
         \/ /\ HasRoom /\ Len(buffer)' = Len(buffer) + 1 /\ ~VmHolds'
            /\ (SomePromise' => SomePromise)
  PROVE  RoomIsReserved'
<1> DEFINE n == Len(buffer)
<1>1. /\ VmHolds /\ SomePromise => Reserved = 2
      /\ VmHolds /\ ~SomePromise => Reserved = 1
      /\ ~VmHolds /\ SomePromise => Reserved = 1
      /\ ~VmHolds /\ ~SomePromise => Reserved = 0
  BY DEF Reserved, SomePromise
<1>2. /\ VmHolds' /\ SomePromise' => Reserved' = 2
      /\ VmHolds' /\ ~SomePromise' => Reserved' = 1
      /\ ~VmHolds' /\ SomePromise' => Reserved' = 1
      /\ ~VmHolds' /\ ~SomePromise' => Reserved' = 0
  BY DEF Reserved, SomePromise
<1>3. CASE Capacity = 0
  <2>1. n = 0 /\ ~VmHolds /\ ~SomePromise /\ ~HasRoom
    BY <1>1, <1>3 DEF RoomIsReserved, HasRoom
  <2>2. n' = 0 /\ ~VmHolds' /\ ~SomePromise'
    BY <2>1
  <2> QED
    BY <1>2, <1>3, <2>2 DEF RoomIsReserved
<1>4. CASE Capacity # 0
  <2>1. Capacity \in Nat /\ n + Reserved <= Capacity + 1 /\ (HasRoom => n < Capacity)
    BY <1>4, ThreadsAssumption DEF RoomIsReserved, HasRoom
  <2>2. Reserved \in {0, 1, 2} /\ Reserved' \in {0, 1, 2}
    BY <1>1, <1>2
  <2>3. n' + Reserved' <= Capacity + 1
    BY <1>1, <1>2, <2>1, <2>2
  <2> QED
    BY <1>4, <2>3 DEF RoomIsReserved
<1> QED
  BY <1>3, <1>4

LEMMA RoomStep ==
  ASSUME TypeOK, TypeOK', ControlInv, ControlInv', RoomIsReserved, [Next]_vars
  PROVE  RoomIsReserved'
<1> DEFINE n == Len(buffer)
<1>1. n \in Nat /\ n' \in Nat
  BY BufferLength, LenProperties DEF TypeOK
<1>2. ASSUME UNCHANGED <<pc, closed>>
      PROVE  SomePromise' => SomePromise
  BY <1>2 DEF SomePromise, Promised
<1>3. ASSUME NEW c \in Coroutine, CoSend(c)
      PROVE  RoomIsReserved'
  <2>1. UNCHANGED <<pc, closed, buffer>> /\ (half' = half \/ HasRoom)
    BY <1>3 DEF CoSend, threadVars, channelVars
  <2> QED
    BY <1>1, <1>2, <2>1, RoomFrom DEF VmHolds
<1>4. ASSUME NEW c \in Coroutine, CoReceive(c)
      PROVE  RoomIsReserved'
  <2>1. /\ UNCHANGED <<pc, closed>>
        /\ \/ half' = half /\ buffer' = buffer
           \/ buffer # <<>> /\ buffer' = Tail(buffer)
    BY <1>4 DEF CoReceive, threadVars, channelVars
  <2>2. \/ n' <= n /\ (VmHolds' => VmHolds)
        \/ n' < n
    BY <1>1, <2>1, BufferLength DEF VmHolds
  <2> QED
    BY <1>1, <1>2, <2>1, <2>2, RoomFrom
<1>5. ASSUME MovesIn
      PROVE  n' <= n + 1
  BY <1>1, <1>5, BufferLength, HeadTypes DEF MovesIn
<1>6. CASE CoPush
  <2>1. half.val \in 1..sent /\ VmHolds /\ ~VmHolds' /\ UNCHANGED <<pc, closed>>
    BY SMTT(60), <1>6 DEF CoPush, TypeOK, Nothing, VmHolds, threadVars
  <2>2. n' = n + 1
    BY <1>6, <2>1, BufferLength DEF CoPush
  <2> QED
    BY <1>1, <1>2, <2>1, <2>2, RoomFrom
<1>7. CASE CoRefill
  <2>1. VmHolds /\ ~VmHolds' /\ UNCHANGED <<pc, closed>> /\ n' <= n + 1
    BY <1>5, <1>7 DEF CoRefill, Nothing, VmHolds, threadVars
  <2> QED
    BY <1>1, <1>2, <2>1, RoomFrom
<1>8. ASSUME NEW t \in Thread, SendFast(t) \/ ReceiveFast(t) \/ Close(t)
      PROVE  RoomIsReserved'
  <2>1. /\ SomePromise' => SomePromise
    <3>1. closed => closed'
      BY <1>8 DEF SendFast, ReceiveFast, Close
    <3>2. MovesOnly(t) /\ pc'[t] \in {"idle", "fast", "toSend", "toReceive"}
      BY <1>8, ReceiveFastMoves DEF SendFast, Close, Returns, GoesTo, MovesOnly, TypeOK
    <3> QED
      BY <3>1, <3>2 DEF SomePromise, Promised, MovesOnly, Wakes
  <2>2. half = Nothing
    BY <1>8 DEF SendFast, ReceiveFast, Close, Calls, Starts, MayStart
  <2>3. CASE SendFast(t)
    <3>1. \/ half' = half /\ buffer' = buffer
          \/ HasRoom /\ half' = Announce(t) /\ buffer' = Append(buffer, sent + 1)
      BY <2>3 DEF SendFast
    <3>2. Len(Append(buffer, sent + 1)) = n + 1
      BY AppendProperties, OfferGrows, <2>3 DEF TypeOK, SendFast
    <3> QED
      BY <1>1, <2>1, <2>2, <3>1, <3>2, RoomFrom DEF VmHolds, Announce
  <2>4. CASE ReceiveFast(t)
    <3>1. half' = half /\ (buffer' = buffer \/ (buffer # <<>> /\ buffer' = Tail(buffer)))
      BY <2>4 DEF ReceiveFast
    <3>2. n' <= n /\ (VmHolds' => VmHolds)
      BY <1>1, <3>1, BufferLength DEF VmHolds
    <3> QED
      BY <1>1, <2>1, <3>2, RoomFrom
  <2>5. CASE Close(t)
    <3>1. buffer' = buffer /\ (half' = half \/ half' = Release(t))
      BY <2>5 DEF Close
    <3> QED
      BY <1>1, <2>1, <3>1, RoomFrom DEF VmHolds, Release
  <2> QED
    BY <1>8, <2>3, <2>4, <2>5
<1>9. CASE SendAnnounces \/ CloseReleases
  <2>1. SomePromise' => SomePromise
    <3>1. /\ half.by \in Thread /\ MovesOnly(half.by) /\ pc'[half.by] = "idle"
          /\ UNCHANGED <<arg, sent, closed>>
      BY <1>9, HalvesMove
    <3>2. \A u \in Thread \ {half.by} : Promised(u)' => Promised(u)
      BY <3>1, OthersKeepControl
    <3> QED
      BY <3>1, <3>2 DEF SomePromise, Promised
  <2> QED
    BY <1>1, <1>9, <2>1, RoomFrom DEF SendAnnounces, CloseReleases, VmHolds, Nothing
<1>10. ASSUME NEW t \in Thread, Lock(t) \/ Sleep(t) \/ WakeByItself(t) \/ CheckClosed(t)
       PROVE  RoomIsReserved'
  <2>1. UNCHANGED <<buffer, closed, half>>
    BY <1>10 DEF Lock, Sleep, WakeByItself, CheckClosed, channelVars
  <2>2. \A u \in Thread : Promised(u)' => Promised(u)
    BY <1>10 DEF Lock, Sleep, WakeByItself, CheckClosed, channelVars, GoesTo, Returns, TypeOK, Promised
  <2> QED
    BY <1>1, <2>1, <2>2, RoomFrom DEF SomePromise, VmHolds
<1>11. ASSUME NEW t \in Thread, Test(t)
       PROVE  RoomIsReserved'
  <2>1. UNCHANGED <<buffer, closed, half>>
    BY <1>11 DEF Test, channelVars
  <2>2. (\A u \in Thread : Promised(u)' => Promised(u)) \/ HasRoom
    BY <1>11 DEF Test, channelVars, GoesTo, TypeOK, Promised
  <2> QED
    BY <1>1, <2>1, <2>2, RoomFrom DEF SomePromise, VmHolds
<1>12. ASSUME NEW t \in Thread, Push(t)
       PROVE  RoomIsReserved'
  <2>1. half' = half /\ mutex' = Nobody /\ SomePromise
    BY <1>12 DEF Push, SomePromise, Promised
  <2>2. ~SomePromise'
    BY <2>1, ThreadsAssumption DEF SomePromise, Promised, ControlInv, MutexExcludes, Inside
  <2>3. arg[t] \in 1..sent
    BY <1>12 DEF Push, ControlInv, SendersCarry, Sending
  <2>4. n' = n + 1
    BY <1>12, <2>3, BufferLength DEF Push
  <2> QED
    BY <1>1, <2>1, <2>2, <2>4, RoomFrom DEF VmHolds
<1>13. ASSUME NEW t \in Thread, Pop(t)
       PROVE  RoomIsReserved'
  <2>1. half' = half /\ mutex' = Nobody
    BY <1>13 DEF Pop
  <2>2. ~SomePromise'
    BY <2>1, ThreadsAssumption DEF SomePromise, Promised, ControlInv, MutexExcludes, Inside
  <2>3. n' <= n
    BY <1>1, <1>13, BufferLength DEF Pop
  <2> QED
    BY <1>1, <2>1, <2>2, <2>3, RoomFrom DEF VmHolds
<1>14. CASE Collide \/ UNCHANGED vars
  <2>1. UNCHANGED <<buffer, closed, half, pc>>
    BY <1>14 DEF Collide, vars, channelVars, threadVars
  <2> QED
    BY <1>1, <1>2, <2>1, RoomFrom DEF VmHolds
<1>15. ASSUME NEW t \in Thread, ReceiveAborts(t)
       PROVE  RoomIsReserved'
  <2>1. UNCHANGED <<closed, half, pc>> /\ n' < n
    BY <1>1, <1>15, BufferLength DEF ReceiveAborts, threadVars
  <2> QED
    BY <1>1, <1>2, <2>1, RoomFrom
<1> QED
  BY <1>3, <1>4, <1>6, <1>7, <1>8, <1>9, <1>10, <1>11, <1>12, <1>13, <1>14, <1>15
     DEF Next, CoroutineStep, ThreadStep, Over

-----------------------------------------------------------------------------
(* Partners.                                                               *)
LEMMA PartnersStep ==
  ASSUME TypeOK, PartnersMeet, [Next]_vars
  PROVE  PartnersMeet'
<1>1. ASSUME NEW c \in Coroutine, CoSend(c) \/ CoReceive(c)
      PROVE  PartnersMeet'
  <2>1. CASE CoSend(c)
    BY <2>1, HeadTailProperties, EmptySeq DEF CoSend, PartnersMeet, channelVars
  <2>2. CASE CoReceive(c)
    BY <2>2 DEF CoReceive, CanRendezvous, PartnersMeet, channelVars
  <2> QED
    BY <1>1, <2>1, <2>2
<1>2. ASSUME waitingSenders' = waitingSenders \/ waitingSenders # <<>>,
             waitingReceivers' = waitingReceivers \/ waitingReceivers # <<>>,
             waitingSenders # <<>> => waitingReceivers' = waitingReceivers,
             waitingReceivers # <<>> => waitingSenders' = waitingSenders
      PROVE  PartnersMeet'
  BY <1>2 DEF PartnersMeet
<1>3. CASE CoRefill
  BY <1>3 DEF CoRefill, MovesIn, PartnersMeet
<1>4. ASSUME NEW t \in Thread, ReceiveAborts(t)
      PROVE  PartnersMeet'
  BY <1>4 DEF ReceiveAborts, PartnersMeet
<1>5. CASE CloseReleases \/ SendAnnounces
  BY <1>5 DEF CloseReleases, SendAnnounces, PartnersMeet
<1>6. ASSUME UNCHANGED <<waitingSenders, waitingReceivers>>
      PROVE  PartnersMeet'
  BY <1>6 DEF PartnersMeet
<1> QED
  BY <1>1, <1>3, <1>4, <1>5, <1>6
     DEF Next, CoroutineStep, ThreadStep, CoPush, SendFast, ReceiveFast, Close, Lock, Test,
         Sleep, WakeByItself, CheckClosed, Push, Pop, Collide, Over, vars, channelVars

-----------------------------------------------------------------------------
(* Counting.  How often a sequence has an element of P.                    *)
Count(s, P) == Cardinality({i \in DOMAIN s : s[i] \in P})

LEMMA CountType ==
  ASSUME NEW S, NEW s \in Seq(S), NEW P
  PROVE  /\ Count(s, P) \in Nat /\ IsFiniteSet({i \in DOMAIN s : s[i] \in P})
         /\ Count(s, P) = 0 <=> \A i \in DOMAIN s : s[i] \notin P
<1> DEFINE A == {i \in DOMAIN s : s[i] \in P}
<1>1. DOMAIN s = 1..Len(s) /\ Len(s) \in Nat
  BY LenProperties
<1>2. IsFiniteSet(A)
  <2>1. A \in SUBSET (1..Len(s)) /\ IsFiniteSet(1..Len(s))
    BY <1>1, FS_Interval
  <2> QED
    BY <2>1, FS_Subset
<1>3. Cardinality(A) \in Nat /\ (Cardinality(A) = 0 <=> A = {})
  BY <1>2, FS_CardinalityType, FS_EmptySet
<1> QED
  BY <1>2, <1>3 DEF Count

LEMMA CountAppend ==
  ASSUME NEW S, NEW s \in Seq(S), NEW e \in S, NEW P
  PROVE  Count(Append(s, e), P) = Count(s, P) + IF e \in P THEN 1 ELSE 0
<1> DEFINE A == {i \in DOMAIN s : s[i] \in P}
           n == Len(s)
           s2 == Append(s, e)
           A2 == {i \in DOMAIN s2 : s2[i] \in P}
<1>1. /\ n \in Nat /\ DOMAIN s = 1..n /\ DOMAIN s2 = 1..n + 1
      /\ \A i \in 1..n : s2[i] = s[i]
      /\ s2[n + 1] = e
  BY LenProperties, AppendProperties
<1>2. IsFiniteSet(A) /\ Cardinality(A) \in Nat
  BY CountType DEF Count
<1>3. n + 1 \notin A /\ \A i : i \in 1..n + 1 <=> i \in 1..n \/ i = n + 1
  BY <1>1
<1>4. CASE e \in P
  <2>1. A2 = A \cup {n + 1}
    BY <1>1, <1>3, <1>4
  <2> QED
    BY <1>2, <1>3, <1>4, <2>1, FS_AddElement DEF Count
<1>5. CASE e \notin P
  <2>1. A2 = A
    BY <1>1, <1>3, <1>5
  <2>2. Count(s, P) = Cardinality(A) /\ Count(s2, P) = Cardinality(A2)
    BY DEF Count
  <2> HIDE DEF A, A2
  <2> QED
    BY <1>2, <1>5, <2>1, <2>2
<1> QED
  BY <1>4, <1>5

LEMMA CountTail ==
  ASSUME NEW S, NEW s \in Seq(S), s # <<>>, NEW P
  PROVE  Count(s, P) = Count(Tail(s), P) + IF Head(s) \in P THEN 1 ELSE 0
<1> DEFINE r == Tail(s)
           n == Len(s)
           A == {i \in DOMAIN r : r[i] \in P}
           B == {i \in 2..n : s[i] \in P}
           C == {i \in DOMAIN s : s[i] \in P}
           f == [i \in A |-> i + 1]
<1>1. /\ n \in Nat \ {0} /\ DOMAIN s = 1..n /\ DOMAIN r = 1..n - 1
      /\ \A i \in 1..n - 1 : r[i] = s[i + 1]
      /\ Head(s) = s[1] /\ r \in Seq(S)
  <2>1. r \in Seq(S) /\ Len(r) = n - 1 /\ \A i \in 1..n - 1 : r[i] = s[i + 1]
    BY HeadTailProperties
  <2> QED
    BY <2>1, EmptySeq, LenProperties
<1>2. IsFiniteSet(A) /\ Cardinality(A) \in Nat
  BY <1>1, CountType DEF Count
<1>3. f \in Bijection(A, B)
  <2>1. f \in [A -> B]
    BY <1>1
  <2>2. \A a, b \in A : f[a] = f[b] => a = b
    BY <1>1
  <2>3. \A b \in B : b - 1 \in A /\ f[b - 1] = b
    BY <1>1
  <2> QED
    BY <2>1, <2>2, <2>3 DEF Bijection, Injection, Surjection, IsInjective
<1>4. IsFiniteSet(B) /\ Cardinality(B) = Cardinality(A)
  BY ZenonT(60), <1>2, <1>3, FS_Bijection DEF ExistsBijection
<1>5. 1 \notin B /\ \A i : i \in 1..n <=> i = 1 \/ i \in 2..n
  BY <1>1
<1>6. CASE Head(s) \in P
  <2>1. C = B \cup {1}
    BY <1>1, <1>5, <1>6
  <2> QED
    BY <1>2, <1>4, <1>5, <1>6, <2>1, FS_AddElement DEF Count
<1>7. CASE Head(s) \notin P
  <2>1. C = B
    BY <1>1, <1>5, <1>7
  <2>2. Count(s, P) = Cardinality(C) /\ Count(r, P) = Cardinality(A)
    BY DEF Count
  <2> HIDE DEF A, B, C
  <2> QED
    BY <1>2, <1>4, <1>7, <2>1, <2>2
<1> QED
  BY <1>6, <1>7

-----------------------------------------------------------------------------
(* The places of a value.                                                  *)
InBuffer(v) == Occurrences(buffer, v)
IsDelivered(v) == Occurrences(delivered, v)
WaitsInChannel(v) == Cardinality({i \in DOMAIN waitingSenders : waitingSenders[i].val = v})
ThreadsWith(v) == {t \in Thread : Sending(t) /\ arg[t] = v}
WithThreads(v) == Cardinality(ThreadsWith(v))
InHalf(v) == Cardinality({h \in {half} : h.todo = "push" /\ h.val = v})
IsRefused(v) == Cardinality({v} \cap refused)

LEMMA CopiesIs ==
  ASSUME NEW v
  PROVE  /\ Copies(v) = InBuffer(v) + IsDelivered(v) + WaitsInChannel(v) + WithThreads(v)
                          + InHalf(v) + IsRefused(v)
         /\ Copies(v)' = InBuffer(v)' + IsDelivered(v)' + WaitsInChannel(v)' + WithThreads(v)'
                          + InHalf(v)' + IsRefused(v)'
  BY DEF Copies, InBuffer, IsDelivered, WaitsInChannel, WithThreads, ThreadsWith, InHalf, IsRefused

LEMMA OccurrencesCount ==
  ASSUME NEW s, NEW v
  PROVE  Occurrences(s, v) = Count(s, {v})
  BY DEF Occurrences, Count

LEMMA OccurrencesAppend ==
  ASSUME NEW S, NEW s \in Seq(S), NEW e \in S, NEW v
  PROVE  Occurrences(Append(s, e), v) = Occurrences(s, v) + IF e = v THEN 1 ELSE 0
  BY ZenonT(60), OccurrencesCount, CountAppend

LEMMA OccurrencesTail ==
  ASSUME NEW S, NEW s \in Seq(S), s # <<>>, NEW v
  PROVE  Occurrences(s, v) = Occurrences(Tail(s), v) + IF Head(s) = v THEN 1 ELSE 0
  BY OccurrencesCount, CountTail

Carrying(v) == [co : Coroutine, val : {v}]
LEMMA WaitingCount ==
  ASSUME NEW n, NEW s \in Seq([co : Coroutine, val : 1..n]), NEW v
  PROVE  Cardinality({i \in DOMAIN s : s[i].val = v}) = Count(s, Carrying(v))
<1>1. \A i \in DOMAIN s : s[i] \in [co : Coroutine, val : 1..n]
  BY LenProperties
<1>2. \A i \in DOMAIN s : s[i].val = v <=> s[i] \in Carrying(v)
  BY <1>1 DEF Carrying
<1> QED
  BY <1>2 DEF Count

LEMMA HalfCount ==
  ASSUME NEW x, NEW v
  PROVE  Cardinality({h \in {x} : h.todo = "push" /\ h.val = v})
           = IF x.todo = "push" /\ x.val = v THEN 1 ELSE 0
<1>1. CASE x.todo = "push" /\ x.val = v
  <2>1. {h \in {x} : h.todo = "push" /\ h.val = v} = {x}
    BY <1>1
  <2> QED
    BY <1>1, <2>1, FS_Singleton
<1>2. CASE ~(x.todo = "push" /\ x.val = v)
  <2>1. {h \in {x} : h.todo = "push" /\ h.val = v} = {}
    BY <1>2
  <2> QED
    BY <1>2, <2>1, FS_EmptySet
<1> QED
  BY <1>1, <1>2

LEMMA RefusedCount ==
  ASSUME NEW R, NEW v
  PROVE  Cardinality({v} \cap R) = IF v \in R THEN 1 ELSE 0
<1>1. CASE v \in R
  <2>1. {v} \cap R = {v}
    BY <1>1
  <2> QED
    BY <1>1, <2>1, FS_Singleton
<1>2. CASE v \notin R
  <2>1. {v} \cap R = {}
    BY <1>2
  <2> QED
    BY <1>2, <2>1, FS_EmptySet
<1> QED
  BY <1>1, <1>2

LEMMA SimplePlaces ==
  ASSUME NEW v
  PROVE  /\ InHalf(v) = IF half.todo = "push" /\ half.val = v THEN 1 ELSE 0
         /\ InHalf(v)' = IF half'.todo = "push" /\ half'.val = v THEN 1 ELSE 0
         /\ IsRefused(v) = IF v \in refused THEN 1 ELSE 0
         /\ IsRefused(v)' = IF v \in refused' THEN 1 ELSE 0
  BY HalfCount, RefusedCount DEF InHalf, IsRefused

LEMMA ThreadsWithFinite ==
  ASSUME NEW v
  PROVE  /\ IsFiniteSet(ThreadsWith(v)) /\ WithThreads(v) \in Nat
         /\ IsFiniteSet(ThreadsWith(v)') /\ WithThreads(v)' \in Nat
<1>1. ThreadsWith(v) \in SUBSET Thread /\ ThreadsWith(v)' \in SUBSET Thread /\ IsFiniteSet(Thread)
  BY ThreadsAssumption DEF ThreadsWith
<1>2. IsFiniteSet(ThreadsWith(v)) /\ IsFiniteSet(ThreadsWith(v)')
  BY <1>1, FS_Subset
<1> QED
  BY <1>2, FS_CardinalityType DEF WithThreads

(* The places a value may be in are numbers; one that is yet to be offered *)
(* is nowhere.                                                             *)
LEMMA PlacesType ==
  ASSUME TypeOK, NEW v
  PROVE  /\ InBuffer(v) \in Nat /\ IsDelivered(v) \in Nat /\ WaitsInChannel(v) \in Nat
         /\ WithThreads(v) \in Nat /\ InHalf(v) \in {0, 1} /\ IsRefused(v) \in {0, 1}
<1>1. InBuffer(v) \in Nat /\ IsDelivered(v) \in Nat
  BY OccurrencesCount, CountType DEF TypeOK, InBuffer, IsDelivered
<1>2. WaitsInChannel(v) \in Nat
  <2>1. waitingSenders \in Seq([co : Coroutine, val : 1..sent])
    BY DEF TypeOK
  <2>2. WaitsInChannel(v) = Count(waitingSenders, Carrying(v))
    BY <2>1, WaitingCount DEF WaitsInChannel
  <2> QED
    BY ZenonT(60), <2>1, <2>2, CountType
<1> QED
  BY <1>1, <1>2, ThreadsWithFinite, SimplePlaces

LEMMA PlacesTypeNext ==
  ASSUME TypeOK', NEW v
  PROVE  /\ InBuffer(v)' \in Nat /\ IsDelivered(v)' \in Nat /\ WaitsInChannel(v)' \in Nat
         /\ WithThreads(v)' \in Nat /\ InHalf(v)' \in {0, 1} /\ IsRefused(v)' \in {0, 1}
<1>1. InBuffer(v)' \in Nat /\ IsDelivered(v)' \in Nat
  BY OccurrencesCount, CountType DEF TypeOK, InBuffer, IsDelivered
<1>2. WaitsInChannel(v)' \in Nat
  <2>1. waitingSenders' \in Seq([co : Coroutine, val : 1..sent'])
    BY DEF TypeOK
  <2>2. WaitsInChannel(v)' = Count(waitingSenders', Carrying(v))
    BY <2>1, WaitingCount DEF WaitsInChannel
  <2> QED
    BY ZenonT(60), <2>1, <2>2, CountType
<1> QED
  BY <1>1, <1>2, ThreadsWithFinite, SimplePlaces

LEMMA FreshIsNowhere ==
  ASSUME TypeOK, SendersCarry, NEW v, v \notin 1..sent
  PROVE  Copies(v) = 0
<1>1. InBuffer(v) = 0 /\ IsDelivered(v) = 0
  <2>1. /\ \A i \in DOMAIN buffer : buffer[i] \notin {v}
        /\ \A i \in DOMAIN delivered : delivered[i] \notin {v}
    BY SMTT(60), LenProperties DEF TypeOK
  <2> QED
    BY <2>1, OccurrencesCount, CountType DEF TypeOK, InBuffer, IsDelivered
<1>2. WaitsInChannel(v) = 0
  <2>1. {i \in DOMAIN waitingSenders : waitingSenders[i].val = v} = {}
    BY WaitingAre
  <2> QED
    BY <2>1, FS_EmptySet DEF WaitsInChannel
<1>3. WithThreads(v) = 0
  <2>1. ThreadsWith(v) = {}
    BY DEF ThreadsWith, SendersCarry
  <2> QED
    BY <2>1, FS_EmptySet DEF WithThreads
<1>4. InHalf(v) = 0 /\ IsRefused(v) = 0
  <2>1. half.todo = "push" => half.val \in 1..sent
    BY DEF TypeOK, Nothing
  <2>2. v \notin refused
    BY DEF TypeOK
  <2> QED
    BY <2>1, <2>2, SimplePlaces
<1> QED
  BY <1>1, <1>2, <1>3, <1>4, CopiesIs

(* How the places change.                                                  *)
LEMMA BufferChanges ==
  ASSUME TypeOK, NEW v
  PROVE  /\ buffer' = buffer => InBuffer(v)' = InBuffer(v)
         /\ buffer # <<>> /\ buffer' = Tail(buffer) =>
              InBuffer(v) = InBuffer(v)' + IF Head(buffer) = v THEN 1 ELSE 0
         /\ \A n \in Nat : \A w \in 1..n : buffer \in Seq(1..n) /\ buffer' = Append(buffer, w) =>
              InBuffer(v)' = InBuffer(v) + IF w = v THEN 1 ELSE 0
<1>1. ASSUME buffer # <<>>, buffer' = Tail(buffer)
      PROVE  InBuffer(v) = InBuffer(v)' + IF Head(buffer) = v THEN 1 ELSE 0
  BY <1>1, OccurrencesTail DEF TypeOK, InBuffer
<1>2. ASSUME NEW n \in Nat, NEW w \in 1..n, buffer \in Seq(1..n), buffer' = Append(buffer, w)
      PROVE  InBuffer(v)' = InBuffer(v) + IF w = v THEN 1 ELSE 0
  BY <1>2, OccurrencesAppend DEF InBuffer
<1> QED
  BY <1>1, <1>2 DEF InBuffer

LEMMA DeliveredChanges ==
  ASSUME TypeOK, NEW v
  PROVE  /\ delivered' = delivered => IsDelivered(v)' = IsDelivered(v)
         /\ \A n \in Nat : \A w \in 1..n : delivered \in Seq(1..n) /\ Deliver(w) =>
              IsDelivered(v)' = IsDelivered(v) + IF w = v THEN 1 ELSE 0
<1>1. ASSUME NEW n \in Nat, NEW w \in 1..n, delivered \in Seq(1..n), Deliver(w)
      PROVE  IsDelivered(v)' = IsDelivered(v) + IF w = v THEN 1 ELSE 0
  BY <1>1, OccurrencesAppend DEF IsDelivered, Deliver
<1> QED
  BY <1>1 DEF IsDelivered

LEMMA WaitingChanges ==
  ASSUME TypeOK, NEW v
  PROVE  /\ waitingSenders' = waitingSenders => WaitsInChannel(v)' = WaitsInChannel(v)
         /\ waitingSenders # <<>> /\ waitingSenders' = Tail(waitingSenders) =>
              WaitsInChannel(v) = WaitsInChannel(v)'
                                    + IF Head(waitingSenders).val = v THEN 1 ELSE 0
         /\ \A n \in Nat : \A w \in 1..n : \A c \in Coroutine :
              /\ waitingSenders \in Seq([co : Coroutine, val : 1..n])
              /\ waitingSenders' = Append(waitingSenders, [co |-> c, val |-> w])
              => WaitsInChannel(v)' = WaitsInChannel(v) + IF w = v THEN 1 ELSE 0
<1>1. ASSUME waitingSenders # <<>>, waitingSenders' = Tail(waitingSenders)
      PROVE  WaitsInChannel(v) = WaitsInChannel(v)' + IF Head(waitingSenders).val = v THEN 1 ELSE 0
  <2> DEFINE T == [co : Coroutine, val : 1..sent]
  <2>1. waitingSenders \in Seq(T) /\ Tail(waitingSenders) \in Seq(T) /\ Head(waitingSenders) \in T
    BY <1>1, HeadTailProperties DEF TypeOK
  <2>2. Head(waitingSenders).val = v <=> Head(waitingSenders) \in Carrying(v)
    BY <2>1 DEF Carrying
  <2>3. /\ WaitsInChannel(v) = Count(waitingSenders, Carrying(v))
        /\ WaitsInChannel(v)' = Count(Tail(waitingSenders), Carrying(v))
    BY <1>1, <2>1, WaitingCount DEF WaitsInChannel
  <2> HIDE DEF T
  <2> QED
    BY <1>1, <2>1, <2>2, <2>3, CountTail
<1>2. ASSUME NEW n \in Nat, NEW w \in 1..n, NEW c \in Coroutine,
             waitingSenders \in Seq([co : Coroutine, val : 1..n]),
             waitingSenders' = Append(waitingSenders, [co |-> c, val |-> w])
      PROVE  WaitsInChannel(v)' = WaitsInChannel(v) + IF w = v THEN 1 ELSE 0
  <2> DEFINE T == [co : Coroutine, val : 1..n]
             e == [co |-> c, val |-> w]
  <2>1. e \in T /\ (e \in Carrying(v) <=> w = v)
    BY DEF Carrying
  <2>2. waitingSenders \in Seq(T) /\ Append(waitingSenders, e) \in Seq(T)
    BY <1>2, <2>1, AppendType
  <2>3. /\ WaitsInChannel(v) = Count(waitingSenders, Carrying(v))
        /\ WaitsInChannel(v)' = Count(Append(waitingSenders, e), Carrying(v))
    BY <1>2, <2>2, WaitingCount DEF WaitsInChannel
  <2>4. Count(Append(waitingSenders, e), Carrying(v))
          = Count(waitingSenders, Carrying(v)) + IF e \in Carrying(v) THEN 1 ELSE 0
    <3> HIDE DEF T, e
    <3> QED
      BY <2>1, <2>2, CountAppend
  <2> QED
    BY <2>1, <2>3, <2>4
<1> QED
  BY <1>1, <1>2 DEF WaitsInChannel

LEMMA ThreadsStay ==
  ASSUME NEW v, \A u \in Thread : (Sending(u)' /\ arg'[u] = v) <=> (Sending(u) /\ arg[u] = v)
  PROVE  WithThreads(v)' = WithThreads(v)
  BY DEF WithThreads, ThreadsWith

LEMMA ThreadLeaves ==
  ASSUME NEW v, NEW t \in Thread, Sending(t), ~Sending(t)',
         \A u \in Thread \ {t} : (Sending(u)' /\ arg'[u] = v) <=> (Sending(u) /\ arg[u] = v)
  PROVE  WithThreads(v) = WithThreads(v)' + IF arg[t] = v THEN 1 ELSE 0
<1>1. CASE arg[t] = v
  <2>1. t \in ThreadsWith(v) /\ ThreadsWith(v)' = ThreadsWith(v) \ {t}
    BY <1>1 DEF ThreadsWith
  <2>2. Cardinality(ThreadsWith(v) \ {t}) = Cardinality(ThreadsWith(v)) - 1
    BY <2>1, ThreadsWithFinite, FS_RemoveElement
  <2>3. WithThreads(v) = Cardinality(ThreadsWith(v)) /\ WithThreads(v)' = Cardinality(ThreadsWith(v)')
    BY DEF WithThreads
  <2> QED
    BY <1>1, <2>1, <2>2, <2>3, ThreadsWithFinite
<1>2. CASE arg[t] # v
  <2>1. ThreadsWith(v)' = ThreadsWith(v)
    BY <1>2 DEF ThreadsWith
  <2> QED
    BY <1>2, <2>1, ThreadsWithFinite DEF WithThreads
<1> QED
  BY <1>1, <1>2

LEMMA ThreadJoins ==
  ASSUME NEW v, NEW t \in Thread, ~Sending(t), Sending(t)',
         \A u \in Thread \ {t} : (Sending(u)' /\ arg'[u] = v) <=> (Sending(u) /\ arg[u] = v)
  PROVE  WithThreads(v)' = WithThreads(v) + IF arg'[t] = v THEN 1 ELSE 0
<1>1. CASE arg'[t] = v
  <2>1. t \notin ThreadsWith(v) /\ ThreadsWith(v)' = ThreadsWith(v) \cup {t}
    BY <1>1 DEF ThreadsWith
  <2> QED
    BY <1>1, <2>1, ThreadsWithFinite, FS_AddElement DEF WithThreads
<1>2. CASE arg'[t] # v
  <2>1. ThreadsWith(v)' = ThreadsWith(v)
    BY <1>2 DEF ThreadsWith
  <2> QED
    BY <1>2, <2>1, ThreadsWithFinite DEF WithThreads
<1> QED
  BY <1>1, <1>2

LEMMA PlacesStay ==
  ASSUME NEW v
  PROVE  /\ buffer' = buffer => InBuffer(v)' = InBuffer(v)
         /\ delivered' = delivered => IsDelivered(v)' = IsDelivered(v)
         /\ waitingSenders' = waitingSenders => WaitsInChannel(v)' = WaitsInChannel(v)
         /\ UNCHANGED <<pc, arg>> => WithThreads(v)' = WithThreads(v)
         /\ half' = half => InHalf(v)' = InHalf(v)
         /\ refused' = refused => IsRefused(v)' = IsRefused(v)
  BY DEF InBuffer, IsDelivered, WaitsInChannel, WithThreads, ThreadsWith, Sending, InHalf, IsRefused

LEMMA CoSendCopies ==
  ASSUME TypeOK, NEW c \in Coroutine, CoSend(c), NEW v
  PROVE  Copies(v)' = Copies(v) + IF v = sent + 1 THEN 1 ELSE 0
<1> DEFINE w == sent + 1
           one == IF w = v THEN 1 ELSE 0
<1>1. /\ w \in Nat /\ w \in 1..w /\ buffer \in Seq(1..w) /\ delivered \in Seq(1..w)
      /\ waitingSenders \in Seq([co : Coroutine, val : 1..w]) /\ w \notin refused
  <2>1. sent' = sent + 1
    BY DEF CoSend
  <2>2. w \notin refused
    BY DEF TypeOK
  <2> QED
    BY <2>1, <2>2, OfferGrows DEF WaitingType
<1>2. half = Nothing /\ InHalf(v) = 0 /\ WithThreads(v)' = WithThreads(v)
  BY SimplePlaces, PlacesStay DEF CoSend, Executes, Starts, MayStart, Nothing, threadVars
<1>3. CASE closed
  <2>1. UNCHANGED <<buffer, delivered, waitingSenders, half>> /\ refused' = refused \cup {w}
    BY <1>3 DEF CoSend, channelVars
  <2>2. IsRefused(v)' = IsRefused(v) + one
    BY <1>1, <2>1, SimplePlaces
  <2> QED
    BY <1>2, <2>1, <2>2, CopiesIs, PlacesStay, PlacesType
<1>4. CASE ~closed /\ waitingReceivers # <<>>
  <2>1. UNCHANGED <<buffer, waitingSenders, half, refused>> /\ Deliver(w)
    BY <1>4 DEF CoSend
  <2>2. IsDelivered(v)' = IsDelivered(v) + one
    BY <1>1, <2>1, DeliveredChanges
  <2> QED
    BY <1>2, <2>1, <2>2, CopiesIs, PlacesStay, PlacesType
<1>5. CASE ~closed /\ waitingReceivers = <<>> /\ HasRoom
  <2>1. UNCHANGED <<buffer, delivered, waitingSenders, refused>> /\ half' = PushFor(c, w)
    BY <1>5 DEF CoSend, channelVars
  <2>2. InHalf(v)' = one
    BY <2>1, SimplePlaces DEF PushFor
  <2> QED
    BY <1>2, <2>1, <2>2, CopiesIs, PlacesStay, PlacesType
<1>6. CASE ~closed /\ waitingReceivers = <<>> /\ ~HasRoom
  <2>1. /\ UNCHANGED <<buffer, delivered, half, refused>>
        /\ waitingSenders' = Append(waitingSenders, [co |-> c, val |-> w])
    BY <1>6 DEF CoSend
  <2>2. WaitsInChannel(v)' = WaitsInChannel(v) + one
    BY <1>1, <2>1, WaitingChanges
  <2> QED
    BY <1>2, <2>1, <2>2, CopiesIs, PlacesStay, PlacesType
<1> QED
  BY <1>3, <1>4, <1>5, <1>6

LEMMA CoReceiveCopies ==
  ASSUME TypeOK, NEW c \in Coroutine, CoReceive(c), NEW v
  PROVE  Copies(v)' = Copies(v)
<1>1. /\ half = Nothing /\ InHalf(v) = 0 /\ WithThreads(v)' = WithThreads(v)
      /\ IsRefused(v)' = IsRefused(v)
  BY SimplePlaces, PlacesStay DEF CoReceive, Executes, Starts, MayStart, Nothing, threadVars
<1>2. CASE buffer # <<>> /\ buffer' = Tail(buffer)
  <2>1. /\ Deliver(Head(buffer)) /\ UNCHANGED waitingSenders /\ Head(buffer) \in 1..sent
        /\ half' = RefillFor(c)
    BY <1>2, HeadTypes DEF CoReceive, CanRendezvous, channelVars
  <2>2. IsDelivered(v)' = IsDelivered(v) + IF Head(buffer) = v THEN 1 ELSE 0
    BY <2>1, DeliveredChanges DEF TypeOK
  <2>3. InBuffer(v) = InBuffer(v)' + IF Head(buffer) = v THEN 1 ELSE 0
    BY <1>2, BufferChanges
  <2>4. InHalf(v)' = 0
    BY <2>1, SimplePlaces DEF RefillFor
  <2>5. InBuffer(v)' \in Nat
    BY <1>2, HeadTypes, OccurrencesCount, CountType DEF InBuffer
  <2> QED
    BY <1>1, <2>1, <2>2, <2>3, <2>4, <2>5, CopiesIs, PlacesStay, PlacesType
<1>3. CASE buffer = <<>> /\ waitingSenders # <<>> /\ waitingSenders' = Tail(waitingSenders)
  <2> DEFINE w == Head(waitingSenders).val
  <2>1. Deliver(w) /\ UNCHANGED <<buffer, half>> /\ w \in 1..sent
    BY <1>3, HeadTypes DEF CoReceive, CanRendezvous, channelVars
  <2>2. IsDelivered(v)' = IsDelivered(v) + IF w = v THEN 1 ELSE 0
    BY <2>1, DeliveredChanges DEF TypeOK
  <2>3. WaitsInChannel(v) = WaitsInChannel(v)' + IF w = v THEN 1 ELSE 0
    BY <1>3, WaitingChanges
  <2>4. WaitsInChannel(v)' \in Nat
    <3>1. waitingSenders' \in Seq([co : Coroutine, val : 1..sent])
      BY <1>3, HeadTypes
    <3>2. WaitsInChannel(v)' = Count(waitingSenders', Carrying(v))
      BY <3>1, WaitingCount DEF WaitsInChannel
    <3> QED
      BY ZenonT(60), <3>1, <3>2, CountType
  <2> QED
    BY <1>1, <2>1, <2>2, <2>3, <2>4, CopiesIs, PlacesStay, PlacesType
<1>4. CASE UNCHANGED <<buffer, waitingSenders, delivered, half>>
  BY <1>1, <1>4, CopiesIs, PlacesStay
<1> QED
  BY <1>2, <1>3, <1>4 DEF CoReceive, CanRendezvous, channelVars

LEMMA CoPushCopies ==
  ASSUME TypeOK, CoPush, NEW v
  PROVE  Copies(v)' = Copies(v)
<1>1. /\ half.todo = "push" /\ half.val \in 1..sent /\ half' = Nothing
      /\ buffer' = Append(buffer, half.val)
      /\ UNCHANGED <<waitingSenders, pc, arg, delivered, refused>>
  BY DEF CoPush, TypeOK, Nothing, threadVars, valueVars
<1>2. InHalf(v)' = 0 /\ InHalf(v) = IF half.val = v THEN 1 ELSE 0
  BY <1>1, SimplePlaces DEF Nothing
<1>3. InBuffer(v)' = InBuffer(v) + IF half.val = v THEN 1 ELSE 0
  BY <1>1, BufferChanges DEF TypeOK
<1> QED
  BY <1>1, <1>2, <1>3, CopiesIs, PlacesStay, PlacesType

LEMMA MovesInPlaces ==
  ASSUME TypeOK, TypeOK', MovesIn, NEW v
  PROVE  InBuffer(v)' + WaitsInChannel(v)' = InBuffer(v) + WaitsInChannel(v)
<1>1. CASE waitingSenders = <<>>
  BY <1>1, PlacesStay DEF MovesIn
<1>2. CASE waitingSenders # <<>>
  <2> DEFINE w == Head(waitingSenders).val
  <2>1. w \in 1..sent /\ buffer' = Append(buffer, w) /\ waitingSenders' = Tail(waitingSenders)
    BY <1>2, HeadTypes DEF MovesIn
  <2>2. InBuffer(v)' = InBuffer(v) + IF w = v THEN 1 ELSE 0
    BY <2>1, BufferChanges DEF TypeOK
  <2>3. WaitsInChannel(v) = WaitsInChannel(v)' + IF w = v THEN 1 ELSE 0
    BY <1>2, <2>1, WaitingChanges
  <2> QED
    BY <2>2, <2>3, PlacesType, PlacesTypeNext
<1> QED
  BY <1>1, <1>2

LEMMA RefillCopies ==
  ASSUME TypeOK, TypeOK', CoRefill, NEW v
  PROVE  Copies(v)' = Copies(v)
<1>1. InBuffer(v)' + WaitsInChannel(v)' = InBuffer(v) + WaitsInChannel(v)
  BY MovesInPlaces DEF CoRefill
<1>2. UNCHANGED <<delivered, refused, pc, arg>> /\ half.todo = "refill" /\ half' = Nothing
  BY DEF CoRefill, threadVars, valueVars
<1>3. InHalf(v) = 0 /\ InHalf(v)' = 0
  BY <1>2, SimplePlaces DEF Nothing
<1> QED
  BY <1>1, <1>2, <1>3, CopiesIs, PlacesStay, PlacesType, PlacesTypeNext

LEMMA SendFastCopies ==
  ASSUME TypeOK, NEW t \in Thread, SendFast(t), NEW v
  PROVE  Copies(v)' = Copies(v) + IF v = sent + 1 THEN 1 ELSE 0
<1> DEFINE w == sent + 1
           one == IF w = v THEN 1 ELSE 0
<1>1. /\ w \in Nat /\ w \in 1..w /\ buffer \in Seq(1..w) /\ w \notin refused
  <2>1. sent' = sent + 1
    BY DEF SendFast
  <2>2. w \notin refused
    BY DEF TypeOK
  <2> QED
    BY <2>1, <2>2, OfferGrows
<1>2. /\ half = Nothing /\ InHalf(v) = 0 /\ pc[t] = "idle"
      /\ UNCHANGED <<waitingSenders, delivered>>
  BY SimplePlaces DEF SendFast, Calls, Starts, MayStart, Nothing
<1>3. ~Sending(t) /\ \A u \in Thread \ {t} : pc'[u] = pc[u] /\ arg'[u] = arg[u]
  BY <1>2 DEF SendFast, Returns, GoesTo, TypeOK, Sending
<1>4. InHalf(v)' = 0
  BY <1>2, SimplePlaces DEF SendFast, Announce, Nothing
<1>5. \A u \in Thread \ {t} : (Sending(u)' /\ arg'[u] = v) <=> (Sending(u) /\ arg[u] = v)
  BY <1>3 DEF Sending
<1>6. CASE closed
  <2>1. UNCHANGED buffer /\ refused' = refused \cup {w} /\ pc'[t] = "idle"
    BY <1>6 DEF SendFast, Returns, TypeOK
  <2>2. IsRefused(v)' = IsRefused(v) + one
    BY <1>1, <2>1, SimplePlaces
  <2>3. WithThreads(v)' = WithThreads(v)
    BY <1>3, <1>5, <2>1, ThreadsStay DEF Sending
  <2> QED
    BY <1>2, <1>4, <2>1, <2>2, <2>3, CopiesIs, PlacesStay, PlacesType
<1>7. CASE ~closed /\ HasRoom
  <2>1. buffer' = Append(buffer, w) /\ refused' = refused /\ pc'[t] = "fast"
    BY <1>7 DEF SendFast, GoesTo, TypeOK
  <2>2. InBuffer(v)' = InBuffer(v) + one
    BY <1>1, <2>1, BufferChanges
  <2>3. WithThreads(v)' = WithThreads(v)
    BY <1>3, <1>5, <2>1, ThreadsStay DEF Sending
  <2> QED
    BY <1>2, <1>4, <2>1, <2>2, <2>3, CopiesIs, PlacesStay, PlacesType
<1>8. CASE ~closed /\ ~HasRoom
  <2>1. UNCHANGED <<buffer, refused>> /\ pc'[t] = "toSend" /\ arg'[t] = w
    BY <1>8 DEF SendFast, GoesTo, TypeOK
  <2>2. Sending(t)'
    BY <2>1 DEF Sending
  <2>3. WithThreads(v)' = WithThreads(v) + one
    BY <1>3, <1>5, <2>1, <2>2, ThreadJoins
  <2> QED
    BY <1>2, <1>4, <2>1, <2>3, CopiesIs, PlacesStay, PlacesType
<1> QED
  BY <1>6, <1>7, <1>8

LEMMA ReceiveFastCopies ==
  ASSUME TypeOK, TypeOK', NEW t \in Thread, ReceiveFast(t), NEW v
  PROVE  Copies(v)' = Copies(v)
<1>1. UNCHANGED <<waitingSenders, refused, arg, half>> /\ pc[t] = "idle"
  BY DEF ReceiveFast, Calls
<1>2. MovesOnly(t) /\ pc'[t] \in {"idle", "toReceive"}
  BY ReceiveFastMoves
<1>3. \A u \in Thread : Sending(u)' <=> Sending(u)
  BY <1>1, <1>2 DEF MovesOnly, Wakes, Sending
<1>4. WithThreads(v)' = WithThreads(v)
  BY <1>1, <1>3, ThreadsStay
<1>5. CASE buffer # <<>>
  <2>1. Deliver(Head(buffer)) /\ buffer' = Tail(buffer) /\ Head(buffer) \in 1..sent
    BY <1>5, HeadTypes DEF ReceiveFast
  <2>2. IsDelivered(v)' = IsDelivered(v) + IF Head(buffer) = v THEN 1 ELSE 0
    BY <2>1, DeliveredChanges DEF TypeOK
  <2>3. InBuffer(v) = InBuffer(v)' + IF Head(buffer) = v THEN 1 ELSE 0
    BY <1>5, <2>1, BufferChanges
  <2> QED
    BY <1>1, <1>4, <2>2, <2>3, CopiesIs, PlacesStay, PlacesType, PlacesTypeNext
<1>6. CASE buffer = <<>>
  <2>1. UNCHANGED <<buffer, delivered>>
    BY <1>6 DEF ReceiveFast
  <2> QED
    BY <1>1, <1>4, <2>1, CopiesIs, PlacesStay
<1> QED
  BY <1>5, <1>6

(* The steps that hand no value on leave every place as it is.             *)
LEMMA AnnounceCopies ==
  ASSUME TypeOK, ControlInv, SendAnnounces, NEW v
  PROVE  Copies(v)' = Copies(v)
<1>1. /\ UNCHANGED <<buffer, waitingSenders, delivered, refused>>
      /\ half.todo = "announce" /\ half' = Nothing
  BY DEF SendAnnounces, valueVars
<1>2. InHalf(v) = 0 /\ InHalf(v)' = 0
  BY <1>1, SimplePlaces DEF Nothing
<1>3. PICK t \in Thread : /\ pc[t] = "fast" /\ UNCHANGED <<arg, sent>>
                         /\ MovesOnly(t) /\ pc'[t] = "idle"
  BY HalvesMove
<1>4. \A u \in Thread \ {t} : Sending(u)' <=> Sending(u)
  BY <1>3, OthersKeepControl
<1>5. ~Sending(t) /\ ~Sending(t)'
  BY <1>3 DEF Sending
<1>6. WithThreads(v)' = WithThreads(v)
  BY <1>3, <1>4, <1>5, ThreadsStay
<1> QED
  BY <1>1, <1>2, <1>6, CopiesIs, PlacesStay

LEMMA CloseCopies ==
  ASSUME TypeOK, NEW t \in Thread, Close(t), NEW v
  PROVE  Copies(v)' = Copies(v)
<1>1. /\ half = Nothing /\ pc[t] = "idle" /\ (half' = Nothing \/ half' = Release(t))
      /\ UNCHANGED <<buffer, waitingSenders, delivered, refused, arg>>
  BY DEF Close, Calls, Starts, MayStart, valueVars
<1>2. InHalf(v) = 0 /\ InHalf(v)' = 0
  BY <1>1, SimplePlaces DEF Nothing, Release
<1>3. pc'[t] \in {"idle", "fast"} /\ \A u \in Thread \ {t} : pc'[u] = pc[u]
  BY DEF Close, Returns, GoesTo, TypeOK
<1>4. WithThreads(v)' = WithThreads(v)
  BY <1>1, <1>3, ThreadsStay DEF Sending
<1> QED
  BY <1>1, <1>2, <1>4, CopiesIs, PlacesStay

(* A close refuses what waits in the channel.                              *)
LEMMA ReleaseCopies ==
  ASSUME TypeOK, ControlInv, CloseReleases, NEW v, Copies(v) = 1
  PROVE  Copies(v)' = 1
<1>1. /\ UNCHANGED <<buffer, delivered>> /\ half.todo = "release" /\ half' = Nothing
      /\ waitingSenders' = <<>>
      /\ refused' = refused \cup {waitingSenders[i].val : i \in DOMAIN waitingSenders}
  BY DEF CloseReleases
<1>2. InHalf(v) = 0 /\ InHalf(v)' = 0
  BY <1>1, SimplePlaces DEF Nothing
<1>3. PICK t \in Thread : /\ pc[t] = "fast" /\ UNCHANGED <<arg, sent>>
                         /\ MovesOnly(t) /\ pc'[t] = "idle"
  BY HalvesMove
<1>4. \A u \in Thread \ {t} : Sending(u)' <=> Sending(u)
  BY <1>3, OthersKeepControl
<1>5. ~Sending(t) /\ ~Sending(t)'
  BY <1>3 DEF Sending
<1>6. WithThreads(v)' = WithThreads(v)
  BY <1>3, <1>4, <1>5, ThreadsStay
<1>7. WaitsInChannel(v)' = 0
  <2>1. {i \in DOMAIN waitingSenders' : waitingSenders'[i].val = v} = {}
    BY <1>1
  <2> QED
    BY <2>1, FS_EmptySet DEF WaitsInChannel
<1>8. WaitsInChannel(v) = 0 <=> v \notin {waitingSenders[i].val : i \in DOMAIN waitingSenders}
  <2> DEFINE A == {i \in DOMAIN waitingSenders : waitingSenders[i].val = v}
  <2>1. IsFiniteSet(A)
    <3>1. Len(waitingSenders) \in Nat /\ DOMAIN waitingSenders = 1..Len(waitingSenders)
      BY LenProperties DEF TypeOK
    <3>2. A \in SUBSET (1..Len(waitingSenders))
      BY <3>1
    <3>3. IsFiniteSet(1..Len(waitingSenders))
      BY <3>1, FS_Interval
    <3> QED
      BY <3>2, <3>3, FS_Subset
  <2>2. WaitsInChannel(v) = 0 <=> A = {}
    BY <2>1, FS_EmptySet DEF WaitsInChannel
  <2> QED
    BY <2>2
<1>9. CASE WaitsInChannel(v) = 0
  <2>1. IsRefused(v)' = IsRefused(v)
    BY <1>1, <1>8, <1>9, SimplePlaces
  <2> QED
    BY <1>1, <1>2, <1>6, <1>7, <1>9, <2>1, CopiesIs, PlacesStay, PlacesType
<1>10. CASE WaitsInChannel(v) # 0
  <2>1. IsRefused(v)' = 1
    BY <1>1, <1>8, <1>10, SimplePlaces
  <2>2. InBuffer(v) = 0 /\ IsDelivered(v) = 0 /\ WithThreads(v) = 0
    BY <1>10, CopiesIs, PlacesType
  <2> QED
    BY <1>1, <1>2, <1>6, <1>7, <2>1, <2>2, CopiesIs, PlacesStay
<1> QED
  BY <1>9, <1>10

LEMMA BlockingCopies ==
  ASSUME TypeOK, TypeOK', ControlInv, NEW t \in Thread,
         \/ Lock(t) \/ Test(t) \/ Sleep(t) \/ WakeByItself(t)
         \/ CheckClosed(t) \/ Push(t) \/ Pop(t),
         NEW v, Copies(v) = 1
  PROVE  Copies(v)' = 1
<1>1. UNCHANGED <<half, arg, sent>> /\ MovesOnly(t)
  BY BlockingMoves
<1>2. \A u \in Thread \ {t} : (Sending(u)' /\ arg'[u] = v) <=> (Sending(u) /\ arg[u] = v)
  BY <1>1, OthersKeepControl
<1>3. CASE Lock(t) \/ Test(t) \/ Sleep(t) \/ WakeByItself(t)
  <2>1. UNCHANGED <<buffer, waitingSenders, delivered, refused>>
    BY <1>3 DEF Lock, Test, Sleep, WakeByItself, channelVars, valueVars
  <2>2. WithThreads(v)' = WithThreads(v)
    BY <1>1, <1>2, <1>3, BlockingMoves, ThreadsStay
  <2> QED
    BY <1>1, <2>1, <2>2, CopiesIs, PlacesStay
<1>4. CASE CheckClosed(t)
  <2>1. UNCHANGED <<buffer, waitingSenders, delivered>> /\ Sending(t)
    BY <1>4 DEF CheckClosed, channelVars, Sending
  <2>2. CASE closed
    <3>1. refused' = refused \cup {arg[t]} /\ pc'[t] = "idle"
      BY <1>4, <2>2 DEF CheckClosed, Returns, TypeOK
    <3>2. WithThreads(v) = WithThreads(v)' + IF arg[t] = v THEN 1 ELSE 0
      BY <1>2, <2>1, <3>1, ThreadLeaves DEF Sending
    <3>3. CASE arg[t] = v
      <4>1. IsRefused(v)' = 1 /\ WithThreads(v) = WithThreads(v)' + 1
        BY <3>1, <3>2, <3>3, SimplePlaces
      <4>2. InBuffer(v) = 0 /\ IsDelivered(v) = 0 /\ WaitsInChannel(v) = 0 /\ InHalf(v) = 0
            /\ WithThreads(v)' = 0
        BY <4>1, CopiesIs, PlacesType, PlacesTypeNext
      <4> QED
        BY <1>1, <2>1, <4>1, <4>2, CopiesIs, PlacesStay
    <3>4. CASE arg[t] # v
      <4>1. IsRefused(v)' = IsRefused(v) /\ WithThreads(v)' = WithThreads(v)
        BY <3>1, <3>2, <3>4, SimplePlaces, ThreadsWithFinite
      <4> QED
        BY <1>1, <2>1, <4>1, CopiesIs, PlacesStay
    <3> QED
      BY <3>3, <3>4
  <2>3. CASE ~closed
    <3>1. refused' = refused /\ pc'[t] = "push"
      BY <1>4, <2>3 DEF CheckClosed, GoesTo, TypeOK
    <3>2. WithThreads(v)' = WithThreads(v)
      BY <1>1, <1>2, <2>1, <3>1, ThreadsStay DEF Sending
    <3> QED
      BY <1>1, <2>1, <3>1, <3>2, CopiesIs, PlacesStay
  <2> QED
    BY <2>2, <2>3
<1>5. CASE Push(t)
  <2>1. /\ buffer' = Append(buffer, arg[t]) /\ arg[t] \in 1..sent /\ Sending(t)
        /\ UNCHANGED <<waitingSenders, delivered, refused>>
    BY <1>5 DEF Push, valueVars, ControlInv, SendersCarry, Sending
  <2>2. ~Sending(t)'
    BY <1>5, BlockingMoves DEF Sending
  <2>3. WithThreads(v) = WithThreads(v)' + IF arg[t] = v THEN 1 ELSE 0
    BY <1>2, <2>1, <2>2, ThreadLeaves
  <2>4. InBuffer(v)' = InBuffer(v) + IF arg[t] = v THEN 1 ELSE 0
    BY <2>1, BufferChanges DEF TypeOK
  <2> QED
    BY SMTT(60), <1>1, <2>1, <2>3, <2>4, CopiesIs, PlacesStay, PlacesType, PlacesTypeNext
<1>6. CASE Pop(t)
  <2>1. UNCHANGED <<waitingSenders, refused>> /\ ~Sending(t)
    BY <1>6 DEF Pop, Sending
  <2>2. ~Sending(t)'
    BY <1>6, BlockingMoves DEF Sending
  <2>3. WithThreads(v)' = WithThreads(v)
    BY <1>2, <2>1, <2>2, ThreadsStay
  <2>4. CASE buffer = <<>>
    <3>1. UNCHANGED <<buffer, delivered>>
      BY <1>6, <2>4 DEF Pop
    <3> QED
      BY <1>1, <2>1, <2>3, <3>1, CopiesIs, PlacesStay
  <2>5. CASE buffer # <<>>
    <3>1. Deliver(Head(buffer)) /\ buffer' = Tail(buffer) /\ Head(buffer) \in 1..sent
      BY <1>6, <2>5, HeadTypes DEF Pop
    <3>2. IsDelivered(v)' = IsDelivered(v) + IF Head(buffer) = v THEN 1 ELSE 0
      BY <3>1, DeliveredChanges DEF TypeOK
    <3>3. InBuffer(v) = InBuffer(v)' + IF Head(buffer) = v THEN 1 ELSE 0
      BY <2>5, <3>1, BufferChanges
    <3> QED
      BY <1>1, <2>1, <2>3, <3>2, <3>3, CopiesIs, PlacesStay, PlacesType, PlacesTypeNext
  <2> QED
    BY <2>4, <2>5
<1> QED
  BY <1>3, <1>4, <1>5, <1>6

LEMMA CopiesStep ==
  ASSUME TypeOK, TypeOK', ControlInv, NothingLostOrDuplicated, [Next]_vars
  PROVE  NothingLostOrDuplicated'
<1> SUFFICES ASSUME ~aborted'
             PROVE  \A v \in 1..sent' : Copies(v)' = 1
  BY DEF NothingLostOrDuplicated
<1>0. ~aborted
  <2> SUFFICES ASSUME aborted PROVE aborted'
    OBVIOUS
  <2>1. UNCHANGED vars
    BY DEF Next, CoroutineStep, ThreadStep, Over, Collide, CoSend, CoReceive, CoPush, CoRefill,
           SendFast, ReceiveFast, ReceiveAborts, Close, SendAnnounces, CloseReleases, Calls,
           Executes, Starts, MayStart, Lock, Test, Sleep, WakeByItself, CheckClosed, Push, Pop,
           Continues
  <2> QED
    BY <2>1 DEF vars
<1>1. \A v \in 1..sent : Copies(v) = 1
  BY <1>0 DEF NothingLostOrDuplicated
<1>2. ASSUME sent' = sent + 1, \A v : Copies(v)' = Copies(v) + IF v = sent + 1 THEN 1 ELSE 0
      PROVE  \A v \in 1..sent' : Copies(v)' = 1
  <2>0. sent \in Nat
    BY DEF TypeOK
  <2>1. Copies(sent + 1) = 0
    BY <2>0, FreshIsNowhere DEF ControlInv
  <2>2. \A v \in 1..(sent + 1) : v \in 1..sent \/ v = sent + 1
    BY <2>0
  <2> SUFFICES ASSUME NEW v \in 1..(sent + 1)
               PROVE  Copies(v)' = 1
    BY <1>2
  <2>3. CASE v \in 1..sent
    <3>1. v # sent + 1
      BY <2>3 DEF TypeOK
    <3> QED
      BY <1>1, <1>2, <2>3, <3>1
  <2>4. CASE v = sent + 1
    BY <1>2, <2>1, <2>4
  <2> QED
    BY <2>2, <2>3, <2>4
<1>3. ASSUME UNCHANGED sent, \A v \in 1..sent : Copies(v)' = 1
      PROVE  \A v \in 1..sent' : Copies(v)' = 1
  BY <1>3
<1>4. ASSUME NEW c \in Coroutine, CoSend(c)
      PROVE  \A v \in 1..sent' : Copies(v)' = 1
  BY <1>2, <1>4, CoSendCopies DEF CoSend
<1>5. ASSUME NEW c \in Coroutine, CoReceive(c)
      PROVE  \A v \in 1..sent' : Copies(v)' = 1
  BY <1>1, <1>3, <1>5, CoReceiveCopies DEF CoReceive
<1>6. CASE CoPush
  BY <1>1, <1>3, <1>6, CoPushCopies DEF CoPush, valueVars
<1>7. CASE CoRefill
  BY <1>1, <1>3, <1>7, RefillCopies DEF CoRefill, valueVars
<1>8. ASSUME NEW t \in Thread, SendFast(t)
      PROVE  \A v \in 1..sent' : Copies(v)' = 1
  BY <1>2, <1>8, SendFastCopies DEF SendFast
<1>9. ASSUME NEW t \in Thread, ReceiveFast(t)
      PROVE  \A v \in 1..sent' : Copies(v)' = 1
  BY <1>1, <1>3, <1>9, ReceiveFastCopies DEF ReceiveFast
<1>10. CASE SendAnnounces
  BY <1>1, <1>3, <1>10, AnnounceCopies DEF SendAnnounces, valueVars
<1>11. ASSUME NEW t \in Thread, Close(t)
       PROVE  \A v \in 1..sent' : Copies(v)' = 1
  BY <1>1, <1>3, <1>11, CloseCopies DEF Close, valueVars
<1>12. CASE CloseReleases
  BY <1>1, <1>3, <1>12, ReleaseCopies DEF CloseReleases
<1>13. ASSUME NEW t \in Thread, \/ Lock(t) \/ Test(t) \/ Sleep(t) \/ WakeByItself(t)
                                \/ CheckClosed(t) \/ Push(t) \/ Pop(t)
       PROVE  \A v \in 1..sent' : Copies(v)' = 1
  BY <1>1, <1>3, <1>13, BlockingCopies, BlockingMoves
<1>14. CASE UNCHANGED vars
  <2>1. UNCHANGED <<buffer, delivered, waitingSenders, pc, arg, half, refused, sent>>
    BY <1>14 DEF vars, channelVars, threadVars, valueVars
  <2>2. \A v : Copies(v)' = Copies(v)
    BY <2>1, CopiesIs, PlacesStay
  <2> QED
    BY <1>1, <1>3, <2>1, <2>2
<1> QED
  BY <1>4, <1>5, <1>6, <1>7, <1>8, <1>9, <1>10, <1>11, <1>12, <1>13, <1>14
     DEF Next, CoroutineStep, ThreadStep, Over, Collide, ReceiveAborts

-----------------------------------------------------------------------------
LEMMA InitInv == Init => Inv
<1> SUFFICES ASSUME Init PROVE Inv
  OBVIOUS
<1>1. ControlInv
  BY ThreadsAssumption
     DEF Init, ControlInv, SendersCarry, HalfIsFast, MutexExcludes, Inside, Sending, Nothing
<1>2. ~VmHolds /\ ~SomePromise /\ Len(buffer) = 0
  BY DEF Init, VmHolds, SomePromise, Promised, Nothing
<1>3. Reserved = 0
  BY <1>2 DEF Reserved, SomePromise
<1>4. RoomIsReserved
  BY <1>2, <1>3, ThreadsAssumption DEF RoomIsReserved
<1>5. PartnersMeet /\ NothingLostOrDuplicated
  BY DEF Init, PartnersMeet, NothingLostOrDuplicated
<1> QED
  BY <1>1, <1>4, <1>5, InitType DEF Inv, ControlInv

LEMMA InvStep == Inv /\ [Next]_vars => Inv'
<1> SUFFICES ASSUME Inv, [Next]_vars PROVE Inv'
  OBVIOUS
<1>1. TypeOK' /\ ControlInv'
  BY TypeStep, ControlStep DEF Inv, ControlInv
<1>2. RoomIsReserved'
  BY <1>1, RoomStep DEF Inv, ControlInv
<1>3. PartnersMeet'
  BY PartnersStep DEF Inv
<1>4. NothingLostOrDuplicated'
  BY <1>1, CopiesStep DEF Inv, ControlInv
<1> QED
  BY <1>1, <1>2, <1>3, <1>4 DEF Inv, ControlInv

LEMMA Invariance == Spec => []Inv
  BY InitInv, InvStep, PTL DEF Spec

(* Every variable keeps its range, under both locks.                       *)
THEOREM TypeCorrect == Spec => []TypeOK
  BY Invariance, PTL DEF Inv

(* No two coroutines wait for each other in the channel.                   *)
THEOREM PartnersAlwaysMeet == Spec => []PartnersMeet
  BY Invariance, PTL DEF Inv

(* A free place is promised at most once under each lock, so that whatever *)
(* the number of threads the buffer exceeds its capacity by one at most,   *)
(* and an unbuffered channel never holds a value.                          *)
THEOREM AtMostOneOverAlways == Spec => []AtMostOneOver
<1>1. Inv => AtMostOneOver
  <2> SUFFICES ASSUME Inv PROVE AtMostOneOver
    OBVIOUS
  <2>1. Len(buffer) \in Nat /\ Reserved \in {0, 1, 2} /\ Capacity \in Nat
    BY BufferLength, ThreadsAssumption DEF Inv, Reserved
  <2> QED
    BY <2>1 DEF Inv, RoomIsReserved, AtMostOneOver
<1> QED
  BY <1>1, Invariance, PTL

(* As long as the process lives, every value offered is in one place,      *)
(* whatever the two locks let meet.                                        *)
THEOREM NothingIsEverLostOrDuplicated == Spec => []NothingLostOrDuplicated
  BY Invariance, PTL DEF Inv
=============================================================================
