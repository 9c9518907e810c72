---------------------------- MODULE ThreadChannel ----------------------------
(***************************************************************************)
(* One channel used by coroutines (SEND and RECEIVE) and by threads of the *)
(* embedding program (msChannelSend, msChannelRecv, msChannelClose).       *)
(*                                                                         *)
(* Everything but the waiting of threads happens under the VM mutex; the   *)
(* waiting of threads happens under the channel's sync_mutex.  Neither     *)
(* lock excludes the other, so a critical section of the VM mutex is split *)
(* between its two uses of the buffer: `half` is what remains to be done,  *)
(* and the VM mutex is free when nothing remains.                          *)
(*                                                                         *)
(* One use of the buffer (one RefCell borrow) is taken to be indivisible.  *)
(* Two of them that meet panic, across an extern "C" function, which ends  *)
(* the process: under different locks (Collide), or in one function        *)
(* (ReceiveAborts).                                                        *)
(***************************************************************************)
EXTENDS Integers, Sequences, FiniteSets, Functions

CONSTANTS
  Thread,     \* threads of the embedding program
  Coroutine,  \* coroutines of the program
  Capacity,   \* of the channel
  MaxCalls    \* bound: operations one thread or coroutine may start

Nobody == 0

ASSUME ThreadsAssumption ==
  /\ Capacity \in Nat /\ MaxCalls \in Nat
  /\ IsFiniteSet(Thread) /\ Nobody \notin Thread /\ Thread \cap Coroutine = {}

VARIABLES
  buffer, closed, waitingSenders, waitingReceivers,
  half,       \* the second half of the critical section that holds the VM mutex
  mutex,      \* who holds sync_mutex
  pc, arg,    \* per thread: where it is, the value it sends
  result,     \* per thread: what its last call returned
  co,         \* per coroutine: running, waiting, or how it was resumed
  calls,      \* operations started
  sent,       \* number of values offered
  delivered,  \* values handed to a receiver, in order
  refused,    \* values whose sending failed
  aborted     \* two borrows of one RefCell met: the process panicked

channelVars == <<buffer, closed, waitingSenders, waitingReceivers>>
threadVars == <<mutex, pc, arg, result>>
valueVars == <<sent, delivered, refused>>
vars == <<channelVars, half, threadVars, co, calls, valueVars, aborted>>

Nothing == [todo |-> "nothing"]
PushFor(c, v) == [todo |-> "push", by |-> c, val |-> v]
RefillFor(c)  == [todo |-> "refill", by |-> c]
Announce(t)   == [todo |-> "announce", by |-> t]
Release(t)    == [todo |-> "release", by |-> t]

Steps == {"idle", "fast", "toSend", "toReceive", "testSend", "testReceive", "sleepSend",
          "sleepReceive", "waitSend", "waitReceive", "check", "push", "pop"}
(* How a coroutine goes on: running, waiting in the channel, or resumed    *)
(* with a value stack its instruction does not leave behind.               *)
Resumed == {"noValue", "sentToClosed"}

TypeOK ==
  /\ buffer \in Seq(1..sent) /\ closed \in BOOLEAN
  /\ waitingSenders \in Seq([co : Coroutine, val : 1..sent])
  /\ waitingReceivers \in Seq(Coroutine)
  /\ half \in {Nothing} \cup [todo : {"push"}, by : Coroutine, val : 1..sent]
                \cup [todo : {"refill"}, by : Coroutine]
                \cup [todo : {"announce", "release"}, by : Thread]
  /\ mutex \in Thread \cup {Nobody}
  /\ pc \in [Thread -> Steps] /\ arg \in [Thread -> 0..sent]
  /\ result \in [Thread -> {"none", "ok", "error", "value", "nil"}]
  /\ co \in [Coroutine -> {"running", "sending", "receiving"} \cup Resumed]
  /\ calls \in [Thread \cup Coroutine -> 0..MaxCalls]
  /\ sent \in Nat /\ delivered \in Seq(1..sent) /\ refused \subseteq 1..sent
  /\ aborted \in BOOLEAN

Init ==
  /\ buffer = <<>> /\ closed = FALSE /\ waitingSenders = <<>> /\ waitingReceivers = <<>>
  /\ half = Nothing /\ mutex = Nobody
  /\ pc = [t \in Thread |-> "idle"] /\ arg = [t \in Thread |-> 0]
  /\ result = [t \in Thread |-> "none"]
  /\ co = [c \in Coroutine |-> "running"]
  /\ calls = [x \in Thread \cup Coroutine |-> 0]
  /\ sent = 0 /\ delivered = <<>> /\ refused = {} /\ aborted = FALSE

HasRoom == Len(buffer) < Capacity

(* x starts an operation, which needs the VM mutex.                        *)
MayStart(x) == ~aborted /\ half = Nothing /\ calls[x] < MaxCalls
Starts(x) ==
  /\ MayStart(x)
  /\ calls' = [calls EXCEPT ![x] = @ + 1]
  /\ UNCHANGED aborted
Calls(t) == Starts(t) /\ pc[t] = "idle"
Executes(c) == Starts(c) /\ co[c] = "running"

Continues == ~aborted /\ UNCHANGED <<calls, aborted>>

Returns(t, r) == result' = [result EXCEPT ![t] = r] /\ pc' = [pc EXCEPT ![t] = "idle"]
GoesTo(t, step) == pc' = [pc EXCEPT ![t] = step] /\ UNCHANGED result

Deliver(v) == delivered' = Append(delivered, v)

-----------------------------------------------------------------------------
(* Coroutines: SEND and RECEIVE.                                           *)
CoSend(c) ==
  /\ Executes(c)
  /\ LET v == sent + 1
     IN  /\ sent' = v
         /\ \/ /\ closed
               /\ refused' = refused \cup {v}
               /\ UNCHANGED <<channelVars, half, co, delivered>>
            \/ /\ ~closed /\ waitingReceivers # <<>>
               /\ co' = [co EXCEPT ![Head(waitingReceivers)] = "running"]
               /\ waitingReceivers' = Tail(waitingReceivers)
               /\ Deliver(v)
               /\ UNCHANGED <<buffer, closed, waitingSenders, half, refused>>
            \/ /\ ~closed /\ waitingReceivers = <<>> /\ HasRoom
               /\ half' = PushFor(c, v)
               /\ UNCHANGED <<channelVars, co, delivered, refused>>
            \/ /\ ~closed /\ waitingReceivers = <<>> /\ ~HasRoom
               /\ waitingSenders' = Append(waitingSenders, [co |-> c, val |-> v])
               /\ co' = [co EXCEPT ![c] = "sending"]
               /\ UNCHANGED <<buffer, closed, waitingReceivers, half, delivered, refused>>
  /\ UNCHANGED threadVars

CoPush ==
  /\ Continues /\ half.todo = "push"
  /\ buffer' = Append(buffer, half.val) /\ half' = Nothing
  /\ UNCHANGED <<closed, waitingSenders, waitingReceivers, threadVars, co, valueVars>>

CanRendezvous_Unbuffered == Capacity = 0 /\ buffer = <<>> /\ waitingSenders # <<>>
CanRendezvous == buffer = <<>> /\ waitingSenders # <<>>

CoReceive(c) ==
  /\ Executes(c)
  /\ \/ /\ buffer # <<>>
        /\ Deliver(Head(buffer)) /\ buffer' = Tail(buffer) /\ half' = RefillFor(c)
        /\ UNCHANGED <<closed, waitingSenders, waitingReceivers, co>>
     \/ /\ CanRendezvous
        /\ Deliver(Head(waitingSenders).val)
        /\ co' = [co EXCEPT ![Head(waitingSenders).co] = "running"]
        /\ waitingSenders' = Tail(waitingSenders)
        /\ UNCHANGED <<buffer, closed, waitingReceivers, half>>
     \/ /\ buffer = <<>> /\ ~CanRendezvous /\ closed
        /\ UNCHANGED <<channelVars, half, co, delivered>>
     \/ /\ buffer = <<>> /\ ~CanRendezvous /\ ~closed
        /\ waitingReceivers' = Append(waitingReceivers, c)
        /\ co' = [co EXCEPT ![c] = "receiving"]
        /\ UNCHANGED <<buffer, closed, waitingSenders, half, delivered>>
  /\ UNCHANGED <<threadVars, sent, refused>>

(* The sender that waits longest gets the place of the value that was      *)
(* taken, and goes on.                                                     *)
MovesIn_Copies ==
  IF waitingSenders = <<>> THEN UNCHANGED <<buffer, waitingSenders, co>>
  ELSE /\ buffer' = Append(buffer, Head(waitingSenders).val)
       /\ co' = [co EXCEPT ![Head(waitingSenders).co] = "running"]
       /\ UNCHANGED waitingSenders
MovesIn ==
  IF waitingSenders = <<>> THEN UNCHANGED <<buffer, waitingSenders, co>>
  ELSE /\ buffer' = Append(buffer, Head(waitingSenders).val)
       /\ co' = [co EXCEPT ![Head(waitingSenders).co] = "running"]
       /\ waitingSenders' = Tail(waitingSenders)

CoRefill ==
  /\ Continues /\ half.todo = "refill"
  /\ MovesIn /\ half' = Nothing
  /\ UNCHANGED <<closed, waitingReceivers, threadVars, valueVars>>

-----------------------------------------------------------------------------
(* Threads, under the VM mutex.                                            *)
(* t returns r after notify_one: some thread that waits at that condition   *)
(* variable, if there is one, competes for sync_mutex again.               *)
ReturnsAndNotifies(t, r, waiting, next) ==
  LET asleep == {u \in Thread : pc[u] = waiting}
  IN  /\ result' = [result EXCEPT ![t] = r]
      /\ IF asleep = {} THEN pc' = [pc EXCEPT ![t] = "idle"]
         ELSE \E u \in asleep : pc' = [pc EXCEPT ![t] = "idle", ![u] = next]

SendFast(t) ==
  /\ Calls(t)
  /\ LET v == sent + 1
     IN  /\ sent' = v
         /\ \/ /\ closed
               /\ refused' = refused \cup {v} /\ Returns(t, "error")
               /\ UNCHANGED <<buffer, half, arg>>
            \/ /\ ~closed /\ HasRoom
               /\ buffer' = Append(buffer, v) /\ half' = Announce(t) /\ GoesTo(t, "fast")
               /\ UNCHANGED <<refused, arg>>
            \/ /\ ~closed /\ ~HasRoom
               /\ arg' = [arg EXCEPT ![t] = v] /\ GoesTo(t, "toSend")
               /\ UNCHANGED <<buffer, half, refused>>
  /\ UNCHANGED <<closed, waitingSenders, waitingReceivers, mutex, co, delivered>>

(* A coroutine that waits to receive becomes ready, without the value.     *)
SendAnnounces ==
  /\ Continues /\ half.todo = "announce" /\ half' = Nothing
  /\ IF waitingReceivers = <<>> THEN UNCHANGED <<waitingReceivers, co>>
     ELSE /\ co' = [co EXCEPT ![Head(waitingReceivers)] = "noValue"]
          /\ waitingReceivers' = Tail(waitingReceivers)
  /\ ReturnsAndNotifies(half.by, "ok", "waitReceive", "toReceive")
  /\ UNCHANGED <<buffer, closed, waitingSenders, mutex, arg, valueVars>>

(* The buffer stays borrowed until msChannelRecv has returned.             *)
ReceiveFast(t) ==
  /\ Calls(t)
  /\ \/ /\ buffer # <<>> /\ waitingSenders = <<>>
        /\ Deliver(Head(buffer)) /\ buffer' = Tail(buffer)
        /\ ReturnsAndNotifies(t, "value", "waitSend", "toSend")
     \/ buffer = <<>> /\ closed /\ Returns(t, "nil") /\ UNCHANGED <<buffer, delivered>>
     \/ buffer = <<>> /\ ~closed /\ GoesTo(t, "toReceive") /\ UNCHANGED <<buffer, delivered>>
  /\ UNCHANGED <<closed, waitingSenders, waitingReceivers, half, mutex, arg, co, sent, refused>>

(* So that with a coroutine that waits to send, the second borrow, for the *)
(* value of that sender, panics when both values have been taken.          *)
ReceiveAborts(t) ==
  /\ MayStart(t) /\ pc[t] = "idle" /\ buffer # <<>> /\ waitingSenders # <<>>
  /\ buffer' = Tail(buffer) /\ waitingSenders' = Tail(waitingSenders)
  /\ aborted' = TRUE
  /\ UNCHANGED <<closed, waitingReceivers, half, threadVars, co, calls, valueVars>>

Close(t) ==
  /\ Calls(t)
  /\ IF closed THEN Returns(t, "ok") /\ UNCHANGED <<closed, half>>
     ELSE closed' = TRUE /\ half' = Release(t) /\ GoesTo(t, "fast")
  /\ UNCHANGED <<buffer, waitingSenders, waitingReceivers, mutex, arg, co, valueVars>>

(* Every waiting coroutine becomes ready: receivers without a value,       *)
(* senders with their value where SEND leaves nil.  Then notify_all.       *)
CloseReleases ==
  /\ Continues /\ half.todo = "release" /\ half' = Nothing
  /\ waitingSenders' = <<>> /\ waitingReceivers' = <<>>
  /\ co' = [c \in Coroutine |-> CASE co[c] = "receiving" -> "noValue"
                                  [] co[c] = "sending"   -> "sentToClosed"
                                  [] OTHER               -> co[c]]
  /\ refused' = refused \cup {waitingSenders[i].val : i \in DOMAIN waitingSenders}
  /\ result' = [result EXCEPT ![half.by] = "ok"]
  /\ pc' = [t \in Thread |-> CASE t = half.by           -> "idle"
                               [] pc[t] = "waitSend"    -> "toSend"
                               [] pc[t] = "waitReceive" -> "toReceive"
                               [] OTHER                 -> pc[t]]
  /\ UNCHANGED <<buffer, closed, mutex, arg, sent, delivered>>

-----------------------------------------------------------------------------
(* Threads, under sync_mutex: send_blocking and recv_blocking.             *)
Lock_Shared(t) ==
  /\ Continues /\ pc[t] \in {"toSend", "toReceive"}
  /\ mutex' = t /\ GoesTo(t, IF pc[t] = "toSend" THEN "testSend" ELSE "testReceive")
  /\ UNCHANGED <<channelVars, half, arg, co, valueVars>>
Lock(t) ==
  /\ Continues /\ pc[t] \in {"toSend", "toReceive"} /\ mutex = Nobody
  /\ mutex' = t /\ GoesTo(t, IF pc[t] = "toSend" THEN "testSend" ELSE "testReceive")
  /\ UNCHANGED <<channelVars, half, arg, co, valueVars>>

Test(t) ==
  /\ Continues /\ pc[t] \in {"testSend", "testReceive"}
  /\ GoesTo(t, IF pc[t] = "testSend"
                 THEN IF ~HasRoom /\ ~closed THEN "sleepSend" ELSE "check"
                 ELSE IF buffer = <<>> /\ ~closed THEN "sleepReceive" ELSE "pop")
  /\ UNCHANGED <<channelVars, half, mutex, arg, co, valueVars>>

(* Condvar::wait releases the mutex and waits, in one step; it may return  *)
(* for no reason.                                                          *)
Sleep(t) ==
  /\ Continues /\ pc[t] \in {"sleepSend", "sleepReceive"}
  /\ mutex' = Nobody
  /\ GoesTo(t, IF pc[t] = "sleepSend" THEN "waitSend" ELSE "waitReceive")
  /\ UNCHANGED <<channelVars, half, arg, co, valueVars>>
WakeByItself(t) ==
  /\ Continues /\ pc[t] \in {"waitSend", "waitReceive"}
  /\ GoesTo(t, IF pc[t] = "waitSend" THEN "toSend" ELSE "toReceive")
  /\ UNCHANGED <<channelVars, half, mutex, arg, co, valueVars>>

CheckClosed(t) ==
  /\ Continues /\ pc[t] = "check"
  /\ IF closed
       THEN /\ Returns(t, "error") /\ mutex' = Nobody
            /\ refused' = refused \cup {arg[t]}
       ELSE GoesTo(t, "push") /\ UNCHANGED <<mutex, refused>>
  /\ UNCHANGED <<channelVars, half, arg, co, sent, delivered>>

Push(t) ==
  /\ Continues /\ pc[t] = "push"
  /\ buffer' = Append(buffer, arg[t]) /\ mutex' = Nobody
  /\ ReturnsAndNotifies(t, "ok", "waitReceive", "toReceive")
  /\ UNCHANGED <<closed, waitingSenders, waitingReceivers, half, arg, co, valueVars>>

Pop(t) ==
  /\ Continues /\ pc[t] = "pop" /\ mutex' = Nobody
  /\ IF buffer = <<>> THEN Returns(t, "nil") /\ UNCHANGED <<buffer, delivered>>
     ELSE /\ Deliver(Head(buffer)) /\ buffer' = Tail(buffer)
          /\ ReturnsAndNotifies(t, "value", "waitSend", "toSend")
  /\ UNCHANGED <<closed, waitingSenders, waitingReceivers, half, arg, co, sent, refused>>

(* A thread that uses the buffer under sync_mutex meets one that uses it   *)
(* under the VM mutex: the RefCell's borrow flag may be found set, which   *)
(* panics across an extern "C" function and ends the process.              *)
Collide ==
  /\ ~aborted /\ aborted' = TRUE
  /\ \E t \in Thread : pc[t] \in {"testSend", "testReceive", "push", "pop"}
  /\ \/ half.todo \in {"push", "refill"}
     \/ /\ half = Nothing
        /\ \/ \E u \in Thread : pc[u] = "idle" /\ calls[u] < MaxCalls
           \/ \E c \in Coroutine : co[c] = "running" /\ calls[c] < MaxCalls
  /\ UNCHANGED <<channelVars, half, threadVars, co, calls, valueVars>>

CoroutineStep ==
  \/ \E c \in Coroutine : CoSend(c) \/ CoReceive(c)
  \/ CoPush
  \/ CoRefill

ThreadStep(t) ==
  \/ SendFast(t) \/ ReceiveFast(t) \/ ReceiveAborts(t) \/ Close(t)
  \/ Lock(t) \/ Test(t) \/ Sleep(t) \/ WakeByItself(t)
  \/ CheckClosed(t) \/ Push(t) \/ Pop(t)

(* All operations are over, or the process is.                             *)
Over ==
  /\ \/ aborted
     \/ /\ half = Nothing
        /\ \A t \in Thread : pc[t] = "idle" /\ calls[t] = MaxCalls
        /\ \A c \in Coroutine : co[c] # "running" \/ calls[c] = MaxCalls
  /\ UNCHANGED vars

Next ==
  \/ CoroutineStep
  \/ \E t \in Thread : ThreadStep(t)
  \/ SendAnnounces \/ CloseReleases
  \/ Collide
  \/ Over

Spec == Init /\ [][Next]_vars
-----------------------------------------------------------------------------
(* Properties.                                                             *)

(* As long as the process lives, every value that was offered is, at any   *)
(* time, in one place: in the buffer, with a coroutine or a thread that    *)
(* waits to send it, on its way into the buffer, received, or refused;     *)
(* never in two, never nowhere.                                            *)
Occurrences(s, v) == Cardinality({i \in DOMAIN s : s[i] = v})
Sending(t) == pc[t] \in {"toSend", "testSend", "sleepSend", "waitSend", "check", "push"}
Copies(v) ==
  Occurrences(buffer, v) + Occurrences(delivered, v)
    + Cardinality({i \in DOMAIN waitingSenders : waitingSenders[i].val = v})
    + Cardinality({t \in Thread : Sending(t) /\ arg[t] = v})
    + Cardinality({h \in {half} : h.todo = "push" /\ h.val = v})
    + Cardinality({v} \cap refused)
NothingLostOrDuplicated == ~aborted => \A v \in 1..sent : Copies(v) = 1

(* The two locks let at most two senders see the same last free slot, so   *)
(* that the buffer exceeds its capacity by one at the most; an unbuffered  *)
(* channel never holds a value.                                            *)
AtMostOneOver == Len(buffer) <= IF Capacity = 0 THEN 0 ELSE Capacity + 1

(* Whatever threads do, two coroutines never wait for each other in the    *)
(* channel, one to send and one to receive.                                *)
PartnersMeet == waitingSenders = <<>> \/ waitingReceivers = <<>>

=============================================================================
