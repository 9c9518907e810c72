---------------------------- MODULE ThreadFuture ----------------------------
(***************************************************************************)
(* Futures shared by coroutines and threads of the embedding program:      *)
(* msCallAsync, msAwait, msFutureResolve and msFutureReject.               *)
(*                                                                         *)
(* Each critical section of the VM mutex is one action; only the pumping   *)
(* of the event loop holds the mutex over several.  A coroutine is named   *)
(* by the future it settles and is abstracted to what it awaits.           *)
(***************************************************************************)
EXTENDS Integers, Sequences, FiniteSets, Functions

CONSTANTS
  Thread,   \* threads of the embedding program
  MaxFutures, \* bound: futures, numbered in the order they are created
  MaxCalls, \* bound: calls the threads may start
  MaxSteps, \* bound: times one coroutine may await
  Ops       \* the functions the embedding program uses

ASSUME FuturesAssumption ==
  /\ MaxFutures \in Nat /\ MaxCalls \in Nat /\ MaxSteps \in Nat
  /\ Ops \subseteq {"create", "call", "await", "settle"}

Future == 1..MaxFutures
Nobody == 0

VARIABLES
  future,    \* FutureState of every future
  ready,     \* event_loop.ready_queue; its head runs while the loop is pumped
  awaits,    \* per coroutine: the future it is paused on
  ended,     \* per coroutine: it has returned
  steps,     \* per coroutine: times it awaited
  signals,   \* thread_waiters: the threads registered for a future
  flag,      \* per thread: the Boolean of its ThreadSignal
  lock,      \* the thread that pumps the event loop under the VM mutex
  pc, on,    \* per thread: where it is, the future of its call
  toNotify,  \* per thread: signals it took and has not yet notified
  result,    \* per thread: what msAwait returned last
  calls      \* calls started

loopVars == <<ready, awaits, ended, steps>>
threadVars == <<pc, on, toNotify, result, calls>>
vars == <<future, loopVars, signals, flag, lock, threadVars>>

TypeOK ==
  /\ future \in [Future -> {"none", "pending", "resolved", "rejected"}]
  /\ ready \in Seq(Future)
  /\ awaits \in [Future -> Future \cup {Nobody}]
  /\ ended \in [Future -> BOOLEAN] /\ steps \in [Future -> 0..MaxSteps]
  /\ signals \in [Future -> SUBSET Thread] /\ flag \in [Thread -> BOOLEAN]
  /\ lock \in Thread \cup {Nobody}
  /\ pc \in [Thread -> {"idle", "pumpCall", "pumpAwait", "recheck", "register", "wait",
                        "reread", "notify"}]
  /\ on \in [Thread -> Future \cup {Nobody}]
  /\ toNotify \in [Thread -> SUBSET Thread]
  /\ result \in [Thread -> {"none", "value", "error", "spurious"}]
  /\ calls \in 0..MaxCalls

Init ==
  /\ future = [f \in Future |-> "none"]
  /\ ready = <<>> /\ awaits = [f \in Future |-> Nobody]
  /\ ended = [f \in Future |-> FALSE] /\ steps = [f \in Future |-> 0]
  /\ signals = [f \in Future |-> {}] /\ flag = [t \in Thread |-> FALSE]
  /\ lock = Nobody
  /\ pc = [t \in Thread |-> "idle"] /\ on = [t \in Thread |-> Nobody]
  /\ toNotify = [t \in Thread |-> {}] /\ result = [t \in Thread |-> "none"]
  /\ calls = 0

-----------------------------------------------------------------------------
Locks == lock = Nobody
Calls(t, name) ==
  /\ Locks /\ pc[t] = "idle" /\ name \in Ops /\ calls < MaxCalls
  /\ calls' = calls + 1

Settled(f) == future[f] \in {"resolved", "rejected"}
Fresh(f) == future[f] = "none" /\ \A g \in 1..f-1 : future[g] # "none"

(* wake_waiters: paused coroutines become ready.                           *)
Awaiting(f) == {h \in Future : awaits[h] = f}
Orders(S) == {s \in [1..Cardinality(S) -> S] : Range(s) = S}
Wakes_None(f, rest) == ready' = rest /\ UNCHANGED awaits
Wakes(f, rest) ==
  /\ \E woken \in Orders(Awaiting(f)) : ready' = rest \o woken
  /\ awaits' = [h \in Future |-> IF awaits[h] = f THEN Nobody ELSE awaits[h]]

(* The script calls an async function written in C: a pending future that  *)
(* some thread will settle.                                                *)
Create(t, f) ==
  /\ Calls(t, "create") /\ Fresh(f)
  /\ future' = [future EXCEPT ![f] = "pending"]
  /\ UNCHANGED <<loopVars, signals, flag, lock, pc, on, toNotify, result>>

(* msCallAsync: a coroutine with its future, then the loop is pumped.      *)
CallAsync(t, f) ==
  /\ Calls(t, "call") /\ Fresh(f)
  /\ future' = [future EXCEPT ![f] = "pending"]
  /\ ready' = Append(ready, f)
  /\ lock' = t /\ pc' = [pc EXCEPT ![t] = "pumpCall"]
  /\ UNCHANGED <<awaits, ended, steps, signals, flag, on, toNotify, result>>

-----------------------------------------------------------------------------
(* pump_event_loop: the coroutine at the head of the queue runs until it   *)
(* ends or awaits something pending; the loop returns when none is ready   *)
(* (a deadlock it may report is ignored).                                  *)
Pumping(t) == lock = t /\ pc[t] \in {"pumpCall", "pumpAwait"}

EndTask(t) ==
  /\ Pumping(t) /\ ready # <<>>
  /\ LET h == Head(ready)
     IN  /\ ended' = [ended EXCEPT ![h] = TRUE]
         /\ IF future[h] = "pending"
              THEN /\ \E s \in {"resolved", "rejected"} : future' = [future EXCEPT ![h] = s]
                   /\ Wakes(h, Tail(ready))
              ELSE ready' = Tail(ready) /\ UNCHANGED <<future, awaits>>
  /\ UNCHANGED <<steps, signals, flag, lock, threadVars>>

TaskAwaits(t, g) ==
  /\ Pumping(t) /\ ready # <<>>
  /\ LET h == Head(ready)
     IN  /\ steps[h] < MaxSteps /\ future[g] # "none"
         /\ steps' = [steps EXCEPT ![h] = @ + 1]
         /\ IF future[g] = "pending"
              THEN ready' = Tail(ready) /\ awaits' = [awaits EXCEPT ![h] = g]
              ELSE UNCHANGED <<ready, awaits>>
  /\ UNCHANGED <<future, ended, signals, flag, lock, threadVars>>

PumpReturns(t) ==
  /\ Pumping(t) /\ ready = <<>> /\ lock' = Nobody
  /\ pc' = [pc EXCEPT ![t] = IF @ = "pumpCall" THEN "idle" ELSE "recheck"]
  /\ UNCHANGED <<future, loopVars, signals, flag, on, toNotify, result, calls>>

-----------------------------------------------------------------------------
(* msAwait.                                                                *)
Answer(f) == IF future[f] = "resolved" THEN "value" ELSE "error"
Returns(t, r) == result' = [result EXCEPT ![t] = r] /\ pc' = [pc EXCEPT ![t] = "idle"]

Await(t, f) ==
  /\ Calls(t, "await") /\ future[f] # "none"
  /\ on' = [on EXCEPT ![t] = f]
  /\ IF Settled(f)
       THEN Returns(t, Answer(f)) /\ UNCHANGED lock
       ELSE /\ lock' = t /\ pc' = [pc EXCEPT ![t] = "pumpAwait"]
            /\ result' = [result EXCEPT ![t] = "none"]
  /\ UNCHANGED <<future, loopVars, signals, flag, toNotify>>

Recheck(t) ==
  /\ pc[t] = "recheck" /\ Locks
  /\ IF Settled(on[t]) THEN Returns(t, Answer(on[t]))
     ELSE pc' = [pc EXCEPT ![t] = "register"] /\ UNCHANGED result
  /\ UNCHANGED <<future, loopVars, signals, flag, lock, on, toNotify, calls>>

Register(t) ==
  /\ pc[t] = "register" /\ Locks
  /\ signals' = [signals EXCEPT ![on[t]] = @ \cup {t}]
  /\ flag' = [flag EXCEPT ![t] = FALSE]
  /\ pc' = [pc EXCEPT ![t] = "wait"]
  /\ UNCHANGED <<future, loopVars, lock, on, toNotify, result, calls>>

WaitEnds(t) ==
  /\ pc[t] = "wait" /\ flag[t]
  /\ pc' = [pc EXCEPT ![t] = "reread"]
  /\ UNCHANGED <<future, loopVars, signals, flag, lock, on, toNotify, result, calls>>

Reread(t) ==
  /\ pc[t] = "reread" /\ Locks
  /\ Returns(t, IF Settled(on[t]) THEN Answer(on[t]) ELSE "spurious")
  /\ UNCHANGED <<future, loopVars, signals, flag, lock, on, toNotify, calls>>

-----------------------------------------------------------------------------
(* msFutureResolve and msFutureReject; a settled future is left alone.     *)
(* The signals are taken under the VM mutex and notified without it.       *)
MaySettle_Always(f) == future[f] # "none"
MaySettle(f) == future[f] = "pending"
Takes_One(t, f) ==
  /\ toNotify' = [toNotify EXCEPT ![t] = IF signals[f] = {} THEN {} ELSE {CHOOSE u \in signals[f] : TRUE}]
  /\ signals' = [signals EXCEPT ![f] = {}]
Takes(t, f) ==
  /\ toNotify' = [toNotify EXCEPT ![t] = signals[f]]
  /\ signals' = [signals EXCEPT ![f] = {}]

Settle(t, f) ==
  /\ Calls(t, "settle") /\ future[f] # "none"
  /\ IF MaySettle(f)
       THEN /\ \E s \in {"resolved", "rejected"} : future' = [future EXCEPT ![f] = s]
            /\ Wakes(f, ready)
            /\ Takes(t, f)
            /\ pc' = [pc EXCEPT ![t] = "notify"]
       ELSE UNCHANGED <<future, ready, awaits, toNotify, signals, pc>>
  /\ UNCHANGED <<ended, steps, flag, lock, on, result>>

Notify_FlagUnset(t) ==
  /\ pc[t] = "notify"
  /\ IF toNotify[t] = {} THEN pc' = [pc EXCEPT ![t] = "idle"] /\ UNCHANGED toNotify
     ELSE toNotify' = [toNotify EXCEPT ![t] = {}] /\ UNCHANGED pc
  /\ UNCHANGED <<future, loopVars, signals, flag, lock, on, result, calls>>
Notify(t) ==
  /\ pc[t] = "notify"
  /\ IF toNotify[t] = {}
       THEN pc' = [pc EXCEPT ![t] = "idle"] /\ UNCHANGED <<flag, toNotify>>
       ELSE /\ \E u \in toNotify[t] :
                 /\ flag' = [flag EXCEPT ![u] = TRUE]
                 /\ toNotify' = [toNotify EXCEPT ![t] = @ \ {u}]
            /\ UNCHANGED pc
  /\ UNCHANGED <<future, loopVars, signals, lock, on, result, calls>>

ThreadGoesOn(t) ==
  \/ EndTask(t) \/ (\E g \in Future : TaskAwaits(t, g)) \/ PumpReturns(t)
  \/ Recheck(t) \/ Register(t) \/ WaitEnds(t) \/ Reread(t) \/ Notify(t)

Next ==
  \/ \E t \in Thread :
       \/ \E f \in Future : Create(t, f) \/ CallAsync(t, f) \/ Await(t, f) \/ Settle(t, f)
       \/ ThreadGoesOn(t)

Spec == Init /\ [][Next]_vars

(* The operating system schedules every thread that can run; a mutex is    *)
(* granted in the end.                                                     *)
FairSpec == Spec /\ \A t \in Thread : SF_vars(ThreadGoesOn(t))
-----------------------------------------------------------------------------
(* Properties.                                                             *)

(* msAwait returns what its future was settled with, and never finds it    *)
(* still pending after it was woken; what it returned stays the answer,    *)
(* whoever else tries to settle the future.                                *)
AwaitTellsTheTruth ==
  \A t \in Thread :
    /\ result[t] # "spurious"
    /\ result[t] = "value" => future[on[t]] = "resolved"
    /\ result[t] = "error" => future[on[t]] = "rejected"

(* A waiting thread's signal is not dropped: it is registered, about to be *)
(* notified, or set.                                                       *)
SignalIsKept ==
  \A t \in Thread : pc[t] = "wait" =>
    \/ t \in signals[on[t]]
    \/ flag[t]
    \/ \E u \in Thread : pc[u] = "notify" /\ t \in toNotify[u]

(* No coroutine stays paused on a future that a thread or another          *)
(* coroutine has settled, and a live one is ready or paused, once.         *)
NoCoroutineForgotten ==
  /\ \A h \in Future : awaits[h] # Nobody => future[awaits[h]] = "pending"
  /\ \A i, j \in DOMAIN ready : ready[i] = ready[j] => i = j
  /\ \A i \in DOMAIN ready : awaits[ready[i]] = Nobody /\ ~ended[ready[i]]

(* Under FairSpec a thread whose signal was taken returns from msAwait.    *)
TakenSignalEndsWait ==
  \A t \in Thread :
    (\E u \in Thread : pc[u] = "notify" /\ t \in toNotify[u]) ~> pc[t] = "idle"

-----------------------------------------------------------------------------
(* What comments and documentation say and the code does not do.           *)

(* msFutureResolve "wakes all waiters, coroutines and threads", and "msAwait  *)
(* wakes the worker thread" when the event loop finishes the coroutine: no *)
(* thread goes on waiting for a settled future that nobody will tell it    *)
(* about.                                                                  *)
SettlingWakesThreads ==
  \A t \in Thread :
    (pc[t] = "wait" /\ Settled(on[t])) =>
      flag[t] \/ \E u \in Thread : t \in toNotify[u]
=============================================================================
