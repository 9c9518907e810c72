------------------------- MODULE ThreadFuture_proofs -------------------------
(***************************************************************************)
(* What ThreadFuture promises, for any set of threads and any bounds:      *)
(* msAwait tells the truth, no signal of a waiting thread is lost, and no  *)
(* coroutine stays paused on a future that is settled.                     *)
(***************************************************************************)
EXTENDS ThreadFuture, SequenceTheorems, FiniteSetTheorems, TLAPS

(* A thread inside msAwait, or one that msAwait has answered, has a future.*)
AwaitedIsNamed ==
  \A t \in Thread :
    (pc[t] \notin {"idle", "pumpCall", "notify"} \/ result[t] # "none") =>
      on[t] \in Future /\ future[on[t]] # "none"

(* A signal is in one place: registered, with one thread that took it when *)
(* it settled the future, or set; the last two are of a settled future.    *)
RegisteredWaits ==
  \A f \in Future : \A t \in signals[f] :
    /\ pc[t] = "wait" /\ on[t] = f /\ ~flag[t]
    /\ \A u \in Thread : t \notin toNotify[u]
TakenWaits ==
  \A u \in Thread : \A t \in toNotify[u] :
    /\ pc[u] = "notify"
    /\ pc[t] = "wait" /\ ~flag[t] /\ Settled(on[t])
    /\ \A v \in Thread : t \in toNotify[v] => u = v
WokenIsSettled ==
  \A t \in Thread : pc[t] = "reread" \/ (pc[t] = "wait" /\ flag[t]) => Settled(on[t])

(* A paused coroutine is alive and not ready, and waits for something that *)
(* is still pending; a ready one is there once.                            *)
PausedIsAlive ==
  \A h \in Future : awaits[h] # Nobody =>
    ~ended[h] /\ future[h] # "none" /\ future[awaits[h]] = "pending"
ReadyIsAlive ==
  /\ \A i, j \in DOMAIN ready : ready[i] = ready[j] => i = j
  /\ \A i \in DOMAIN ready :
       awaits[ready[i]] = Nobody /\ ~ended[ready[i]] /\ future[ready[i]] # "none"
EndedWasMade == \A h \in Future : ended[h] => future[h] # "none"

SignalInv ==
  /\ AwaitedIsNamed /\ RegisteredWaits /\ TakenWaits /\ WokenIsSettled
  /\ SignalIsKept /\ AwaitTellsTheTruth
TaskInv == PausedIsAlive /\ ReadyIsAlive /\ EndedWasMade
Inv == TypeOK /\ SignalInv /\ TaskInv

-----------------------------------------------------------------------------
(* What wake_waiters makes ready: every coroutine that awaits f, once.     *)
LEMMA OrdersList ==
  ASSUME NEW S \in SUBSET Future, NEW s \in Orders(S)
  PROVE  /\ s \in Seq(Future) /\ Range(s) = S
         /\ \A i, j \in DOMAIN s : s[i] = s[j] => i = j
<1>1. IsFiniteSet(Future)
  BY FS_Interval, FuturesAssumption DEF Future
<1>2. IsFiniteSet(S) /\ Cardinality(S) \in Nat
  BY <1>1, FS_Subset, FS_CardinalityType
<1> DEFINE D == 1..Cardinality(S)
<1>3. s \in [D -> S] /\ Range(s) = S
  BY DEF Orders
<1>4. s \in Seq(Future)
  <2>1. s \in [D -> Future]
    BY <1>3
  <2> QED
    BY <1>2, <2>1, SeqDef
<1>5. s \in Surjection(D, S)
  BY <1>3 DEF Range, Surjection
<1>6. IsFiniteSet(D) /\ Cardinality(D) = Cardinality(S)
  BY <1>2, FS_Interval
<1>7. s \in Injection(D, S)
  BY <1>5, <1>6, FS_SurjSameCardinalityImpliesInj
<1> QED
  BY <1>3, <1>4, <1>7 DEF Injection, IsInjective

LEMMA WakesList ==
  ASSUME NEW f \in Future, NEW rest \in Seq(Future),
         awaits \in [Future -> Future \cup {Nobody}], Wakes(f, rest)
  PROVE  /\ ready' \in Seq(Future)
         /\ awaits' \in [Future -> Future \cup {Nobody}]
         /\ Range(ready') = Range(rest) \cup Awaiting(f)
<1>1. PICK woken \in Orders(Awaiting(f)) : ready' = rest \o woken
  BY DEF Wakes
<1>2. Awaiting(f) \in SUBSET Future
  BY DEF Awaiting
<1>3. woken \in Seq(Future) /\ Range(woken) = Awaiting(f)
  BY <1>2, OrdersList
<1>4. awaits' \in [Future -> Future \cup {Nobody}]
  BY DEF Wakes
<1> QED
  BY <1>1, <1>3, <1>4, ConcatProperties, RangeConcatenation

(* The queue stays free of repetitions.                                    *)
LEMMA WakesDistinct ==
  ASSUME NEW f \in Future, NEW rest \in Seq(Future), Wakes(f, rest),
         \A i, j \in DOMAIN rest : rest[i] = rest[j] => i = j,
         Range(rest) \cap Awaiting(f) = {}
  PROVE  \A i, j \in DOMAIN ready' : ready'[i] = ready'[j] => i = j
<1>1. PICK woken \in Orders(Awaiting(f)) : ready' = rest \o woken
  BY DEF Wakes
<1>2. Awaiting(f) \in SUBSET Future
  BY DEF Awaiting
<1>3. /\ woken \in Seq(Future) /\ Range(woken) = Awaiting(f)
      /\ \A i, j \in DOMAIN woken : woken[i] = woken[j] => i = j
  BY <1>2, OrdersList
<1> DEFINE m == Len(rest)
           n == Len(woken)
<1>4. /\ m \in Nat /\ n \in Nat /\ DOMAIN rest = 1..m /\ DOMAIN woken = 1..n
      /\ \A i \in 1..m : rest[i] \in Range(rest)
      /\ \A i \in 1..n : woken[i] \in Awaiting(f)
  BY <1>3, LenProperties DEF Range
<1>5. /\ DOMAIN ready' = 1..m + n
      /\ \A i \in 1..m + n : ready'[i] = IF i <= m THEN rest[i] ELSE woken[i - m]
  BY <1>1, <1>3, ConcatProperties, LenProperties
<1> SUFFICES ASSUME NEW i \in 1..m + n, NEW j \in 1..m + n, ready'[i] = ready'[j]
             PROVE  i = j
  BY <1>5
<1>6. CASE i <= m /\ j <= m
  BY <1>4, <1>5, <1>6
<1>7. CASE i > m /\ j > m
  <2>1. i - m \in 1..n /\ j - m \in 1..n
    BY <1>4, <1>7
  <2>2. i - m = j - m
    BY SMTT(60), <1>3, <1>4, <1>5, <1>7, <2>1
  <2> QED
    BY <1>4, <2>2
<1>8. CASE i <= m /\ j > m
  BY <1>4, <1>5, <1>8
<1>9. CASE i > m /\ j <= m
  BY <1>4, <1>5, <1>9
<1> QED
  BY <1>4, <1>6, <1>7, <1>8, <1>9

-----------------------------------------------------------------------------
(* Type correctness, one step per action.                                  *)
LEMMA InitType == Init => TypeOK
  BY FuturesAssumption, EmptySeq DEF Init, TypeOK

LEMMA CallsType ==
  ASSUME TypeOK, NEW t \in Thread, NEW name, Calls(t, name)
  PROVE  calls' \in 0..MaxCalls /\ pc[t] = "idle"
  BY FuturesAssumption DEF TypeOK, Calls

LEMMA TypeStep ==
  ASSUME TypeOK, [Next]_vars
  PROVE  TypeOK'
<1> USE FuturesAssumption
<1>1. ASSUME NEW t \in Thread, NEW f \in Future, Create(t, f)
      PROVE  TypeOK'
  BY <1>1 DEF Create, Calls, Locks, TypeOK, loopVars
<1>2. ASSUME NEW t \in Thread, NEW f \in Future, CallAsync(t, f)
      PROVE  TypeOK'
  <2>1. ready' \in Seq(Future)
    BY <1>2, AppendProperties DEF CallAsync, TypeOK
  <2> QED
    BY <1>2, <2>1 DEF CallAsync, Calls, Locks, TypeOK
<1>3. ASSUME NEW t \in Thread, NEW f \in Future, Await(t, f)
      PROVE  TypeOK'
  <2>1. calls' \in 0..MaxCalls
    BY <1>3, CallsType DEF Await
  <2>2. on' \in [Thread -> Future \cup {Nobody}]
    BY <1>3 DEF Await, TypeOK
  <2>3. /\ result' \in [Thread -> {"none", "value", "error", "spurious"}]
        /\ pc' \in [Thread -> {"idle", "pumpCall", "pumpAwait", "recheck", "register",
                              "wait", "reread", "notify"}]
        /\ lock' \in Thread \cup {Nobody}
    BY <1>3 DEF Await, Answer, Returns, TypeOK
  <2> QED
    BY <1>3, <2>1, <2>2, <2>3 DEF Await, TypeOK, loopVars
<1>4. ASSUME NEW t \in Thread, NEW f \in Future, Settle(t, f)
      PROVE  TypeOK'
  <2>1. CASE MaySettle(f)
    <3>1. ready' \in Seq(Future) /\ awaits' \in [Future -> Future \cup {Nobody}]
      BY <1>4, <2>1, WakesList DEF Settle, TypeOK
    <3>2. /\ future' \in [Future -> {"none", "pending", "resolved", "rejected"}]
          /\ UNCHANGED <<ended, steps, flag, lock, on, result>>
      BY ZenonT(60), <1>4, <2>1 DEF Settle, TypeOK
    <3>3. /\ toNotify' \in [Thread -> SUBSET Thread]
          /\ signals' \in [Future -> SUBSET Thread]
      <4>1. signals[f] \in SUBSET Thread
        BY DEF TypeOK
      <4> QED
        BY <1>4, <2>1, <4>1 DEF Settle, Takes, TypeOK
    <3>4. calls' \in 0..MaxCalls /\ pc' = [pc EXCEPT ![t] = "notify"]
      BY <1>4, <2>1, CallsType DEF Settle
    <3> QED
      BY <3>1, <3>2, <3>3, <3>4 DEF TypeOK
  <2>2. CASE ~MaySettle(f)
    BY <1>4, <2>2 DEF Settle, Calls, Locks, TypeOK
  <2> QED
    BY <2>1, <2>2
<1>5. ASSUME NEW t \in Thread, EndTask(t)
      PROVE  TypeOK'
  <2> DEFINE h == Head(ready)
  <2>1. h \in Future /\ Tail(ready) \in Seq(Future)
    BY <1>5, HeadTailProperties DEF EndTask, TypeOK
  <2>2. CASE future[h] = "pending"
    <3>1. ready' \in Seq(Future) /\ awaits' \in [Future -> Future \cup {Nobody}]
      BY <1>5, <2>1, <2>2, WakesList DEF EndTask, TypeOK
    <3> QED
      BY <1>5, <2>1, <2>2, <3>1 DEF EndTask, TypeOK, threadVars
  <2>3. CASE future[h] # "pending"
    BY <1>5, <2>1, <2>3 DEF EndTask, TypeOK, threadVars
  <2> QED
    BY <2>2, <2>3
<1>6. ASSUME NEW t \in Thread, NEW g \in Future, TaskAwaits(t, g)
      PROVE  TypeOK'
  <2>1. Head(ready) \in Future /\ Tail(ready) \in Seq(Future)
    BY <1>6, HeadTailProperties DEF TaskAwaits, TypeOK
  <2>2. steps' \in [Future -> 0..MaxSteps]
    BY <1>6, <2>1 DEF TaskAwaits, TypeOK
  <2>3. ready' \in Seq(Future) /\ awaits' \in [Future -> Future \cup {Nobody}]
    BY ZenonT(60), <1>6, <2>1 DEF TaskAwaits, TypeOK
  <2> QED
    BY <1>6, <2>2, <2>3 DEF TaskAwaits, TypeOK, threadVars
<1>7. ASSUME NEW t \in Thread, PumpReturns(t)
      PROVE  TypeOK'
  BY <1>7 DEF PumpReturns, TypeOK, loopVars
<1>8. ASSUME NEW t \in Thread, Recheck(t)
      PROVE  TypeOK'
  BY ZenonT(60), <1>8 DEF Recheck, Answer, Returns, TypeOK, loopVars
<1>9. ASSUME NEW t \in Thread, Register(t)
      PROVE  TypeOK'
  BY <1>9 DEF Register, TypeOK, loopVars
<1>10. ASSUME NEW t \in Thread, WaitEnds(t)
       PROVE  TypeOK'
  BY <1>10 DEF WaitEnds, TypeOK, loopVars
<1>11. ASSUME NEW t \in Thread, Reread(t)
       PROVE  TypeOK'
  BY <1>11 DEF Reread, Answer, Returns, TypeOK, loopVars
<1>12. ASSUME NEW t \in Thread, Notify(t)
       PROVE  TypeOK'
  <2>1. CASE toNotify[t] = {}
    BY <1>12, <2>1 DEF Notify, TypeOK, loopVars
  <2>2. CASE toNotify[t] # {}
    <3>1. PICK u \in toNotify[t] : /\ flag' = [flag EXCEPT ![u] = TRUE]
                                  /\ toNotify' = [toNotify EXCEPT ![t] = @ \ {u}]
      BY <1>12, <2>2 DEF Notify
    <3>2. flag' \in [Thread -> BOOLEAN] /\ toNotify' \in [Thread -> SUBSET Thread]
      BY <3>1 DEF TypeOK
    <3> QED
      BY <1>12, <2>2, <3>2 DEF Notify, TypeOK, loopVars
  <2> QED
    BY <2>1, <2>2
<1>13. CASE UNCHANGED vars
  BY <1>13 DEF TypeOK, vars, loopVars, threadVars
<1> QED
  BY <1>1, <1>2, <1>3, <1>4, <1>5, <1>6, <1>7, <1>8, <1>9, <1>10, <1>11, <1>12, <1>13
     DEF Next, ThreadGoesOn

-----------------------------------------------------------------------------
(* A future is settled once: no step takes back what one is settled with.  *)
FutureGrows ==
  \A f \in Future :
    /\ Settled(f) => future'[f] = future[f]
    /\ future[f] # "none" => future'[f] # "none"

LEMMA SettledStays ==
  ASSUME TypeOK, FutureGrows, NEW f \in Future
  PROVE  Settled(f) => Settled(f)'
  BY DEF FutureGrows, Settled

LEMMA FutureGrowsStep ==
  ASSUME TypeOK, [Next]_vars
  PROVE  FutureGrows
<1>1. ASSUME NEW t \in Thread, NEW f \in Future, Create(t, f) \/ CallAsync(t, f)
      PROVE  FutureGrows
  BY <1>1 DEF Create, CallAsync, Fresh, FutureGrows, Settled, TypeOK
<1>2. ASSUME NEW t \in Thread, NEW f \in Future, Settle(t, f)
      PROVE  FutureGrows
  BY <1>2 DEF Settle, MaySettle, FutureGrows, Settled, TypeOK
<1>3. ASSUME NEW t \in Thread, EndTask(t)
      PROVE  FutureGrows
  BY <1>3 DEF EndTask, FutureGrows, Settled, TypeOK
<1>4. ASSUME UNCHANGED future
      PROVE  FutureGrows
  BY <1>4 DEF FutureGrows
<1> QED
  BY <1>1, <1>2, <1>3, <1>4
     DEF Next, ThreadGoesOn, Await, TaskAwaits, PumpReturns, Recheck, Register, WaitEnds,
         Reread, Notify, vars

-----------------------------------------------------------------------------
(* Signals.  Steps outside of msAwait's wait and of a notification touch   *)
(* no signal, whatever becomes of the future.                              *)
Elsewhere == {"idle", "pumpCall", "pumpAwait", "recheck", "register"}

LEMMA QuietKeepsSignals ==
  ASSUME TypeOK, SignalInv, FutureGrows, AwaitedIsNamed',
         UNCHANGED <<signals, flag, on, toNotify, result>>,
         NEW t \in Thread, NEW p \in Elsewhere, pc[t] \in Elsewhere,
         pc' = [pc EXCEPT ![t] = p]
  PROVE  SignalInv'
<1>1. RegisteredWaits'
  BY DEF RegisteredWaits, SignalInv, TypeOK, Elsewhere
<1>2. TakenWaits'
  <2>1. \A u \in Thread : \A v \in toNotify[u] : on[v] \in Future
    BY DEF SignalInv, TakenWaits, AwaitedIsNamed, TypeOK
  <2> QED
    BY <2>1, SettledStays DEF TakenWaits, SignalInv, TypeOK, Elsewhere
<1>3. WokenIsSettled'
  <2>1. \A u \in Thread : pc[u] \in {"wait", "reread"} => on[u] \in Future
    BY DEF SignalInv, AwaitedIsNamed, TypeOK
  <2> QED
    BY <2>1, SettledStays DEF WokenIsSettled, SignalInv, TypeOK, Elsewhere
<1>4. SignalIsKept'
  BY DEF SignalIsKept, SignalInv, TypeOK, Elsewhere
<1>5. AwaitTellsTheTruth'
  <2>1. \A u \in Thread : result[u] # "none" => on[u] \in Future
    BY DEF SignalInv, AwaitedIsNamed, TypeOK
  <2> QED
    BY <2>1 DEF AwaitTellsTheTruth, SignalInv, FutureGrows, Settled
<1> QED
  BY <1>1, <1>2, <1>3, <1>4, <1>5 DEF SignalInv

LEMMA AwaitedIsNamedStep ==
  ASSUME TypeOK, AwaitedIsNamed, [Next]_vars
  PROVE  AwaitedIsNamed'
<1>1. FutureGrows
  BY FutureGrowsStep
<1>2. ASSUME NEW t \in Thread, NEW f \in Future, Await(t, f)
      PROVE  AwaitedIsNamed'
  <2>1. on'[t] = f /\ future[f] # "none" /\ UNCHANGED future
    BY <1>2 DEF Await, TypeOK
  <2>2. \A u \in Thread \ {t} : on'[u] = on[u] /\ pc'[u] = pc[u] /\ result'[u] = result[u]
    BY <1>2 DEF Await, Returns, TypeOK
  <2> QED
    BY <2>1, <2>2 DEF AwaitedIsNamed
<1>3. ASSUME NEW t \in Thread, NEW p \in {"idle", "pumpCall", "notify"},
             UNCHANGED <<on, result>>, pc' = [pc EXCEPT ![t] = p]
      PROVE  AwaitedIsNamed'
  BY <1>1, <1>3 DEF AwaitedIsNamed, FutureGrows, TypeOK
<1>4. ASSUME NEW t \in Thread, \E f \in Future : CallAsync(t, f)
      PROVE  AwaitedIsNamed'
  BY <1>3, <1>4 DEF CallAsync
<1>5. ASSUME UNCHANGED <<on, result, pc>>
      PROVE  AwaitedIsNamed'
  BY <1>1, <1>5 DEF AwaitedIsNamed, FutureGrows, TypeOK
<1>6. ASSUME NEW t \in Thread, NEW f \in Future, Settle(t, f)
      PROVE  AwaitedIsNamed'
  BY <1>3, <1>5, <1>6 DEF Settle
<1>7. ASSUME NEW t \in Thread, pc[t] \notin {"idle", "pumpCall", "notify"},
             NEW p, NEW r, pc' = [pc EXCEPT ![t] = p], result' = [result EXCEPT ![t] = r],
             UNCHANGED on
      PROVE  AwaitedIsNamed'
  BY <1>1, <1>7 DEF AwaitedIsNamed, FutureGrows, TypeOK
<1>8. ASSUME NEW t \in Thread, pc[t] \notin {"idle", "pumpCall", "notify"},
             NEW p, pc' = [pc EXCEPT ![t] = p], UNCHANGED <<on, result>>
      PROVE  AwaitedIsNamed'
  BY <1>1, <1>8 DEF AwaitedIsNamed, FutureGrows, TypeOK
<1>9. ASSUME NEW t \in Thread, PumpReturns(t)
      PROVE  AwaitedIsNamed'
  <2>1. CASE pc[t] = "pumpCall"
    BY <1>3, <1>9, <2>1 DEF PumpReturns
  <2>2. CASE pc[t] = "pumpAwait"
    BY <1>8, <1>9, <2>2 DEF PumpReturns
  <2> QED
    BY <1>9, <2>1, <2>2 DEF PumpReturns, Pumping
<1>10. ASSUME NEW t \in Thread, Recheck(t) \/ Reread(t)
       PROVE  AwaitedIsNamed'
  BY <1>7, <1>8, <1>10 DEF Recheck, Reread, Returns
<1>11. ASSUME NEW t \in Thread, Register(t) \/ WaitEnds(t)
       PROVE  AwaitedIsNamed'
  BY <1>8, <1>11 DEF Register, WaitEnds
<1>12. ASSUME NEW t \in Thread, Notify(t)
       PROVE  AwaitedIsNamed'
  BY <1>3, <1>5, <1>12 DEF Notify
<1> QED
  BY <1>2, <1>4, <1>5, <1>6, <1>9, <1>10, <1>11, <1>12
     DEF Next, ThreadGoesOn, Create, EndTask, TaskAwaits, threadVars, vars

LEMMA AwaitKeepsSignals ==
  ASSUME TypeOK, SignalInv, AwaitedIsNamed', NEW t \in Thread, NEW f \in Future, Await(t, f)
  PROVE  SignalInv'
<1>1. /\ pc[t] = "idle" /\ UNCHANGED <<future, signals, flag, toNotify>>
      /\ on' = [on EXCEPT ![t] = f]
  BY DEF Await, Calls
<1>2. /\ pc'[t] \in {"idle", "pumpAwait"}
      /\ result'[t] \in {"none", Answer(f)}
      /\ result'[t] # "none" => Settled(f)
  BY DEF Await, Returns, Answer, TypeOK
<1>3. \A u \in Thread \ {t} : on'[u] = on[u] /\ pc'[u] = pc[u] /\ result'[u] = result[u]
  BY <1>1 DEF Await, Returns, TypeOK
<1>4. on'[t] = f
  BY <1>1 DEF TypeOK
<1>5. RegisteredWaits'
  <2> SUFFICES ASSUME NEW g \in Future, NEW u \in signals[g]
               PROVE  /\ pc'[u] = "wait" /\ on'[u] = g /\ ~flag[u]
                      /\ \A v \in Thread : u \notin toNotify[v]
    BY <1>1 DEF RegisteredWaits
  <2>1. u \in Thread /\ u # t
    BY <1>1 DEF SignalInv, RegisteredWaits, TypeOK
  <2> QED
    BY <1>3, <2>1 DEF SignalInv, RegisteredWaits
<1>6. TakenWaits'
  <2> SUFFICES ASSUME NEW u \in Thread, NEW v \in toNotify[u]
               PROVE  /\ pc'[u] = "notify" /\ pc'[v] = "wait" /\ ~flag[v] /\ Settled(on[v])'
                      /\ \A w \in Thread : v \in toNotify[w] => u = w
    BY <1>1 DEF TakenWaits
  <2>1. v \in Thread /\ v # t /\ u # t
    BY <1>1 DEF SignalInv, TakenWaits, TypeOK
  <2> QED
    BY <1>1, <1>3, <2>1 DEF SignalInv, TakenWaits, Settled
<1>7. WokenIsSettled'
  BY <1>1, <1>2, <1>3 DEF SignalInv, WokenIsSettled, Settled
<1>8. SignalIsKept'
  BY <1>1, <1>2, <1>3 DEF SignalInv, SignalIsKept
<1>9. AwaitTellsTheTruth'
  BY <1>1, <1>2, <1>3, <1>4 DEF SignalInv, AwaitTellsTheTruth, Answer, Settled
<1> QED
  BY <1>5, <1>6, <1>7, <1>8, <1>9 DEF SignalInv

LEMMA AnswerKeepsSignals ==
  ASSUME TypeOK, SignalInv, AwaitedIsNamed', NEW t \in Thread, Recheck(t) \/ Reread(t)
  PROVE  SignalInv'
<1>1. /\ pc[t] \in {"recheck", "reread"} /\ on[t] \in Future
      /\ UNCHANGED <<future, signals, flag, toNotify, on>>
  BY DEF Recheck, Reread, SignalInv, AwaitedIsNamed
<1>2. /\ pc'[t] \in {"idle", "register"}
      /\ result'[t] \in {result[t], Answer(on[t])}
      /\ result'[t] # result[t] => Settled(on[t])
  BY DEF Recheck, Reread, Returns, Answer, TypeOK, SignalInv, WokenIsSettled
<1>3. \A u \in Thread \ {t} : pc'[u] = pc[u] /\ result'[u] = result[u]
  BY DEF Recheck, Reread, Returns, TypeOK
<1>4. RegisteredWaits'
  <2> SUFFICES ASSUME NEW g \in Future, NEW u \in signals[g]
               PROVE  pc'[u] = "wait"
    BY <1>1 DEF RegisteredWaits, SignalInv
  <2>1. u \in Thread /\ u # t
    BY <1>1 DEF SignalInv, RegisteredWaits, TypeOK
  <2> QED
    BY <1>3, <2>1 DEF SignalInv, RegisteredWaits
<1>5. TakenWaits'
  <2> SUFFICES ASSUME NEW u \in Thread, NEW v \in toNotify[u]
               PROVE  pc'[u] = "notify" /\ pc'[v] = "wait"
    BY <1>1 DEF TakenWaits, SignalInv, Settled
  <2>1. v \in Thread /\ v # t /\ u # t
    BY <1>1 DEF SignalInv, TakenWaits, TypeOK
  <2> QED
    BY <1>3, <2>1 DEF SignalInv, TakenWaits
<1>6. WokenIsSettled'
  BY <1>1, <1>2, <1>3 DEF SignalInv, WokenIsSettled, Settled
<1>7. SignalIsKept'
  BY <1>1, <1>2, <1>3 DEF SignalInv, SignalIsKept
<1>8. AwaitTellsTheTruth'
  BY <1>1, <1>2, <1>3 DEF SignalInv, AwaitTellsTheTruth, Answer, Settled
<1> QED
  BY <1>4, <1>5, <1>6, <1>7, <1>8 DEF SignalInv

LEMMA RegisterKeepsSignals ==
  ASSUME TypeOK, SignalInv, AwaitedIsNamed', NEW t \in Thread, Register(t)
  PROVE  SignalInv'
<1>1. /\ pc[t] = "register" /\ on[t] \in Future
      /\ UNCHANGED <<future, toNotify, on, result>>
  BY DEF Register, SignalInv, AwaitedIsNamed
<1>2. /\ pc'[t] = "wait" /\ ~flag'[t]
      /\ signals'[on[t]] = signals[on[t]] \cup {t}
      /\ \A f \in Future \ {on[t]} : signals'[f] = signals[f]
      /\ \A u \in Thread \ {t} : pc'[u] = pc[u] /\ flag'[u] = flag[u]
  BY <1>1 DEF Register, TypeOK
<1>3. RegisteredWaits'
  <2> SUFFICES ASSUME NEW g \in Future, NEW u \in signals'[g]
               PROVE  /\ pc'[u] = "wait" /\ on[u] = g /\ ~flag'[u]
                      /\ \A v \in Thread : u \notin toNotify[v]
    BY <1>1 DEF RegisteredWaits
  <2>1. CASE u = t
    <3>1. on[t] = g
      BY <1>1, <1>2, <2>1 DEF SignalInv, RegisteredWaits
    <3>2. \A v \in Thread : t \notin toNotify[v]
      BY <1>1 DEF SignalInv, TakenWaits
    <3> QED
      BY <1>2, <2>1, <3>1, <3>2
  <2>2. CASE u # t
    <3>1. u \in signals[g] /\ u \in Thread
      BY <1>2, <2>2 DEF TypeOK
    <3> QED
      BY <1>2, <2>2, <3>1 DEF SignalInv, RegisteredWaits
  <2> QED
    BY <2>1, <2>2
<1>4. TakenWaits'
  <2> SUFFICES ASSUME NEW u \in Thread, NEW v \in toNotify[u]
               PROVE  pc'[u] = "notify" /\ pc'[v] = "wait" /\ ~flag'[v]
    BY <1>1 DEF TakenWaits, SignalInv, Settled
  <2>1. v \in Thread /\ v # t /\ u # t
    BY <1>1 DEF SignalInv, TakenWaits, TypeOK
  <2> QED
    BY <1>2, <2>1 DEF SignalInv, TakenWaits
<1>5. WokenIsSettled'
  BY <1>1, <1>2 DEF SignalInv, WokenIsSettled, Settled
<1>6. SignalIsKept'
  <2> SUFFICES ASSUME NEW u \in Thread, pc'[u] = "wait"
               PROVE  \/ u \in signals'[on[u]] \/ flag'[u]
                      \/ \E v \in Thread : pc'[v] = "notify" /\ u \in toNotify[v]
    BY <1>1 DEF SignalIsKept
  <2>1. CASE u = t
    BY <1>2, <2>1
  <2>2. CASE u # t
    <3>1. on[u] \in Future /\ pc[u] = "wait"
      BY <1>2, <2>2 DEF SignalInv, AwaitedIsNamed
    <3> QED
      BY <1>1, <1>2, <2>2, <3>1 DEF SignalInv, SignalIsKept
  <2> QED
    BY <2>1, <2>2
<1>7. AwaitTellsTheTruth'
  BY <1>1 DEF SignalInv, AwaitTellsTheTruth
<1> QED
  BY <1>3, <1>4, <1>5, <1>6, <1>7 DEF SignalInv

LEMMA WaitEndsKeepsSignals ==
  ASSUME TypeOK, SignalInv, AwaitedIsNamed', NEW t \in Thread, WaitEnds(t)
  PROVE  SignalInv'
<1>1. /\ pc[t] = "wait" /\ flag[t] /\ pc' = [pc EXCEPT ![t] = "reread"]
      /\ UNCHANGED <<future, signals, flag, toNotify, on, result>>
  BY DEF WaitEnds
<1>2. RegisteredWaits'
  BY <1>1 DEF RegisteredWaits, SignalInv, TypeOK
<1>3. TakenWaits'
  <2> SUFFICES ASSUME NEW u \in Thread, NEW v \in toNotify[u]
               PROVE  pc'[u] = "notify" /\ pc'[v] = "wait"
    BY <1>1 DEF TakenWaits, SignalInv, Settled
  <2>1. v \in Thread /\ v # t /\ u # t
    BY <1>1 DEF SignalInv, TakenWaits, TypeOK
  <2> QED
    BY <1>1, <2>1 DEF SignalInv, TakenWaits, TypeOK
<1>4. WokenIsSettled'
  BY <1>1 DEF WokenIsSettled, SignalInv, TypeOK, Settled
<1>5. SignalIsKept'
  BY <1>1 DEF SignalIsKept, SignalInv, TypeOK
<1>6. AwaitTellsTheTruth'
  BY <1>1 DEF SignalInv, AwaitTellsTheTruth
<1> QED
  BY <1>2, <1>3, <1>4, <1>5, <1>6 DEF SignalInv

LEMMA SettleKeepsSignals ==
  ASSUME TypeOK, SignalInv, FutureGrows, AwaitedIsNamed',
         NEW t \in Thread, NEW f \in Future, Settle(t, f), MaySettle(f)
  PROVE  SignalInv'
<1>1. /\ pc[t] = "idle" /\ UNCHANGED <<flag, on, result>>
      /\ pc' = [pc EXCEPT ![t] = "notify"] /\ Settled(f)'
      /\ signals' = [signals EXCEPT ![f] = {}]
      /\ toNotify' = [toNotify EXCEPT ![t] = signals[f]]
  BY DEF Settle, Calls, Takes, Settled, TypeOK
<1>2. /\ signals'[f] = {} /\ toNotify'[t] = signals[f] /\ pc'[t] = "notify"
      /\ \A g \in Future \ {f} : signals'[g] = signals[g]
      /\ \A u \in Thread \ {t} : toNotify'[u] = toNotify[u] /\ pc'[u] = pc[u]
  BY <1>1 DEF TypeOK
<1>3. toNotify[t] = {}
  BY <1>1 DEF SignalInv, TakenWaits
<1>4. RegisteredWaits'
  <2> SUFFICES ASSUME NEW g \in Future, NEW u \in signals'[g]
               PROVE  /\ pc'[u] = "wait" /\ on[u] = g /\ ~flag[u]
                      /\ \A v \in Thread : u \notin toNotify'[v]
    BY <1>1 DEF RegisteredWaits
  <2>1. g # f /\ u \in signals[g] /\ u \in Thread
    BY <1>2 DEF TypeOK
  <2>2. pc[u] = "wait" /\ on[u] = g /\ ~flag[u] /\ \A v \in Thread : u \notin toNotify[v]
    BY <2>1 DEF SignalInv, RegisteredWaits
  <2>3. u # t /\ u \notin signals[f]
    BY <1>1, <2>1, <2>2 DEF SignalInv, RegisteredWaits
  <2> QED
    BY <1>2, <2>1, <2>2, <2>3
<1>5. TakenWaits'
  <2> SUFFICES ASSUME NEW u \in Thread, NEW v \in toNotify'[u]
               PROVE  /\ pc'[u] = "notify" /\ pc'[v] = "wait" /\ ~flag[v] /\ Settled(on[v])'
                      /\ \A w \in Thread : v \in toNotify'[w] => u = w
    BY <1>1 DEF TakenWaits
  <2>1. CASE u = t
    <3>1. v \in Thread /\ pc[v] = "wait" /\ on[v] = f /\ ~flag[v]
      BY <1>2, <2>1 DEF SignalInv, RegisteredWaits, TypeOK
    <3>2. \A w \in Thread : v \notin toNotify[w]
      BY <1>2, <2>1 DEF SignalInv, RegisteredWaits
    <3>3. v # t
      BY <1>1, <3>1
    <3> QED
      BY <1>1, <1>2, <2>1, <3>1, <3>2, <3>3
  <2>2. CASE u # t
    <3>1. v \in toNotify[u] /\ v \in Thread
      BY <1>2, <2>2 DEF TypeOK
    <3>2. /\ pc[u] = "notify" /\ pc[v] = "wait" /\ ~flag[v] /\ Settled(on[v])
          /\ \A w \in Thread : v \in toNotify[w] => u = w
      BY <3>1 DEF SignalInv, TakenWaits
    <3>3. v # t /\ v \notin signals[f]
      BY <1>1, <3>1, <3>2 DEF SignalInv, RegisteredWaits
    <3>4. on[v] \in Future
      BY <3>1, <3>2 DEF SignalInv, AwaitedIsNamed
    <3> QED
      BY <1>1, <1>2, <2>2, <3>1, <3>2, <3>3, <3>4, SettledStays
  <2> QED
    BY <2>1, <2>2
<1>6. WokenIsSettled'
  <2>1. \A u \in Thread : pc[u] \in {"wait", "reread"} => on[u] \in Future
    BY DEF SignalInv, AwaitedIsNamed
  <2> QED
    BY <1>1, <1>2, <2>1, SettledStays DEF SignalInv, WokenIsSettled
<1>7. SignalIsKept'
  <2> SUFFICES ASSUME NEW u \in Thread, pc'[u] = "wait"
               PROVE  \/ u \in signals'[on[u]] \/ flag[u]
                      \/ \E v \in Thread : pc'[v] = "notify" /\ u \in toNotify'[v]
    BY <1>1 DEF SignalIsKept
  <2>1. u # t /\ pc[u] = "wait" /\ on[u] \in Future
    BY <1>2 DEF SignalInv, AwaitedIsNamed
  <2>2. CASE u \in signals[on[u]]
    BY <1>2, <2>1, <2>2
  <2>3. CASE flag[u]
    BY <2>3
  <2>4. CASE \E v \in Thread : pc[v] = "notify" /\ u \in toNotify[v]
    BY <1>1, <1>2, <2>4
  <2> QED
    BY <2>1, <2>2, <2>3, <2>4 DEF SignalInv, SignalIsKept
<1>8. AwaitTellsTheTruth'
  <2>1. \A u \in Thread : result[u] # "none" => on[u] \in Future
    BY DEF SignalInv, AwaitedIsNamed
  <2> QED
    BY <1>1, <2>1 DEF AwaitTellsTheTruth, SignalInv, FutureGrows, Settled
<1> QED
  BY <1>4, <1>5, <1>6, <1>7, <1>8 DEF SignalInv

LEMMA NotifyKeepsSignals ==
  ASSUME TypeOK, SignalInv, AwaitedIsNamed', NEW t \in Thread, Notify(t), toNotify[t] # {}
  PROVE  SignalInv'
<1>1. PICK u \in toNotify[t] : /\ flag' = [flag EXCEPT ![u] = TRUE]
                              /\ toNotify' = [toNotify EXCEPT ![t] = @ \ {u}]
  BY DEF Notify
<1>2. /\ u \in Thread /\ pc[t] = "notify" /\ pc[u] = "wait" /\ Settled(on[u])
      /\ \A v \in Thread : u \in toNotify[v] => t = v
  BY <1>1 DEF SignalInv, TakenWaits, TypeOK
<1>3. UNCHANGED <<future, signals, on, result, pc>>
  BY DEF Notify
<1>4. /\ flag'[u] /\ \A v \in Thread \ {u} : flag'[v] = flag[v]
      /\ \A v \in Thread : toNotify'[v] = toNotify[v] \ {u}
  BY <1>1, <1>2 DEF TypeOK
<1>5. RegisteredWaits'
  <2>1. \A f \in Future : u \notin signals[f]
    BY <1>1 DEF SignalInv, RegisteredWaits
  <2>2. \A f \in Future : signals[f] \subseteq Thread
    BY DEF TypeOK
  <2> QED
    BY <1>3, <1>4, <2>1, <2>2 DEF SignalInv, RegisteredWaits
<1>6. TakenWaits'
  <2>1. \A v \in Thread : toNotify[v] \subseteq Thread
    BY DEF TypeOK
  <2> QED
    BY <1>3, <1>4, <2>1 DEF SignalInv, TakenWaits, Settled
<1>7. WokenIsSettled'
  BY <1>2, <1>3, <1>4 DEF SignalInv, WokenIsSettled, Settled
<1>8. SignalIsKept'
  <2> SUFFICES ASSUME NEW v \in Thread, pc[v] = "wait", v # u
               PROVE  \/ v \in signals[on[v]] \/ flag[v]
                      \/ \E w \in Thread : pc[w] = "notify" /\ v \in toNotify'[w]
    BY <1>3, <1>4 DEF SignalIsKept
  <2> QED
    BY <1>4 DEF SignalInv, SignalIsKept
<1>9. AwaitTellsTheTruth'
  BY <1>3 DEF SignalInv, AwaitTellsTheTruth
<1> QED
  BY <1>5, <1>6, <1>7, <1>8, <1>9 DEF SignalInv

LEMMA NotifiedAllKeepsSignals ==
  ASSUME TypeOK, SignalInv, AwaitedIsNamed', NEW t \in Thread, Notify(t), toNotify[t] = {}
  PROVE  SignalInv'
<1>1. /\ pc[t] = "notify" /\ pc' = [pc EXCEPT ![t] = "idle"]
      /\ UNCHANGED <<future, signals, flag, toNotify, on, result>>
  BY DEF Notify
<1>2. RegisteredWaits'
  BY <1>1 DEF RegisteredWaits, SignalInv, TypeOK
<1>3. TakenWaits'
  <2> SUFFICES ASSUME NEW u \in Thread, NEW v \in toNotify[u]
               PROVE  pc'[u] = "notify" /\ pc'[v] = "wait"
    BY <1>1 DEF TakenWaits, SignalInv, Settled
  <2>1. v \in Thread /\ v # t /\ u # t
    BY <1>1 DEF SignalInv, TakenWaits, TypeOK
  <2> QED
    BY <1>1, <2>1 DEF SignalInv, TakenWaits, TypeOK
<1>4. WokenIsSettled'
  BY <1>1 DEF WokenIsSettled, SignalInv, TypeOK, Settled
<1>5. SignalIsKept'
  BY <1>1 DEF SignalIsKept, SignalInv, TypeOK
<1>6. AwaitTellsTheTruth'
  BY <1>1 DEF SignalInv, AwaitTellsTheTruth
<1> QED
  BY <1>2, <1>3, <1>4, <1>5, <1>6 DEF SignalInv

LEMMA UnchangedKeepsSignals ==
  ASSUME TypeOK, SignalInv, FutureGrows, AwaitedIsNamed',
         UNCHANGED <<signals, flag, on, toNotify, result, pc>>
  PROVE  SignalInv'
<1>1. RegisteredWaits'
  BY DEF RegisteredWaits, SignalInv
<1>2. TakenWaits'
  <2>1. \A u \in Thread : \A v \in toNotify[u] : on[v] \in Future
    BY DEF SignalInv, TakenWaits, AwaitedIsNamed, TypeOK
  <2> QED
    BY <2>1, SettledStays DEF TakenWaits, SignalInv
<1>3. WokenIsSettled'
  <2>1. \A u \in Thread : pc[u] \in {"wait", "reread"} => on[u] \in Future
    BY DEF SignalInv, AwaitedIsNamed
  <2> QED
    BY <2>1, SettledStays DEF WokenIsSettled, SignalInv
<1>4. SignalIsKept'
  BY DEF SignalIsKept, SignalInv
<1>5. AwaitTellsTheTruth'
  <2>1. \A u \in Thread : result[u] # "none" => on[u] \in Future
    BY DEF SignalInv, AwaitedIsNamed
  <2> QED
    BY <2>1 DEF AwaitTellsTheTruth, SignalInv, FutureGrows, Settled
<1> QED
  BY <1>1, <1>2, <1>3, <1>4, <1>5 DEF SignalInv

LEMMA SignalStep ==
  ASSUME TypeOK, SignalInv, [Next]_vars
  PROVE  SignalInv'
<1>1. FutureGrows /\ AwaitedIsNamed'
  BY FutureGrowsStep, AwaitedIsNamedStep DEF SignalInv
<1>2. ASSUME NEW t \in Thread, NEW f \in Future, CallAsync(t, f)
      PROVE  SignalInv'
  BY <1>1, <1>2, QuietKeepsSignals DEF CallAsync, Calls, Elsewhere
<1>3. ASSUME NEW t \in Thread, NEW f \in Future, Await(t, f)
      PROVE  SignalInv'
  BY <1>1, <1>3, AwaitKeepsSignals
<1>4. ASSUME NEW t \in Thread, NEW f \in Future, Settle(t, f)
      PROVE  SignalInv'
  <2>1. CASE MaySettle(f)
    BY <1>1, <1>4, <2>1, SettleKeepsSignals
  <2>2. CASE ~MaySettle(f)
    BY <1>1, <1>4, <2>2, UnchangedKeepsSignals DEF Settle
  <2> QED
    BY <2>1, <2>2
<1>5. ASSUME NEW t \in Thread, PumpReturns(t)
      PROVE  SignalInv'
  BY <1>1, <1>5, QuietKeepsSignals DEF PumpReturns, Pumping, Elsewhere
<1>6. ASSUME NEW t \in Thread, Recheck(t) \/ Reread(t)
      PROVE  SignalInv'
  BY <1>1, <1>6, AnswerKeepsSignals
<1>7. ASSUME NEW t \in Thread, Register(t) \/ WaitEnds(t)
      PROVE  SignalInv'
  BY <1>1, <1>7, RegisterKeepsSignals, WaitEndsKeepsSignals
<1>8. ASSUME NEW t \in Thread, Notify(t)
      PROVE  SignalInv'
  BY <1>1, <1>8, NotifyKeepsSignals, NotifiedAllKeepsSignals
<1>9. ASSUME UNCHANGED <<signals, flag, on, toNotify, result, pc>>
      PROVE  SignalInv'
  BY <1>1, <1>9, UnchangedKeepsSignals
<1> QED
  BY <1>2, <1>3, <1>4, <1>5, <1>6, <1>7, <1>8, <1>9
     DEF Next, ThreadGoesOn, Create, EndTask, TaskAwaits, threadVars, vars

-----------------------------------------------------------------------------
(* Coroutines.  Settling f wakes those that await it; the queue loses at   *)
(* most its head, the coroutine that ends.                                 *)
LEMMA ReadyRange ==
  ASSUME TypeOK
  PROVE  ReadyIsAlive <=>
           /\ \A i, j \in DOMAIN ready : ready[i] = ready[j] => i = j
           /\ \A h \in Range(ready) : awaits[h] = Nobody /\ ~ended[h] /\ future[h] # "none"
  BY DEF ReadyIsAlive, Range

LEMMA SettlingKeepsTasks ==
  ASSUME TypeOK, TypeOK', TaskInv, NEW f \in Future, future[f] = "pending",
         NEW s \in {"resolved", "rejected"}, future' = [future EXCEPT ![f] = s],
         NEW rest \in Seq(Future), Wakes(f, rest),
         \A i, j \in DOMAIN rest : rest[i] = rest[j] => i = j,
         Range(rest) \subseteq Range(ready),
         \A h \in Future : ended'[h] =>
           ended[h] \/ (h \in Range(ready) /\ h \notin Range(rest))
  PROVE  TaskInv'
<1>1. Range(ready) \subseteq Future
  BY RangeOfSeq DEF TypeOK
<1>2. \A h \in Range(ready) : awaits[h] = Nobody /\ ~ended[h] /\ future[h] # "none"
  BY ReadyRange DEF TaskInv
<1>3. /\ \A h \in Future : awaits'[h] = IF awaits[h] = f THEN Nobody ELSE awaits[h]
      /\ \A g \in Future \ {f} : future'[g] = future[g]
      /\ future'[f] # "none"
  BY DEF Wakes, TypeOK
<1>4. f # Nobody
  BY FuturesAssumption DEF Future, Nobody
<1>5. Range(rest) \cap Awaiting(f) = {}
  BY <1>2, <1>4 DEF Awaiting
<1>6. PausedIsAlive'
  <2> SUFFICES ASSUME NEW h \in Future, awaits'[h] # Nobody
               PROVE  ~ended'[h] /\ future'[h] # "none" /\ future'[awaits'[h]] = "pending"
    BY DEF PausedIsAlive
  <2>1. awaits[h] \in Future /\ awaits[h] # f /\ awaits'[h] = awaits[h]
    BY <1>3 DEF TypeOK
  <2>2. ~ended[h] /\ future[h] # "none" /\ future[awaits[h]] = "pending"
    BY <1>3, <2>1 DEF TaskInv, PausedIsAlive
  <2>3. h \notin Range(ready)
    BY <1>2, <1>3, <2>1
  <2> QED
    BY <1>3, <2>1, <2>2, <2>3
<1>7. /\ \A i, j \in DOMAIN ready' : ready'[i] = ready'[j] => i = j
      /\ Range(ready') = Range(rest) \cup Awaiting(f)
  BY <1>5, WakesDistinct, WakesList DEF TypeOK
<1>8. ASSUME NEW h \in Range(ready')
      PROVE  awaits'[h] = Nobody /\ ~ended'[h] /\ future'[h] # "none"
  <2>1. CASE h \in Range(rest)
    BY <1>1, <1>2, <1>3, <2>1
  <2>2. CASE h \in Awaiting(f)
    <3>1. h \in Future /\ awaits[h] = f
      BY <2>2 DEF Awaiting
    <3>2. ~ended[h] /\ future[h] # "none" /\ h \notin Range(ready)
      BY <1>2, <1>4, <3>1 DEF TaskInv, PausedIsAlive
    <3> QED
      BY <1>3, <3>1, <3>2
  <2> QED
    BY <1>7, <2>1, <2>2
<1>9. ReadyIsAlive'
  BY <1>7, <1>8, TypeOK' DEF ReadyIsAlive, Range
<1>10. EndedWasMade'
  BY <1>1, <1>2, <1>3 DEF EndedWasMade, TaskInv
<1> QED
  BY <1>6, <1>9, <1>10 DEF TaskInv

(* The rest of the queue, when its head is taken.                          *)
LEMMA TailOfReady ==
  ASSUME TypeOK, TaskInv, ready # <<>>
  PROVE  /\ Head(ready) \in Future /\ Tail(ready) \in Seq(Future)
         /\ Head(ready) \in Range(ready) /\ Head(ready) \notin Range(Tail(ready))
         /\ Range(Tail(ready)) \subseteq Range(ready)
         /\ \A i, j \in DOMAIN Tail(ready) : Tail(ready)[i] = Tail(ready)[j] => i = j
<1> DEFINE n == Len(ready)
<1>1. /\ n \in Nat \ {0} /\ DOMAIN ready = 1..n
      /\ \A i, j \in 1..n : ready[i] = ready[j] => i = j
  BY EmptySeq, LenProperties DEF TypeOK, TaskInv, ReadyIsAlive
<1>2. /\ Head(ready) \in Future /\ Tail(ready) \in Seq(Future) /\ Len(Tail(ready)) = n - 1
      /\ \A i \in 1..n - 1 : Tail(ready)[i] = ready[i + 1]
  BY HeadTailProperties DEF TypeOK
<1>3. DOMAIN Tail(ready) = 1..n - 1
  BY <1>2, LenProperties
<1>4. Head(ready) = ready[1]
  OBVIOUS
<1>5. \A i \in 1..n - 1 : i + 1 \in 1..n /\ i + 1 # 1
  BY <1>1
<1> QED
  BY <1>1, <1>2, <1>3, <1>4, <1>5 DEF Range

LEMMA TaskStep ==
  ASSUME TypeOK, TaskInv, [Next]_vars
  PROVE  TaskInv'
<1>1. TypeOK' /\ FutureGrows
  BY TypeStep, FutureGrowsStep
<1>2. ASSUME NEW t \in Thread, NEW f \in Future, Create(t, f)
      PROVE  TaskInv'
  <2>1. /\ future[f] = "none" /\ future' = [future EXCEPT ![f] = "pending"]
        /\ UNCHANGED <<ready, awaits, ended>>
    BY <1>2 DEF Create, Fresh, loopVars
  <2>2. PausedIsAlive'
    BY <2>1 DEF TaskInv, PausedIsAlive, TypeOK
  <2>3. ReadyIsAlive'
    BY <2>1 DEF TaskInv, ReadyIsAlive, TypeOK
  <2>4. EndedWasMade'
    BY <2>1 DEF TaskInv, EndedWasMade, TypeOK
  <2> QED
    BY <2>2, <2>3, <2>4 DEF TaskInv
<1>3. ASSUME NEW t \in Thread, NEW f \in Future, CallAsync(t, f)
      PROVE  TaskInv'
  <2>1. /\ future[f] = "none" /\ future' = [future EXCEPT ![f] = "pending"]
        /\ ready' = Append(ready, f) /\ UNCHANGED <<awaits, ended>>
    BY <1>3 DEF CallAsync, Fresh
  <2>2. awaits[f] = Nobody /\ ~ended[f]
    BY <2>1 DEF TaskInv, PausedIsAlive, EndedWasMade
  <2>3. PausedIsAlive'
    BY <2>1 DEF TaskInv, PausedIsAlive, TypeOK
  <2>4. ReadyIsAlive'
    <3> DEFINE n == Len(ready)
    <3>1. /\ n \in Nat /\ DOMAIN ready = 1..n /\ DOMAIN ready' = 1..n + 1
          /\ \A i \in 1..n : ready'[i] = ready[i] /\ ready[i] \in Future
          /\ ready'[n + 1] = f
      BY <2>1, LenProperties, AppendProperties DEF TypeOK
    <3>2. \A i \in 1..n : future[ready[i]] # "none" /\ ready[i] # f
      BY <2>1, <3>1 DEF TaskInv, ReadyIsAlive
    <3>3. \A i, j \in 1..n + 1 : ready'[i] = ready'[j] => i = j
      BY <3>1, <3>2 DEF TaskInv, ReadyIsAlive
    <3>4. \A i \in 1..n : awaits[ready[i]] = Nobody /\ ~ended[ready[i]]
      BY <3>1 DEF TaskInv, ReadyIsAlive
    <3>5. \A i \in 1..n + 1 : i \in 1..n \/ i = n + 1
      BY <3>1
    <3>6. \A i \in 1..n : future'[ready[i]] # "none"
      BY <1>1, <3>1, <3>2 DEF FutureGrows
    <3>7. future'[f] # "none"
      BY <2>1 DEF TypeOK
    <3> QED
      BY <2>1, <2>2, <3>1, <3>3, <3>4, <3>5, <3>6, <3>7 DEF ReadyIsAlive
  <2>5. EndedWasMade'
    BY <2>1 DEF TaskInv, EndedWasMade, TypeOK
  <2> QED
    BY <2>3, <2>4, <2>5 DEF TaskInv
<1>4. ASSUME UNCHANGED <<future, ready, awaits, ended>>
      PROVE  TaskInv'
  BY <1>4 DEF TaskInv, PausedIsAlive, ReadyIsAlive, EndedWasMade
<1>5. ASSUME NEW t \in Thread, NEW f \in Future, Settle(t, f)
      PROVE  TaskInv'
  <2>1. CASE MaySettle(f)
    <3>1. PICK s \in {"resolved", "rejected"} : future' = [future EXCEPT ![f] = s]
      BY <1>5, <2>1 DEF Settle
    <3>2. future[f] = "pending" /\ Wakes(f, ready) /\ UNCHANGED ended
      BY <1>5, <2>1 DEF Settle, MaySettle
    <3>3. ready \in Seq(Future) /\ \A i, j \in DOMAIN ready : ready[i] = ready[j] => i = j
      BY DEF TypeOK, TaskInv, ReadyIsAlive
    <3> QED
      BY <1>1, <3>1, <3>2, <3>3, SettlingKeepsTasks
  <2>2. CASE ~MaySettle(f)
    BY <1>4, <1>5, <2>2 DEF Settle
  <2> QED
    BY <2>1, <2>2
<1>6. ASSUME NEW t \in Thread, EndTask(t)
      PROVE  TaskInv'
  <2> DEFINE h == Head(ready)
             rest == Tail(ready)
  <2>1. /\ h \in Future /\ rest \in Seq(Future)
        /\ h \in Range(ready) /\ h \notin Range(rest) /\ Range(rest) \subseteq Range(ready)
        /\ \A i, j \in DOMAIN rest : rest[i] = rest[j] => i = j
    BY <1>6, TailOfReady DEF EndTask
  <2>2. ended' = [ended EXCEPT ![h] = TRUE]
    BY <1>6 DEF EndTask
  <2>3. \A g \in Future : ended'[g] => ended[g] \/ g = h
    BY <2>2 DEF TypeOK
  <2>4. CASE future[h] = "pending"
    <3>1. PICK s \in {"resolved", "rejected"} : future' = [future EXCEPT ![h] = s]
      BY <1>6, <2>4 DEF EndTask
    <3>2. Wakes(h, rest)
      BY <1>6, <2>4 DEF EndTask
    <3> QED
      BY <1>1, <2>1, <2>3, <2>4, <3>1, <3>2, SettlingKeepsTasks
  <2>5. CASE future[h] # "pending"
    <3>1. ready' = rest /\ UNCHANGED <<future, awaits>>
      BY <1>6, <2>5 DEF EndTask
    <3>2. \A g \in Range(ready) : awaits[g] = Nobody /\ ~ended[g] /\ future[g] # "none"
      BY ReadyRange DEF TaskInv
    <3>3. PausedIsAlive'
      BY <2>1, <2>3, <3>1, <3>2 DEF TaskInv, PausedIsAlive
    <3>4. ReadyIsAlive'
      <4>1. \A g \in Range(rest) : ~ended'[g]
        <5>1. Range(rest) \subseteq Future
          BY <2>1, RangeOfSeq
        <5> QED
          BY <2>1, <2>3, <3>2, <5>1
      <4> QED
        BY <2>1, <3>1, <3>2, <4>1 DEF ReadyIsAlive, Range
    <3>5. EndedWasMade'
      BY <2>1, <2>3, <3>1, <3>2 DEF TaskInv, EndedWasMade
    <3> QED
      BY <3>3, <3>4, <3>5 DEF TaskInv
  <2> QED
    BY <2>4, <2>5
<1>7. ASSUME NEW t \in Thread, NEW g \in Future, TaskAwaits(t, g)
      PROVE  TaskInv'
  <2> DEFINE h == Head(ready)
             rest == Tail(ready)
  <2>1. /\ h \in Future /\ rest \in Seq(Future)
        /\ h \in Range(ready) /\ h \notin Range(rest) /\ Range(rest) \subseteq Range(ready)
        /\ \A i, j \in DOMAIN rest : rest[i] = rest[j] => i = j
    BY <1>7, TailOfReady DEF TaskAwaits
  <2>2. CASE future[g] = "pending"
    <3>1. /\ ready' = rest /\ awaits' = [awaits EXCEPT ![h] = g]
          /\ UNCHANGED <<future, ended>>
      BY <1>7, <2>2 DEF TaskAwaits
    <3>2. \A x \in Range(ready) : awaits[x] = Nobody /\ ~ended[x] /\ future[x] # "none"
      BY ReadyRange DEF TaskInv
    <3>3. /\ awaits'[h] = g
          /\ \A x \in Future \ {h} : awaits'[x] = awaits[x]
      BY <2>1, <3>1 DEF TypeOK
    <3>4. PausedIsAlive'
      BY <2>1, <2>2, <3>1, <3>2, <3>3 DEF TaskInv, PausedIsAlive
    <3>5. ReadyIsAlive'
      <4>1. Range(rest) \subseteq Future \ {h}
        BY <2>1, RangeOfSeq
      <4> QED
        BY <2>1, <3>1, <3>2, <3>3, <4>1 DEF ReadyIsAlive, Range
    <3>6. EndedWasMade'
      BY <3>1 DEF TaskInv, EndedWasMade
    <3> QED
      BY <3>4, <3>5, <3>6 DEF TaskInv
  <2>3. CASE future[g] # "pending"
    BY <1>4, <1>7, <2>3 DEF TaskAwaits
  <2> QED
    BY <2>2, <2>3
<1> QED
  BY <1>2, <1>3, <1>4, <1>5, <1>6, <1>7
     DEF Next, ThreadGoesOn, Await, PumpReturns, Recheck, Register, WaitEnds, Reread,
         Notify, loopVars, vars

-----------------------------------------------------------------------------
LEMMA InitInv == Init => Inv
<1> SUFFICES ASSUME Init PROVE Inv
  OBVIOUS
<1>1. SignalInv
  BY DEF Init, SignalInv, AwaitedIsNamed, RegisteredWaits, TakenWaits, WokenIsSettled,
         SignalIsKept, AwaitTellsTheTruth
<1>2. TaskInv
  BY DEF Init, TaskInv, PausedIsAlive, ReadyIsAlive, EndedWasMade
<1> QED
  BY <1>1, <1>2, InitType DEF Inv

LEMMA InvStep == Inv /\ [Next]_vars => Inv'
  BY TypeStep, SignalStep, TaskStep DEF Inv

LEMMA Invariance == Spec => []Inv
  BY InitInv, InvStep, PTL DEF Spec

(* Every variable keeps its range, however threads, coroutines and the     *)
(* pump interleave.                                                        *)
THEOREM TypeCorrect == Spec => []TypeOK
  BY Invariance, PTL DEF Inv

(* msAwait never returns to find its future still pending, and what it     *)
(* returned is what the future was settled with, for good: a signal is set *)
(* only by a thread that settled the future, and only for a thread that    *)
(* registered for this future and still waits.                             *)
THEOREM AwaitTellsTheTruthAlways == Spec => []AwaitTellsTheTruth
  BY Invariance, PTL DEF Inv, SignalInv

(* A waiting thread's signal is registered, in the hands of a thread that  *)
(* is about to notify it, or set.                                          *)
THEOREM SignalIsKeptAlways == Spec => []SignalIsKept
  BY Invariance, PTL DEF Inv, SignalInv

(* No coroutine stays paused on a settled future, and a live one is ready  *)
(* or paused, once.                                                        *)
THEOREM NoCoroutineForgottenAlways == Spec => []NoCoroutineForgotten
<1>1. Inv => NoCoroutineForgotten
  BY DEF Inv, TaskInv, PausedIsAlive, ReadyIsAlive, NoCoroutineForgotten, TypeOK
<1> QED
  BY <1>1, Invariance, PTL

(* What a future is settled with stays: a second resolve or reject, by a   *)
(* thread or by the coroutine's own end, changes nothing.                  *)
THEOREM SettledForGood == Spec => [][FutureGrows]_vars
  BY Invariance, FutureGrowsStep, PTL DEF Inv, Spec
=============================================================================
