------------------------ MODULE ConcurrentMark_proofs ------------------------
(***************************************************************************)
(* The safety of the concurrent major cycle, for any number of objects,    *)
(* roots and marker threads.                                               *)
(***************************************************************************)
EXTENDS ConcurrentMark, FiniteSetTheorems, SequenceTheorems, TLAPS

-----------------------------------------------------------------------------
(* The inductive invariant: the protocol of the threads.                   *)
Nobody == \A m \in Marker : mark[m] = "done"
Quiet  == requested = FALSE /\ parked = FALSE /\ closure = FALSE /\ reconcile = FALSE

\* between cycles, with or without the coordinator thread
IdleInv ==
  phase = "Idle" =>
    /\ cpc \in {"off", "recv"} /\ Quiet /\ Nobody
    /\ gray = <<>> /\ managed = {}
    /\ \A n \in old : color[n] = "White"
    /\ \/ trigger = <<>>
       \/ trigger = <<"Shutdown">> /\ mpc = "join" /\ cpc = "recv"

\* a cycle that marks: where the coordinator is, and what it has said
MarkInv ==
  phase = "ConcurrentMark" =>
    /\ reconcile = FALSE
    /\ \/ cpc = "recv" /\ trigger = <<"Major">> /\ Quiet /\ Nobody
       \/ cpc = "mark" /\ trigger = <<>> /\ Quiet /\ mark[Coordinator] = "done"
       \/ cpc = "drain" /\ trigger = <<>> /\ Quiet /\ \A w \in Worker : mark[w] = "done"
       \/ cpc = "ask1" /\ trigger = <<>> /\ Nobody /\ requested = TRUE /\ closure = FALSE
       \/ cpc = "spin" /\ trigger = <<>> /\ Nobody /\ requested = FALSE /\ closure = TRUE /\ parked = TRUE

SweepInv ==
  phase = "ConcurrentSweep" =>
    /\ closure = FALSE /\ gray = <<>> /\ trigger = <<>> /\ Nobody
    /\ \/ cpc = "spin" /\ Quiet /\ dead = {}
       \/ cpc = "sweep" /\ Quiet /\ todo \subseteq managed \ dead
       \/ cpc = "ask2" /\ requested = TRUE /\ reconcile = FALSE
       \/ cpc = "recv" /\ requested = FALSE /\ reconcile = TRUE /\ parked = TRUE

\* the mutator shades while it marks, and waits to join between cycles
MutatorInv ==
  /\ parked = TRUE <=> mpc = "parked"
  /\ mpc \in {"test", "paint"} <=> shades # <<>>
  /\ mpc \in {"test", "paint"} => phase = "ConcurrentMark"
  /\ mpc = "join" => phase = "Idle"
  /\ shades \in Seq(Object)

Tracing == {w \in Worker : mark[w] = "trace"}
MarkerInv ==
  /\ active = Cardinality(Tracing)
  /\ mark[Coordinator] # "enter"
  /\ \A m \in Marker : mark[m] \in {"enter", "trace"} => held[m] \in managed

\* boxes: a freed one may be young again at once
BoxInv ==
  /\ young \cap (old \ dead) = {}
  /\ managed \subseteq old /\ doomed \subseteq managed /\ dead \subseteq managed
  /\ phase # "ConcurrentSweep" => dead = {}

ThreadInv == IdleInv /\ MarkInv /\ SweepInv /\ MutatorInv /\ MarkerInv /\ BoxInv

-----------------------------------------------------------------------------
(* The inductive invariant: what is marked and what is garbage.            *)

\* what the markers have in hand, and what they have or will be given
Carried == {held[m] : m \in {k \in Marker : mark[k] \in {"enter", "trace"}}}
Sources == {n \in managed : color[n] # "Black" /\ n \in ToSet(gray) \cup ToSet(shades) \cup Carried}
Closed(C) ==
  \A n \in C : fields[n] \in managed /\ color[fields[n]] = "White" => fields[n] \in C

\* While marking, whatever was not garbage when the cycle began is black or
\* will be reached, through white objects, from what the markers have to do.
Protected ==
  phase = "ConcurrentMark" /\ careful =>
    \A C \in SUBSET managed :
      Sources \subseteq C /\ Closed(C) => \A n \in managed \ doomed : color[n] = "Black" \/ n \in C
\* a gray object is in the queue, or some marker has it
GrayIsQueued ==
  phase = "ConcurrentMark" =>
    \A n \in managed : color[n] = "Gray" => n \in ToSet(gray) \cup Carried
\* nobody ever sees what was garbage when the cycle began
GarbageIsWhite ==
  /\ \A n \in doomed \ dead : color[n] = "White"
  /\ doomed \cap (ToSet(gray) \cup ToSet(shades) \cup Carried) = {}
  /\ \A n \in managed \ doomed : fields[n] \notin doomed \ dead
  /\ \A x \in Root : roots[x] \notin doomed \ dead
\* the coordinator has it before it, or behind it
GarbageGoes ==
  phase = "ConcurrentSweep" =>
    /\ cpc = "sweep" => doomed \ dead \subseteq todo
    /\ cpc \in {"ask2", "recv"} => doomed \subseteq dead
\* once marking is over, nothing else is white
SweepIsRight ==
  phase = "ConcurrentSweep" /\ careful =>
    dead \subseteq doomed /\ \A n \in managed \ doomed : color[n] # "White"

\* a reference leads to a box that has not been freed since it was taken
NoStale ==
  /\ \A x \in Root : roots[x] \in Live \cup {NoRef, Gone}
  /\ \A n \in Object : fields[n] \in Live \cup {NoRef, Gone}
Kept == Live \ (doomed \ dead)
NoDanglers ==
  careful =>
    /\ \A x \in Root : roots[x] \in Kept \cup {NoRef}
    /\ \A n \in Kept : fields[n] \in Kept \cup {NoRef}
    /\ phase # "ConcurrentSweep" => \A n \in Live : fields[n] # Gone
    /\ \A n \in old \ dead : fields[n] \in young => n \in dirty

ColorInv ==
  /\ Protected /\ GrayIsQueued /\ GarbageIsWhite /\ GarbageGoes /\ SweepIsRight
  /\ NoStale /\ NoDanglers
Inv == TypeOK /\ ThreadInv /\ ColorInv

-----------------------------------------------------------------------------
(* Sequences as sets.                                                      *)
LEMMA AppendToSet ==
  ASSUME NEW S, NEW s \in Seq(S), NEW e \in S
  PROVE  Append(s, e) \in Seq(S) /\ Append(s, e) # <<>> /\ ToSet(Append(s, e)) = ToSet(s) \cup {e}
<1>1. /\ Append(s, e) \in Seq(S) /\ Len(Append(s, e)) = Len(s) + 1
      /\ \A i \in 1..Len(s) : Append(s, e)[i] = s[i]
      /\ Append(s, e)[Len(s) + 1] = e
  BY AppendProperties
<1>2. Len(s) \in Nat /\ DOMAIN s = 1..Len(s) /\ DOMAIN Append(s, e) = 1..(Len(s) + 1)
  BY <1>1, LenProperties
<1> QED
  BY <1>1, <1>2, EmptySeq DEF ToSet

LEMMA TailToSet ==
  ASSUME NEW S, NEW s \in Seq(S), s # <<>>
  PROVE  /\ Head(s) \in S /\ Tail(s) \in Seq(S) /\ Head(s) \in ToSet(s)
         /\ ToSet(s) = {Head(s)} \cup ToSet(Tail(s))
<1>1. /\ Tail(s) \in Seq(S) /\ Len(Tail(s)) = Len(s) - 1 /\ Len(s) \in Nat \ {0}
      /\ \A i \in 1..Len(Tail(s)) : Tail(s)[i] = s[i + 1]
      /\ Head(s) = s[1] /\ Head(s) \in S
  BY HeadTailProperties, EmptySeq, LenProperties
<1>2. DOMAIN s = 1..Len(s) /\ DOMAIN Tail(s) = 1..(Len(s) - 1)
  BY <1>1, LenProperties
<1>3. \A i \in 2..Len(s) : i - 1 \in 1..(Len(s) - 1) /\ Tail(s)[i - 1] = s[i]
  BY <1>1
<1>4. ToSet(s) \subseteq {Head(s)} \cup ToSet(Tail(s))
  <2> SUFFICES ASSUME NEW i \in 1..Len(s)
               PROVE  s[i] = s[1] \/ s[i] \in ToSet(Tail(s))
    BY <1>1, <1>2 DEF ToSet
  <2>1. CASE i = 1
    BY <2>1
  <2>2. CASE i # 1
    <3>1. Len(s) \in Nat
      BY <1>1
    <3>2. i \in 2..Len(s)
      BY <2>2, <3>1
    <3>3. i - 1 \in DOMAIN Tail(s) /\ Tail(s)[i - 1] = s[i]
      BY <1>2, <1>3, <3>2
    <3> QED
      BY <3>3 DEF ToSet
  <2> QED
    BY <2>1, <2>2
<1>5. {Head(s)} \cup ToSet(Tail(s)) \subseteq ToSet(s)
  BY <1>1, <1>2 DEF ToSet
<1> QED
  BY <1>1, <1>4, <1>5

LEMMA FrontToSet ==
  ASSUME NEW S, NEW s \in Seq(S), s # <<>>
  PROVE  /\ Last(s) \in S /\ Front(s) \in Seq(S)
         /\ ToSet(s) = {Last(s)} \cup ToSet(Front(s))
<1>1. Len(s) \in Nat \ {0} /\ DOMAIN s = 1..Len(s) /\ \A i \in 1..Len(s) : s[i] \in S
  BY EmptySeq, LenProperties, ElementOfSeq
<1>2. Last(s) = s[Len(s)] /\ Front(s) = SubSeq(s, 1, Len(s) - 1)
  BY DEF Last, Front
<1>3. /\ Front(s) \in Seq(S) /\ Len(Front(s)) = Len(s) - 1
      /\ \A i \in 1..Len(s) - 1 : Front(s)[i] = s[i]
  <2>1. \A i \in 1..(Len(s) - 1) : s[i] \in S
    BY <1>1
  <2>2. /\ SubSeq(s, 1, Len(s) - 1) \in Seq(S)
        /\ Len(SubSeq(s, 1, Len(s) - 1)) = IF 1 <= Len(s) - 1 THEN Len(s) - 1 - 1 + 1 ELSE 0
        /\ \A i \in 1..(Len(s) - 1 - 1 + 1) : SubSeq(s, 1, Len(s) - 1)[i] = s[1 + i - 1]
    BY <1>1, <2>1, SubSeqProperties
  <2> QED
    BY <1>1, <1>2, <2>2
<1>4. DOMAIN Front(s) = 1..(Len(s) - 1)
  BY <1>3, LenProperties
<1>5. Last(s) \in S /\ Last(s) \in ToSet(s)
  BY <1>1, <1>2 DEF ToSet
<1>6. ToSet(s) \subseteq {Last(s)} \cup ToSet(Front(s))
  <2> SUFFICES ASSUME NEW i \in 1..Len(s)
               PROVE  s[i] = s[Len(s)] \/ s[i] \in ToSet(Front(s))
    BY <1>1, <1>2 DEF ToSet
  <2>1. CASE i = Len(s)
    BY <2>1
  <2>2. CASE i # Len(s)
    <3>1. Len(s) \in Nat
      BY <1>1
    <3>2. i \in 1..(Len(s) - 1)
      BY <2>2, <3>1
    <3> QED
      BY <1>3, <1>4, <3>2 DEF ToSet
  <2> QED
    BY <2>1, <2>2
<1>7. ToSet(Front(s)) \subseteq ToSet(s)
  BY <1>1, <1>3, <1>4 DEF ToSet
<1> QED
  BY <1>3, <1>5, <1>6, <1>7

LEMMA ConcatToSet ==
  ASSUME NEW S, NEW s \in Seq(S), NEW t \in Seq(S)
  PROVE  s \o t \in Seq(S) /\ ToSet(s \o t) = ToSet(s) \cup ToSet(t)
<1> DEFINE u == s \o t
<1>1. /\ u \in Seq(S) /\ Len(u) = Len(s) + Len(t)
      /\ \A i \in 1..Len(s) + Len(t) : u[i] = IF i <= Len(s) THEN s[i] ELSE t[i - Len(s)]
  BY ConcatProperties
<1> HIDE DEF u
<1>2. /\ Len(s) \in Nat /\ Len(t) \in Nat /\ DOMAIN s = 1..Len(s) /\ DOMAIN t = 1..Len(t)
      /\ DOMAIN u = 1..(Len(s) + Len(t))
  BY <1>1, LenProperties
<1>3. ToSet(s) \subseteq ToSet(u)
  BY SMTT(60), <1>1, <1>2 DEF ToSet
<1>4. ToSet(t) \subseteq ToSet(u)
  <2> SUFFICES ASSUME NEW j \in 1..Len(t) PROVE t[j] \in ToSet(u)
    BY <1>2 DEF ToSet
  <2>1. Len(s) + j \in 1..(Len(s) + Len(t)) /\ ~(Len(s) + j <= Len(s)) /\ (Len(s) + j) - Len(s) = j
    BY <1>2
  <2>2. u[Len(s) + j] = t[j]
    BY <1>1, <2>1
  <2> QED
    BY <1>2, <2>1, <2>2 DEF ToSet
<1>5. ToSet(u) \subseteq ToSet(s) \cup ToSet(t)
  <2> SUFFICES ASSUME NEW i \in 1..(Len(s) + Len(t)) PROVE u[i] \in ToSet(s) \cup ToSet(t)
    BY <1>2 DEF ToSet
  <2>1. CASE i <= Len(s)
    BY <1>1, <1>2, <2>1 DEF ToSet
  <2>2. CASE ~(i <= Len(s))
    <3>1. i - Len(s) \in 1..Len(t)
      BY <1>2, <2>2
    <3> QED
      BY <1>1, <1>2, <2>2, <3>1 DEF ToSet
  <2> QED
    BY <2>1, <2>2
<1> QED
  BY <1>1, <1>3, <1>4, <1>5 DEF u

LEMMA ToSetType ==
  ASSUME NEW S, NEW s \in Seq(S)
  PROVE  ToSet(s) \subseteq S /\ (s = <<>> => ToSet(s) = {})
  BY ElementOfSeq, LenProperties DEF ToSet

LEMMA ShadesAre ==
  ASSUME NEW was, NEW now
  PROVE  Shades(was, now) \in Seq(Object) /\ ToSet(Shades(was, now)) = {was, now} \cap Object
<1>1. ASSUME NEW v
      PROVE  Box(v) \in Seq(Object) /\ ToSet(Box(v)) = {v} \cap Object
  BY EmptySeq DEF Box, ToSet
<1>2. Box(was) \in Seq(Object) /\ Box(now) \in Seq(Object)
  BY <1>1
<1>3. /\ Box(was) \o Box(now) \in Seq(Object)
      /\ ToSet(Box(was) \o Box(now)) = ToSet(Box(was)) \cup ToSet(Box(now))
  BY <1>2, ConcatToSet
<1>4. ToSet(Box(was)) = {was} \cap Object /\ ToSet(Box(now)) = {now} \cap Object
  BY <1>1
<1> QED
  BY <1>3, <1>4 DEF Shades

-----------------------------------------------------------------------------
(* What can be reached, and what a sweep leaves.                           *)
LEMMA ReachLeast ==
  ASSUME NEW start, NEW within, NEW C \in SUBSET within, start \subseteq C, HasChildren(C, within)
  PROVE  Reach(start, within) \subseteq C
  BY DEF Reach

LEMMA ReachClosed ==
  ASSUME NEW within, NEW start \in SUBSET within
  PROVE  /\ Reach(start, within) \subseteq within /\ start \subseteq Reach(start, within)
         /\ HasChildren(Reach(start, within), within)
  BY DEF Reach, HasChildren

LEMMA WithoutIs ==
  ASSUME NEW gone
  PROVE  /\ Without(gone) \in [Value -> Value]
         /\ \A v \in Value : Without(gone)[v] = IF v \in gone THEN Gone ELSE v
  BY DEF Without, Value

LEMMA MinorFacts ==
  ASSUME TypeOK, MinorGc
  PROVE  /\ young' = {} /\ old' = old \cup Survivors /\ dirty' = {} /\ Survivors \subseteq young
         /\ fields' \in [Object -> Value] /\ roots' \in [Root -> Value]
         /\ color' \in [Object -> {"White", "Gray", "Black"}]
         /\ \A n \in Object : fields'[n] = IF n \in young \ Survivors THEN NoRef
                                           ELSE IF fields[n] \in young \ Survivors THEN Gone ELSE fields[n]
         /\ \A x \in Root : roots'[x] = IF roots[x] \in young \ Survivors THEN Gone ELSE roots[x]
         /\ \A n \in Object : color'[n] = IF n \in young THEN "White" ELSE color[n]
<1>1. Survivors \subseteq young
  BY DEF Survivors, Reach
<1>2. fields \in [Object -> Value] /\ roots \in [Root -> Value] /\ color \in [Object -> {"White", "Gray", "Black"}]
      /\ NoRef \in Value
  BY DEF TypeOK, Value
<1>3. PICK left \in [Value -> Value] :
        /\ \A v \in Value : left[v] = IF v \in young \ Survivors THEN Gone ELSE v
        /\ fields' = [n \in Object |-> IF n \in young \ Survivors THEN NoRef ELSE left[fields[n]]]
        /\ roots' = [x \in Root |-> left[roots[x]]]
  BY WithoutIs DEF MinorGc
<1>4. young' = {} /\ old' = old \cup Survivors /\ dirty' = {}
      /\ color' = [n \in Object |-> IF n \in young THEN "White" ELSE color[n]]
  BY DEF MinorGc
<1> QED
  BY <1>1, <1>2, <1>3, <1>4

LEMMA MajorFacts ==
  ASSUME TypeOK, MajorGc
  PROVE  LET swept == old \ Reach(FromRoots(old), old)
         IN  /\ young' = young /\ old' = Reach(FromRoots(old), old) /\ old' \subseteq old
             /\ fields' \in [Object -> Value] /\ roots' \in [Root -> Value]
             /\ dirty' \subseteq Object \cup {Gone}
             /\ \A n \in Object : fields'[n] = IF n \in swept THEN NoRef
                                               ELSE IF fields[n] \in swept THEN Gone ELSE fields[n]
             /\ \A x \in Root : roots'[x] = IF roots[x] \in swept THEN Gone ELSE roots[x]
             /\ dirty = {} => dirty' = {}
             /\ careful' = (careful /\ young = {} /\ dirty = {})
<1> DEFINE kept == Reach(FromRoots(old), old)
           swept == old \ kept
<1>1. kept \subseteq old
  BY DEF Reach
<1>2. fields \in [Object -> Value] /\ roots \in [Root -> Value] /\ NoRef \in Value
      /\ dirty \subseteq Object \cup {Gone} /\ Object \cup {Gone} \subseteq Value
  BY DEF TypeOK, Value
<1>3. PICK left \in [Value -> Value] :
        /\ \A v \in Value : left[v] = IF v \in swept THEN Gone ELSE v
        /\ fields' = [n \in Object |-> IF n \in swept THEN NoRef ELSE left[fields[n]]]
        /\ roots' = [x \in Root |-> left[roots[x]]]
        /\ dirty' = {left[d] : d \in dirty}
  BY WithoutIs DEF MajorGc
<1>4. young' = young /\ old' = old \ swept /\ careful' = (careful /\ young = {} /\ dirty = {})
  BY DEF MajorGc
<1> HIDE DEF kept
<1>5. old' = kept
  BY <1>1, <1>4
<1>6. dirty' \subseteq Object \cup {Gone} /\ (dirty = {} => dirty' = {})
  BY <1>2, <1>3
<1>7. /\ fields' \in [Object -> Value] /\ roots' \in [Root -> Value]
      /\ \A n \in Object : fields'[n] = IF n \in swept THEN NoRef
                                        ELSE IF fields[n] \in swept THEN Gone ELSE fields[n]
      /\ \A x \in Root : roots'[x] = IF roots[x] \in swept THEN Gone ELSE roots[x]
  BY <1>2, <1>3
<1>8. /\ young' = young /\ old' = kept /\ old' \subseteq old
      /\ fields' \in [Object -> Value] /\ roots' \in [Root -> Value]
      /\ dirty' \subseteq Object \cup {Gone}
      /\ \A n \in Object : fields'[n] = IF n \in swept THEN NoRef
                                        ELSE IF fields[n] \in swept THEN Gone ELSE fields[n]
      /\ \A x \in Root : roots'[x] = IF roots[x] \in swept THEN Gone ELSE roots[x]
      /\ dirty = {} => dirty' = {}
      /\ careful' = (careful /\ young = {} /\ dirty = {})
  BY <1>1, <1>4, <1>5, <1>6, <1>7
<1> QED
  BY <1>8 DEF kept

-----------------------------------------------------------------------------
(* Types.                                                                  *)
LEMMA MarkTypes ==
  ASSUME TypeOK
  PROVE  /\ mark \in [Marker -> {"done", "pop", "enter", "trace"}]
         /\ Worker \subseteq Marker /\ Coordinator \in Marker /\ Coordinator \notin Worker
         /\ \A m \in Marker : m # Coordinator => m \in Worker
  BY MarkAssumption DEF TypeOK, Marker

LEMMA TracingCount ==
  /\ IsFiniteSet(Tracing) /\ Cardinality(Tracing) \in 0..Cardinality(Worker)
  /\ IsFiniteSet(Tracing') /\ Cardinality(Tracing') \in 0..Cardinality(Worker)
<1>1. Tracing \subseteq Worker /\ Tracing' \subseteq Worker /\ IsFiniteSet(Worker)
  BY MarkAssumption DEF Tracing
<1>2. Cardinality(Worker) \in Nat
  BY <1>1, FS_CardinalityType
<1>3. \A T \in SUBSET Worker :
        /\ IsFiniteSet(T) /\ Cardinality(T) \in Nat /\ Cardinality(T) <= Cardinality(Worker)
  BY <1>1, FS_Subset, FS_CardinalityType
<1> QED
  BY <1>1, <1>2, <1>3

LEMMA NobodyTraces ==
  ASSUME Nobody, MarkerInv
  PROVE  active = 0 /\ Tracing = {}
<1>1. Tracing = {}
  BY DEF Nobody, Tracing, Marker
<1> QED
  BY <1>1, FS_EmptySet DEF MarkerInv

LEMMA MarkingCount ==
  ASSUME TypeOK, MarkerInv, NEW m \in Marker, Marking(m)
  PROVE  active' = Cardinality(Tracing')
<1> USE MarkTypes
<1>1. active = Cardinality(Tracing) /\ IsFiniteSet(Tracing)
  BY TracingCount DEF MarkerInv
<1>2. CASE Enter(m)
  <2>1. m \in Worker /\ mark' = [mark EXCEPT ![m] = "trace"] /\ mark[m] = "enter" /\ active' = active + 1
    BY <1>2 DEF Enter, MarkerInv
  <2>2. m \notin Tracing /\ Tracing' = Tracing \cup {m}
    BY <2>1 DEF Tracing
  <2> QED
    BY <1>1, <2>1, <2>2, FS_AddElement
<1>3. CASE Trace(m)
  <2>1. mark' = [mark EXCEPT ![m] = "pop"] /\ mark[m] = "trace"
        /\ active' = IF m = Coordinator THEN active ELSE active - 1
    BY <1>3 DEF Trace
  <2>2. CASE m = Coordinator
    <3>1. Tracing' = Tracing
      BY <2>1, <2>2 DEF Tracing
    <3> QED
      BY <1>1, <2>1, <2>2, <3>1
  <2>3. CASE m # Coordinator
    <3>1. m \in Tracing /\ Tracing' = Tracing \ {m}
      BY <2>1, <2>3 DEF Tracing
    <3> QED
      BY <1>1, <2>1, <2>3, <3>1, FS_RemoveElement
  <2> QED
    BY <2>2, <2>3
<1>4. CASE Pop(m)
  <2>1. active' = active /\ mark[m] = "pop"
        /\ \/ mark' = mark
           \/ mark' = [mark EXCEPT ![m] = IF m = Coordinator THEN "trace" ELSE "enter"]
    BY <1>4 DEF Pop
  <2>2. Tracing' = Tracing
    BY <2>1 DEF Tracing
  <2> QED
    BY <1>1, <2>1, <2>2
<1>5. CASE Quit(m)
  <2>1. active' = active /\ mark[m] = "pop" /\ mark' = [mark EXCEPT ![m] = "done"]
    BY <1>5 DEF Quit
  <2>2. Tracing' = Tracing
    BY <2>1 DEF Tracing
  <2> QED
    BY <1>1, <2>1, <2>2
<1> QED
  BY <1>2, <1>3, <1>4, <1>5 DEF Marking

LEMMA MarkingType ==
  ASSUME TypeOK, MarkerInv, BoxInv, NEW m \in Marker, Marking(m)
  PROVE  TypeOK'
<1> USE MarkTypes
<1>1. active' \in 0..Cardinality(Worker)
  BY MarkingCount, TracingCount
<1>2. gray \in Seq(Object) /\ held \in [Marker -> Object \cup {NoRef}] /\ fields \in [Object -> Value]
      /\ color \in [Object -> {"White", "Gray", "Black"}]
  BY DEF TypeOK
<1>3. /\ gray' \in Seq(Object) /\ held' \in [Marker -> Object \cup {NoRef}]
      /\ mark' \in [Marker -> {"done", "pop", "enter", "trace"}]
      /\ color' \in [Object -> {"White", "Gray", "Black"}]
  <2>1. CASE Pop(m)
    <3>1. Front(gray) \in Seq(Object) /\ Last(gray) \in Object
      BY <1>2, <2>1, FrontToSet DEF Pop
    <3> QED
      BY <1>2, <2>1, <3>1 DEF Pop
  <2>2. CASE Trace(m)
    <3>1. held[m] \in managed /\ managed \subseteq Object
      BY <2>2 DEF Trace, MarkerInv, TypeOK
    <3>2. gray' = gray \/ (fields[held[m]] \in Object /\ gray' = Append(gray, fields[held[m]]))
      BY <2>2, <3>1 DEF Trace
    <3>3. gray' \in Seq(Object)
      BY <1>2, <3>2, AppendToSet
    <3>4. color' \in [Object -> {"White", "Gray", "Black"}]
      BY <1>2, <2>2 DEF Trace
    <3> QED
      BY <1>2, <2>2, <3>3, <3>4 DEF Trace
  <2>3. CASE Enter(m) \/ Quit(m)
    BY <1>2, <2>3 DEF Enter, Quit, colors
  <2> QED
    BY <2>1, <2>2, <2>3 DEF Marking
<1>4. UNCHANGED <<heap, safepoint, cycle, cpc, todo, mutator, history>>
  BY DEF Marking, Pop, Enter, Trace, Quit
<1> QED
  BY <1>1, <1>3, <1>4 DEF TypeOK, heap, safepoint, cycle, mutator, history

LEMMA KnownIsValue ==
  ASSUME TypeOK
  PROVE  Live \subseteq Object /\ Known \subseteq Live /\ Writable \subseteq Value
  BY DEF TypeOK, Live, Known, Writable, Value

LEMMA BeginColors ==
  ASSUME TypeOK, Begin
  PROVE  /\ gray' \in Seq(Object) /\ ToSet(gray') = ToSet(gray) \cup RootsToShade(old)
         /\ RootsToShade(old) \subseteq old
         /\ color' = [n \in Object |-> IF n \in RootsToShade(old) THEN "Gray" ELSE color[n]]
<1>1. RootsToShade(old) \subseteq old /\ old \subseteq Object /\ IsFiniteSet(Object)
  BY MarkAssumption DEF RootsToShade, FromRoots, TypeOK
<1>2. Cardinality(RootsToShade(old)) \in Nat
  <2>1. IsFiniteSet(RootsToShade(old))
    BY <1>1, FS_Subset
  <2> QED
    BY <2>1, FS_CardinalityType
<1>3. PICK q \in [1..Cardinality(RootsToShade(old)) -> RootsToShade(old)] :
        ToSet(q) = RootsToShade(old) /\ gray' = gray \o q
  BY DEF Begin
<1>4. q \in Seq(Object) /\ gray \in Seq(Object)
  <2> DEFINE k == Cardinality(RootsToShade(old))
  <2>1. k \in Nat /\ q \in [1..k -> RootsToShade(old)]
    BY <1>2
  <2> HIDE DEF k
  <2>2. q \in [1..k -> Object]
    BY <1>1, <2>1
  <2>3. q \in Seq(Object)
    BY <2>1, <2>2, SeqDef
  <2>4. gray \in Seq(Object)
    BY DEF TypeOK
  <2> QED
    BY <2>3, <2>4
<1> QED
  BY <1>1, <1>3, <1>4, ConcatToSet DEF Begin

LEMMA ProgramType ==
  ASSUME TypeOK, ThreadInv, Program
  PROVE  TypeOK'
<1> USE KnownIsValue DEF heap, colors, safepoint, cycle, gcThreads, mutator, history
<1>1. ASSUME NEW n \in Object, NEW x \in Root, Alloc(n, x)
      PROVE  TypeOK'
  <2>1. AllocColor \in {"White", "Black"} /\ n \in Value
    BY DEF AllocColor, Value
  <2> QED
    BY <1>1, <2>1 DEF Alloc, TypeOK
<1>2. ASSUME NEW n \in Object, NEW x \in Root, Load(x, n)
      PROVE  TypeOK'
  BY <1>2 DEF Load, TypeOK
<1>3. ASSUME NEW x \in Root, Assign(x)
      PROVE  TypeOK'
  BY <1>3 DEF Assign, TypeOK
<1>4. ASSUME NEW n \in Object, Store(n)
      PROVE  TypeOK'
  <2>1. PICK v \in Writable :
         /\ fields' = [fields EXCEPT ![n] = v]
         /\ dirty' = IF n \in old \ dead /\ v \in young THEN dirty \cup {n} ELSE dirty
         /\ shades' = IF phase = "ConcurrentMark" THEN Shades(fields[n], v) ELSE <<>>
         /\ mpc' = IF shades' = <<>> THEN "run" ELSE "test"
    BY <1>4 DEF Store
  <2>2. shades' \in Seq(Object)
    BY <2>1, ShadesAre, EmptySeq
  <2>3. Seq(Object) \subseteq Seq(Value)
    BY SeqMonotonic DEF Value
  <2>4. shades' \in Seq(Value)
    BY <2>2, <2>3
  <2>5. fields' \in [Object -> Value] /\ dirty' \subseteq Object \cup {Gone} /\ mpc' \in {"run", "test"}
    BY <2>1 DEF TypeOK
  <2> HIDE DEF Value
  <2> QED
    BY <1>4, <2>4, <2>5 DEF Store, TypeOK
<1>5. CASE CollectMinor
  <2>1. MinorGc /\ UNCHANGED <<gray, safepoint, phase, managed, dead, trigger, gcThreads, mutator, history>>
    BY <1>5 DEF CollectMinor
  <2> QED
    BY <2>1, MinorFacts DEF TypeOK
<1>6. CASE CollectMajor
  <2>1. CASE cpc # "off"
    <3>1. Begin /\ UNCHANGED <<heap, dead, safepoint, gcThreads, mutator>>
      BY <1>6, <2>1 DEF CollectMajor, Begin
    <3>2. gray' \in Seq(Object) /\ color' \in [Object -> {"White", "Gray", "Black"}]
      BY <3>1, BeginColors DEF TypeOK
    <3>3. managed' = old /\ phase' = "ConcurrentMark" /\ doomed' \subseteq old /\ careful' \in BOOLEAN
      BY <3>1 DEF Begin, TypeOK
    <3>4. trigger' \in Seq({"Major", "Shutdown"})
      BY <3>1, AppendProperties DEF Begin, TypeOK
    <3> QED
      BY <3>1, <3>2, <3>3, <3>4 DEF TypeOK, Phases
  <2>2. CASE cpc = "off"
    <3>1. MajorGc /\ phase = "Idle"
          /\ UNCHANGED <<colors, phase, managed, dead, trigger, doomed, safepoint, gcThreads, mutator>>
      BY <1>6, <2>2 DEF CollectMajor
    <3>2. managed = {} /\ dead = {}
      BY <3>1 DEF ThreadInv, IdleInv, BoxInv
    <3>3. /\ young' = young /\ old' \subseteq old /\ fields' \in [Object -> Value]
          /\ roots' \in [Root -> Value] /\ dirty' \subseteq Object \cup {Gone}
          /\ careful' = (careful /\ young = {} /\ dirty = {})
      BY <3>1, MajorFacts
    <3> QED
      BY <3>1, <3>2, <3>3 DEF TypeOK
  <2> QED
    BY <2>1, <2>2
<1>7. CASE SwitchOn \/ Want
  BY <1>7 DEF SwitchOn, Want, TypeOK
<1> QED
  BY <1>1, <1>2, <1>3, <1>4, <1>5, <1>6, <1>7 DEF Program

LEMMA FinishType ==
  ASSUME TypeOK, BoxInv, FinishMark
  PROVE  /\ gray' \in Seq(Object) /\ color' \in [Object -> {"White", "Gray", "Black"}]
         /\ phase' \in Phases /\ dead' = {} /\ reconcile' = FALSE
         /\ UNCHANGED <<young, old, fields, roots, dirty, managed, doomed>>
  BY EmptySeq DEF FinishMark, TypeOK, Phases, heap

LEMMA ReconcileType ==
  ASSUME TypeOK, Reconcile
  PROVE  /\ color' \in [Object -> {"White", "Gray", "Black"}] /\ old' \subseteq old
         /\ dirty' \subseteq Object \cup {Gone} /\ phase' \in Phases
         /\ dead' = {} /\ managed' = {} /\ doomed' = {} /\ reconcile' = FALSE
         /\ UNCHANGED <<young, fields, roots, gray>>
  BY DEF Reconcile, TypeOK, Phases

LEMMA SafepointType ==
  ASSUME TypeOK, ThreadInv, Safepoint
  PROVE  TypeOK'
<1> USE DEF heap, colors, safepoint, cycle, gcThreads, mutator, history
<1>1. CASE Park
  BY <1>1 DEF Park, TypeOK
<1>2. CASE Wake
  <2>1. /\ parked' = FALSE /\ mpc' = "run" /\ closure' = FALSE
        /\ UNCHANGED <<requested, trigger, gcThreads, shades, goal, careful>>
    BY <1>2 DEF Wake
  <2>2. CASE closure /\ FinishMark
    BY <2>1, <2>2, FinishType DEF TypeOK, ThreadInv
  <2>3. CASE ~closure /\ reconcile /\ Reconcile
    BY <2>1, <2>3, ReconcileType DEF TypeOK
  <2>4. CASE UNCHANGED <<heap, colors, reconcile, phase, managed, dead, doomed>>
    BY <2>1, <2>4 DEF TypeOK
  <2> QED
    BY <1>2, <2>2, <2>3, <2>4 DEF Wake
<1> QED
  BY <1>1, <1>2 DEF Safepoint

LEMMA OwedType ==
  ASSUME TypeOK, ThreadInv, Owed
  PROVE  TypeOK'
<1> USE DEF heap, colors, safepoint, cycle, gcThreads, mutator, history
<1>1. CASE ShadeTest \/ ShadePaint
  <2>1. shades # <<>> /\ shades \in Seq(Object)
    BY <1>1 DEF ShadeTest, ShadePaint, ThreadInv, MutatorInv
  <2>2. Head(shades) \in Object /\ Tail(shades) \in Seq(Object)
    BY <2>1, TailToSet
  <2>3. \A s \in Seq(Object) : s \in Seq(Value)
    BY SeqMonotonic DEF Value
  <2>4. shades' \in Seq(Value) /\ mpc' \in {"run", "test", "paint"}
    BY <1>1, <2>1, <2>2, <2>3 DEF ShadeTest, ShadePaint
  <2>5. gray' \in Seq(Object) /\ color' \in [Object -> {"White", "Gray", "Black"}]
    <3>1. gray \in Seq(Object) /\ color \in [Object -> {"White", "Gray", "Black"}]
      BY DEF TypeOK
    <3>2. CASE ShadeTest
      BY <3>1, <3>2 DEF ShadeTest
    <3>3. CASE ShadePaint
      <4>1. gray' = Append(gray, Head(shades)) /\ color' = [color EXCEPT ![Head(shades)] = "Gray"]
        BY <3>3 DEF ShadePaint
      <4>2. gray' \in Seq(Object)
        BY <2>2, <3>1, <4>1, AppendToSet
      <4> QED
        BY <3>1, <4>1, <4>2
    <3> QED
      BY <1>1, <3>2, <3>3
  <2> QED
    BY <1>1, <2>4, <2>5 DEF ShadeTest, ShadePaint, TypeOK
<1>2. CASE FullMinor
  BY <1>2, MinorFacts DEF FullMinor, TypeOK
<1>3. CASE FullMajor
  <2>1. MajorGc /\ phase = "Idle" /\ goal' = "none"
        /\ UNCHANGED <<colors, safepoint, cycle, gcThreads, mpc, shades, doomed>>
    BY <1>3 DEF FullMajor, Free
  <2>2. managed = {} /\ dead = {}
    BY <2>1 DEF ThreadInv, IdleInv, BoxInv
  <2>3. /\ young' = young /\ old' \subseteq old /\ fields' \in [Object -> Value]
        /\ roots' \in [Root -> Value] /\ dirty' \subseteq Object \cup {Gone}
        /\ careful' = (careful /\ young = {} /\ dirty = {})
    BY <2>1, MajorFacts
  <2> QED
    BY <2>1, <2>2, <2>3 DEF TypeOK
<1>4. CASE ShutDown
  <2>1. trigger' \in Seq({"Major", "Shutdown"})
    BY <1>4, AppendProperties DEF ShutDown, TypeOK
  <2> QED
    BY <1>4, <2>1 DEF ShutDown, TypeOK
<1>5. CASE Joined
  BY <1>5 DEF Joined, TypeOK
<1> QED
  BY <1>1, <1>2, <1>3, <1>4, <1>5 DEF Owed

LEMMA SweepFacts ==
  ASSUME TypeOK, NEW n \in Object, Sweep(n)
  PROVE  /\ UNCHANGED <<young, old, colors, safepoint, phase, managed, trigger,
                        cpc, mark, held, active, mutator, history>>
         /\ todo' = todo \ {n} /\ n \in todo /\ cpc = "sweep"
         /\ fields' \in [Object -> Value] /\ roots' \in [Root -> Value]
         /\ dirty' \subseteq Object \cup {Gone}
         /\ \/ color[n] # "White" /\ UNCHANGED <<dead, fields, roots, dirty>>
            \/ /\ color[n] = "White" /\ dead' = dead \cup {n}
               /\ \A m \in Object : fields'[m] = IF m = n THEN NoRef ELSE IF fields[m] = n THEN Gone ELSE fields[m]
               /\ \A x \in Root : roots'[x] = IF roots[x] = n THEN Gone ELSE roots[x]
               /\ \A d \in dirty : d # n => d \in dirty'
<1>1. fields \in [Object -> Value] /\ roots \in [Root -> Value] /\ NoRef \in Value
      /\ dirty \subseteq Object \cup {Gone} /\ Object \cup {Gone} \subseteq Value
  BY DEF TypeOK, Value
<1>2. /\ UNCHANGED <<young, old, colors, safepoint, phase, managed, trigger,
                     cpc, mark, held, active, mutator, history>>
      /\ todo' = todo \ {n} /\ n \in todo /\ cpc = "sweep"
  BY DEF Sweep
<1>3. CASE color[n] # "White"
  BY <1>1, <1>2, <1>3 DEF Sweep
<1>4. CASE color[n] = "White"
  <2>1. PICK left \in [Value -> Value] :
          /\ \A v \in Value : left[v] = IF v \in {n} THEN Gone ELSE v
          /\ dead' = dead \cup {n}
          /\ fields' = [[m \in Object |-> left[fields[m]]] EXCEPT ![n] = NoRef]
          /\ roots' = [x \in Root |-> left[roots[x]]]
          /\ dirty' = {left[d] : d \in dirty}
    BY <1>4, WithoutIs DEF Sweep
  <2>2. /\ fields' \in [Object -> Value] /\ roots' \in [Root -> Value]
        /\ \A m \in Object : fields'[m] = IF m = n THEN NoRef ELSE IF fields[m] = n THEN Gone ELSE fields[m]
        /\ \A x \in Root : roots'[x] = IF roots[x] = n THEN Gone ELSE roots[x]
    BY <1>1, <2>1
  <2>3. dirty' \subseteq Object \cup {Gone} /\ \A d \in dirty : d # n => d \in dirty'
    BY <1>1, <2>1
  <2> QED
    BY <1>2, <1>4, <2>1, <2>2, <2>3
<1> QED
  BY <1>3, <1>4

LEMMA CoordinatingType ==
  ASSUME TypeOK, ThreadInv, Coordinating
  PROVE  TypeOK'
<1> USE MarkTypes DEF heap, colors, safepoint, cycle, gcThreads, mutator, history
<1>1. CASE Receive
  <2>1. trigger # <<>> /\ trigger' = Tail(trigger) /\ trigger \in Seq({"Major", "Shutdown"})
    BY <1>1 DEF Receive, TypeOK
  <2>2. trigger' \in Seq({"Major", "Shutdown"})
    BY <2>1, HeadTailProperties
  <2>3. /\ cpc' \in {"off", "recv", "mark"}
        /\ mark' \in [Marker -> {"done", "pop", "enter", "trace"}]
        /\ UNCHANGED <<heap, colors, safepoint, phase, managed, dead, todo, held, active, mutator, history>>
    BY <1>1 DEF Receive, TypeOK
  <2> QED
    BY <2>2, <2>3 DEF TypeOK
<1>2. CASE Join \/ Release1 \/ BeginSweep \/ AskToReconcile \/ Release2 \/ AskToTerminate
  BY <1>2 DEF Join, Release1, BeginSweep, AskToReconcile, Release2, AskToTerminate, Ask, TypeOK
<1>3. ASSUME NEW n \in Object, Sweep(n)
      PROVE  TypeOK'
  <2>1. cpc = "sweep" /\ phase = "ConcurrentSweep" /\ todo \subseteq managed /\ n \in old
    BY <1>3, SweepFacts DEF ThreadInv, IdleInv, MarkInv, SweepInv, BoxInv, TypeOK, Phases
  <2> QED
    BY <1>3, <2>1, SweepFacts DEF TypeOK
<1> QED
  BY <1>1, <1>2, <1>3 DEF Coordinating

LEMMA TypeStep ==
  ASSUME TypeOK, ThreadInv, [Next]_vars
  PROVE  TypeOK'
<1>1. CASE UNCHANGED vars
  BY <1>1 DEF vars, heap, colors, safepoint, cycle, gcThreads, mutator, history, TypeOK
<1> QED
  BY <1>1, ProgramType, SafepointType, OwedType, MarkingType, CoordinatingType DEF Next, ThreadInv

LEMMA InitInv ==
  ASSUME Init
  PROVE  TypeOK /\ ThreadInv
<1>1. Nobody /\ Tracing = {}
  BY DEF Init, Nobody, Tracing, Marker
<1>2. active = Cardinality(Tracing) /\ active \in 0..Cardinality(Worker)
  <2>1. Cardinality(Worker) \in Nat
    BY MarkAssumption, FS_CardinalityType
  <2> QED
    BY <1>1, <2>1, FS_EmptySet DEF Init
<1>3. TypeOK
  BY <1>2, EmptySeq DEF Init, TypeOK, Value, Phases
<1>4. IdleInv /\ MarkInv /\ SweepInv /\ BoxInv
  BY <1>1 DEF Init, IdleInv, MarkInv, SweepInv, BoxInv, Quiet
<1>5. MutatorInv
  BY EmptySeq DEF Init, MutatorInv
<1>6. MarkerInv
  <2>1. Coordinator \in Marker
    BY DEF Marker
  <2> QED
    BY <1>2, <2>1 DEF Init, MarkerInv
<1> QED
  BY <1>3, <1>4, <1>5, <1>6 DEF ThreadInv

-----------------------------------------------------------------------------
(* The threads: each step keeps the protocol.                              *)
LEMMA ProgramThreads ==
  ASSUME TypeOK, ThreadInv, Program
  PROVE  ThreadInv'
<1> USE KnownIsValue DEF heap, colors, safepoint, cycle, gcThreads, mutator, history, ThreadInv
<1>1. ASSUME NEW n \in Object, NEW x \in Root, Alloc(n, x)
      PROVE  ThreadInv'
  <2>1. /\ n \notin Live /\ young' = young \cup {n}
        /\ color' = [color EXCEPT ![n] = AllocColor]
        /\ UNCHANGED <<old, dirty, gray, safepoint, cycle, gcThreads, mutator, history>>
    BY <1>1 DEF Alloc
  <2>2. BoxInv'
    BY <2>1 DEF BoxInv, Live
  <2>3. IdleInv'
    BY <2>1 DEF IdleInv, BoxInv, Live, Quiet, Nobody, TypeOK
  <2>4. MarkInv' /\ SweepInv' /\ MutatorInv' /\ MarkerInv'
    BY <2>1 DEF MarkInv, SweepInv, MutatorInv, MarkerInv, Quiet, Nobody, Tracing
  <2> QED
    BY <2>2, <2>3, <2>4
<1>2. ASSUME UNCHANGED <<young, old, colors, safepoint, cycle, gcThreads, mpc, shades, history>>
      PROVE  ThreadInv'
  BY <1>2 DEF IdleInv, MarkInv, SweepInv, MutatorInv, MarkerInv, BoxInv, Quiet, Nobody, Tracing
<1>3. CASE \E n \in Object, x \in Root : Load(x, n)
  BY <1>2, <1>3 DEF Load
<1>4. CASE \E x \in Root : Assign(x)
  BY <1>2, <1>4 DEF Assign
<1>5. CASE Want
  BY <1>2, <1>5 DEF Want
<1>6. ASSUME NEW n \in Object, Store(n)
      PROVE  ThreadInv'
  <2>1. PICK v \in Writable :
         /\ shades' = IF phase = "ConcurrentMark" THEN Shades(fields[n], v) ELSE <<>>
         /\ mpc' = IF shades' = <<>> THEN "run" ELSE "test"
    BY <1>6 DEF Store
  <2>2. shades' \in Seq(Object) /\ mpc = "run"
        /\ UNCHANGED <<young, old, roots, colors, safepoint, cycle, gcThreads, goal, history>>
    BY <1>6, <2>1, ShadesAre, EmptySeq DEF Store, Running
  <2>3. MutatorInv'
    BY <2>1, <2>2 DEF MutatorInv
  <2>4. IdleInv' /\ MarkInv' /\ SweepInv' /\ MarkerInv' /\ BoxInv'
    BY <2>2 DEF IdleInv, MarkInv, SweepInv, MarkerInv, BoxInv, Quiet, Nobody, Tracing
  <2> QED
    BY <2>3, <2>4
<1>7. CASE CollectMinor
  <2>1. /\ young' = {} /\ old' = old \cup Survivors /\ Survivors \subseteq young
        /\ \A n \in Object : color'[n] = IF n \in young THEN "White" ELSE color[n]
        /\ UNCHANGED <<gray, safepoint, phase, managed, dead, trigger, gcThreads, mutator, history>>
    BY <1>7, MinorFacts DEF CollectMinor
  <2>2. BoxInv'
    BY <2>1 DEF BoxInv
  <2>3. IdleInv'
    BY <2>1 DEF IdleInv, Quiet, Nobody, TypeOK
  <2>4. MarkInv' /\ SweepInv' /\ MutatorInv' /\ MarkerInv'
    BY <2>1 DEF MarkInv, SweepInv, MutatorInv, MarkerInv, Quiet, Nobody, Tracing
  <2> QED
    BY <2>2, <2>3, <2>4
<1>8. CASE CollectMajor /\ cpc # "off"
  <2>1. Begin /\ phase = "Idle" /\ mpc = "run" /\ UNCHANGED <<heap, dead, safepoint, gcThreads, mutator>>
    BY <1>8 DEF CollectMajor, Begin, Running
  <2>2. /\ managed' = old /\ phase' = "ConcurrentMark" /\ trigger' = Append(trigger, "Major")
        /\ doomed' \subseteq old
    BY <2>1 DEF Begin
  <2>3. cpc = "recv" /\ Quiet /\ Nobody /\ trigger = <<>> /\ dead = {} /\ managed = {}
    BY <1>8, <2>1 DEF IdleInv, BoxInv
  <2>4. trigger' = <<"Major">>
    BY <2>2, <2>3
  <2>5. MarkInv'
    BY <2>1, <2>2, <2>3, <2>4 DEF MarkInv, Quiet, Nobody
  <2>6. BoxInv' /\ IdleInv' /\ SweepInv'
    BY <2>1, <2>2, <2>3 DEF BoxInv, IdleInv, SweepInv
  <2>7. MarkerInv'
    BY <2>1, <2>3 DEF MarkerInv, Tracing, Nobody
  <2>8. MutatorInv'
    BY <2>1, <2>2 DEF MutatorInv
  <2> QED
    BY <2>5, <2>6, <2>7, <2>8
<1>9. CASE CollectMajor /\ cpc = "off"
  <2>1. MajorGc /\ phase = "Idle"
        /\ UNCHANGED <<colors, phase, managed, dead, trigger, doomed, safepoint, gcThreads, mutator>>
    BY <1>9 DEF CollectMajor
  <2>2. young' = young /\ old' \subseteq old /\ managed = {}
    BY <2>1, MajorFacts DEF IdleInv
  <2>3. BoxInv' /\ IdleInv'
    BY <2>1, <2>2 DEF BoxInv, IdleInv, Quiet, Nobody
  <2>4. MarkInv' /\ SweepInv' /\ MutatorInv' /\ MarkerInv'
    BY <2>1 DEF MarkInv, SweepInv, MutatorInv, MarkerInv, Quiet, Nobody, Tracing
  <2> QED
    BY <2>3, <2>4
<1>10. CASE SwitchOn
  <2>1. /\ cpc = "off" /\ cpc' = "recv" /\ mpc = "run"
        /\ UNCHANGED <<heap, colors, safepoint, cycle, todo, mark, held, active, mutator, history>>
    BY <1>10 DEF SwitchOn, Running
  <2>2. phase = "Idle"
    BY <2>1 DEF MarkInv, SweepInv, TypeOK, Phases
  <2> QED
    BY <2>1, <2>2 DEF IdleInv, MarkInv, SweepInv, MutatorInv, MarkerInv, BoxInv, Quiet, Nobody, Tracing
<1>11. CASE CollectMajor
  BY <1>8, <1>9, <1>11
<1> QED
  BY <1>1, <1>3, <1>4, <1>5, <1>6, <1>7, <1>10, <1>11 DEF Program

LEMMA SafepointThreads ==
  ASSUME TypeOK, ThreadInv, Safepoint
  PROVE  ThreadInv'
<1> USE DEF heap, colors, safepoint, cycle, gcThreads, mutator, history, ThreadInv
<1>1. CASE Park
  <2>1. /\ mpc = "run" /\ requested /\ parked' = TRUE /\ mpc' = "parked"
        /\ UNCHANGED <<heap, colors, requested, closure, reconcile, cycle, gcThreads, shades, goal, history>>
    BY <1>1 DEF Park
  <2>2. requested = TRUE /\ parked = FALSE
    BY <2>1 DEF MutatorInv, TypeOK
  <2>3. phase # "Idle"
    BY <2>2 DEF IdleInv, Quiet
  <2>4. MarkInv' /\ SweepInv' /\ IdleInv'
    BY <2>1, <2>2, <2>3 DEF MarkInv, SweepInv, IdleInv, Quiet, Nobody
  <2>5. MutatorInv' /\ MarkerInv' /\ BoxInv'
    BY <2>1 DEF MutatorInv, MarkerInv, BoxInv, Tracing
  <2> QED
    BY <2>4, <2>5
<1>2. CASE Wake
  <2>1. /\ mpc = "parked" /\ ~requested /\ parked' = FALSE /\ mpc' = "run" /\ closure' = FALSE
        /\ UNCHANGED <<requested, trigger, gcThreads, shades, goal, careful>>
    BY <1>2 DEF Wake
  <2>2. parked = TRUE /\ requested = FALSE /\ ~Quiet
    BY <2>1 DEF MutatorInv, Quiet, TypeOK
  <2>3. shades = <<>>
    BY <2>1 DEF MutatorInv
  <2>4. \/ phase = "ConcurrentMark" /\ cpc = "spin" /\ trigger = <<>> /\ Nobody /\ closure = TRUE
        \/ phase = "ConcurrentSweep" /\ cpc = "recv" /\ trigger = <<>> /\ Nobody /\ gray = <<>>
             /\ closure = FALSE /\ reconcile = TRUE
    BY <2>2 DEF IdleInv, MarkInv, SweepInv, TypeOK, Phases
  <2>5. MutatorInv'
    BY <2>1, <2>3 DEF MutatorInv
  <2>6. CASE phase = "ConcurrentMark"
    <3>1. closure = TRUE /\ cpc = "spin" /\ trigger = <<>> /\ Nobody
      BY <2>4, <2>6
    <3>2. FinishMark
      BY <1>2, <3>1 DEF Wake
    <3>3. /\ gray' = <<>> /\ phase' = "ConcurrentSweep" /\ dead' = {} /\ reconcile' = FALSE
          /\ UNCHANGED <<heap, managed, doomed>>
      BY <3>2 DEF FinishMark
    <3>4. SweepInv' /\ IdleInv' /\ MarkInv'
      BY <2>1, <2>2, <3>1, <3>3 DEF SweepInv, IdleInv, MarkInv, Quiet, Nobody
    <3>5. MarkerInv'
      BY <2>1, <3>3 DEF MarkerInv, Tracing
    <3>6. BoxInv'
      BY <2>1, <2>6, <3>3 DEF BoxInv
    <3> QED
      BY <2>5, <3>4, <3>5, <3>6
  <2>7. CASE phase = "ConcurrentSweep"
    <3>1. closure = FALSE /\ reconcile = TRUE /\ cpc = "recv" /\ trigger = <<>> /\ Nobody /\ gray = <<>>
      BY <2>4, <2>7
    <3>2. Reconcile
      BY <1>2, <3>1 DEF Wake
    <3>3. /\ old' = old \ dead /\ color' = [n \in Object |-> IF n \in old' THEN "White" ELSE color[n]]
          /\ dead' = {} /\ managed' = {} /\ doomed' = {} /\ phase' = "Idle" /\ reconcile' = FALSE
          /\ UNCHANGED <<young, fields, roots, gray>>
      BY <3>2 DEF Reconcile
    <3>4. \A n \in old' : color'[n] = "White"
      BY <3>3 DEF TypeOK
    <3>5. IdleInv'
      BY <2>1, <2>2, <3>1, <3>3, <3>4 DEF IdleInv, Quiet, Nobody
    <3>6. MarkInv' /\ SweepInv'
      BY <3>3 DEF MarkInv, SweepInv
    <3>7. MarkerInv'
      BY <2>1, <3>1, <3>3 DEF MarkerInv, Tracing, Nobody
    <3>8. BoxInv'
      BY <3>3 DEF BoxInv
    <3> QED
      BY <2>5, <3>5, <3>6, <3>7, <3>8
  <2> QED
    BY <2>4, <2>6, <2>7
<1> QED
  BY <1>1, <1>2 DEF Safepoint

LEMMA OwedThreads ==
  ASSUME TypeOK, ThreadInv, Owed
  PROVE  ThreadInv'
<1> USE DEF heap, colors, safepoint, cycle, gcThreads, mutator, history, ThreadInv
<1>1. CASE ShadeTest \/ ShadePaint
  <2>1. shades # <<>> /\ shades \in Seq(Object) /\ phase = "ConcurrentMark" /\ mpc \in {"test", "paint"}
    BY <1>1 DEF ShadeTest, ShadePaint, MutatorInv
  <2>2. Tail(shades) \in Seq(Object)
    BY <2>1, TailToSet
  <2>3. /\ UNCHANGED <<heap, safepoint, cycle, gcThreads, goal, history>>
        /\ \/ mpc' = "paint" /\ UNCHANGED shades
           \/ shades' = Tail(shades) /\ mpc' = IF shades' = <<>> THEN "run" ELSE "test"
    BY <1>1 DEF ShadeTest, ShadePaint
  <2>4. MutatorInv'
    BY <2>1, <2>2, <2>3 DEF MutatorInv
  <2>5. IdleInv' /\ MarkInv' /\ SweepInv' /\ MarkerInv' /\ BoxInv'
    BY <2>1, <2>3 DEF IdleInv, MarkInv, SweepInv, MarkerInv, BoxInv, Quiet, Nobody, Tracing
  <2> QED
    BY <2>4, <2>5
<1>2. CASE FullMinor
  <2>1. /\ young' = {} /\ old' = old \cup Survivors /\ Survivors \subseteq young /\ phase = "Idle"
        /\ \A n \in Object : color'[n] = IF n \in young THEN "White" ELSE color[n]
        /\ UNCHANGED <<gray, safepoint, cycle, gcThreads, mpc, shades, history>>
    BY <1>2, MinorFacts DEF FullMinor, Free
  <2>2. BoxInv'
    BY <2>1 DEF BoxInv
  <2>3. IdleInv'
    BY <2>1 DEF IdleInv, Quiet, Nobody, TypeOK
  <2>4. MarkInv' /\ SweepInv' /\ MutatorInv' /\ MarkerInv'
    BY <2>1 DEF MarkInv, SweepInv, MutatorInv, MarkerInv, Quiet, Nobody, Tracing
  <2> QED
    BY <2>2, <2>3, <2>4
<1>3. CASE FullMajor
  <2>1. MajorGc /\ phase = "Idle"
        /\ UNCHANGED <<colors, safepoint, cycle, gcThreads, mpc, shades, doomed>>
    BY <1>3 DEF FullMajor, Free
  <2>2. young' = young /\ old' \subseteq old /\ managed = {}
    BY <2>1, MajorFacts DEF IdleInv
  <2>3. BoxInv' /\ IdleInv'
    BY <2>1, <2>2 DEF BoxInv, IdleInv, Quiet, Nobody
  <2>4. MarkInv' /\ SweepInv' /\ MutatorInv' /\ MarkerInv'
    BY <2>1 DEF MarkInv, SweepInv, MutatorInv, MarkerInv, Quiet, Nobody, Tracing
  <2> QED
    BY <2>3, <2>4
<1>4. CASE ShutDown
  <2>1. /\ mpc = "run" /\ phase = "Idle" /\ cpc # "off" /\ mpc' = "join" /\ requested' = FALSE
        /\ trigger' = Append(trigger, "Shutdown")
        /\ UNCHANGED <<heap, colors, parked, closure, reconcile, phase, managed, dead,
                       gcThreads, shades, goal, history>>
    BY <1>4 DEF ShutDown, Free
  <2>2. trigger' = <<"Shutdown">> /\ cpc = "recv"
    BY <2>1 DEF IdleInv
  <2>3. IdleInv' /\ MarkInv' /\ SweepInv'
    BY <2>1, <2>2 DEF IdleInv, MarkInv, SweepInv, Quiet, Nobody
  <2>4. MutatorInv' /\ MarkerInv' /\ BoxInv'
    BY <2>1 DEF MutatorInv, MarkerInv, BoxInv, Tracing
  <2> QED
    BY <2>3, <2>4
<1>5. CASE Joined
  <2>1. /\ mpc = "join" /\ cpc = "off" /\ mpc' = "run"
        /\ UNCHANGED <<heap, colors, safepoint, cycle, gcThreads, shades, history>>
    BY <1>5 DEF Joined
  <2>2. phase = "Idle" /\ trigger = <<>>
    BY <2>1 DEF MutatorInv, IdleInv
  <2> QED
    BY <2>1, <2>2 DEF IdleInv, MarkInv, SweepInv, MutatorInv, MarkerInv, BoxInv, Quiet, Nobody, Tracing
<1> QED
  BY <1>1, <1>2, <1>3, <1>4, <1>5 DEF Owed

LEMMA MarkingThreads ==
  ASSUME TypeOK, ThreadInv, NEW m \in Marker, Marking(m)
  PROVE  ThreadInv'
<1> USE MarkTypes DEF heap, colors, safepoint, cycle, gcThreads, mutator, history, ThreadInv
<1>1. /\ mark[m] \in {"pop", "enter", "trace"}
      /\ UNCHANGED <<heap, safepoint, cycle, cpc, todo, mutator, history>>
      /\ \A k \in Marker : k # m => mark'[k] = mark[k] /\ held'[k] = held[k]
  BY DEF Marking, Pop, Enter, Trace, Quit, TypeOK
<1>2. ~Nobody
  BY <1>1 DEF Nobody
<1>3. phase = "ConcurrentMark" /\ cpc \in {"mark", "drain"} /\ trigger = <<>> /\ Quiet
      /\ (cpc = "mark" => m # Coordinator) /\ (cpc = "drain" => m = Coordinator)
  <2>1. m \in Worker \/ m = Coordinator
    BY DEF Marker
  <2> QED
    BY <1>1, <1>2, <2>1 DEF IdleInv, MarkInv, SweepInv, TypeOK, Phases
<1>4. MarkInv'
  BY <1>1, <1>3 DEF MarkInv, Quiet, Marker
<1>5. IdleInv' /\ SweepInv' /\ MutatorInv' /\ BoxInv'
  BY <1>1, <1>3 DEF IdleInv, SweepInv, MutatorInv, BoxInv
<1>6. MarkerInv'
  <2>1. active' = Cardinality(Tracing')
    BY MarkingCount
  <2>2. mark'[m] = "enter" => m # Coordinator
    BY <1>1 DEF Marking, Pop, Enter, Trace, Quit, TypeOK, MarkerInv
  <2>3. mark'[m] \in {"enter", "trace"} => held'[m] \in managed
    BY <1>1 DEF Marking, Pop, Enter, Trace, Quit, TypeOK, MarkerInv
  <2> QED
    BY <1>1, <2>1, <2>2, <2>3 DEF MarkerInv
<1> QED
  BY <1>4, <1>5, <1>6

LEMMA CoordinatingThreads ==
  ASSUME TypeOK, ThreadInv, Coordinating
  PROVE  ThreadInv'
<1> USE MarkTypes DEF heap, colors, safepoint, cycle, gcThreads, mutator, history, ThreadInv
<1>1. CASE Receive
  <2>1. /\ cpc = "recv" /\ trigger # <<>> /\ trigger' = Tail(trigger)
        /\ UNCHANGED <<heap, colors, safepoint, phase, managed, dead, todo, held, active, mutator, history>>
    BY <1>1 DEF Receive
  <2>2. CASE phase = "Idle"
    <3>1. trigger = <<"Shutdown">> /\ mpc = "join"
      BY <2>1, <2>2 DEF IdleInv
    <3>2. trigger' = <<>> /\ cpc' = "off" /\ mark' = mark
      BY <1>1, <2>1, <3>1 DEF Receive
    <3> QED
      BY <2>1, <2>2, <3>1, <3>2
      DEF IdleInv, MarkInv, SweepInv, MutatorInv, MarkerInv, BoxInv, Quiet, Nobody, Tracing
  <2>3. CASE phase # "Idle"
    <3>1. phase = "ConcurrentMark" /\ trigger = <<"Major">> /\ Quiet /\ Nobody /\ reconcile = FALSE
      BY <2>1, <2>3 DEF MarkInv, SweepInv, TypeOK, Phases
    <3>2. /\ trigger' = <<>> /\ cpc' = "mark"
          /\ mark' = [k \in Marker |-> IF k \in Worker THEN "pop" ELSE "done"]
      BY <1>1, <2>1, <3>1 DEF Receive
    <3>3. mark'[Coordinator] = "done" /\ \A k \in Marker : mark'[k] \notin {"enter", "trace"}
      BY <3>2, MarkAssumption DEF Marker
    <3>4. Tracing' = Tracing
      BY <3>1, <3>3 DEF Tracing, Nobody
    <3>5. MarkInv'
      BY <2>1, <3>1, <3>2, <3>3 DEF MarkInv, Quiet
    <3> QED
      BY <2>1, <3>1, <3>2, <3>3, <3>4, <3>5 DEF IdleInv, SweepInv, MutatorInv, MarkerInv, BoxInv
  <2> QED
    BY <2>2, <2>3
<1>2. CASE Join
  <2>1. /\ cpc = "mark" /\ (\A w \in Worker : mark[w] = "done") /\ cpc' = "drain"
        /\ mark' = [mark EXCEPT ![Coordinator] = "pop"]
        /\ UNCHANGED <<heap, colors, safepoint, cycle, todo, held, active, mutator, history>>
    BY <1>2 DEF Join
  <2>2. phase = "ConcurrentMark" /\ mark[Coordinator] = "done"
    BY <2>1 DEF IdleInv, MarkInv, SweepInv, TypeOK, Phases
  <2>3. /\ mark'[Coordinator] = "pop" /\ \A k \in Marker : k # Coordinator => mark'[k] = mark[k]
        /\ Coordinator \notin Worker
    BY <2>1, MarkAssumption DEF TypeOK
  <2>4. Tracing' = Tracing
    BY <2>3 DEF Tracing
  <2>5. MarkInv'
    BY <2>1, <2>2, <2>3 DEF MarkInv, Quiet
  <2> QED
    BY <2>1, <2>2, <2>3, <2>4, <2>5 DEF IdleInv, SweepInv, MutatorInv, MarkerInv, BoxInv
<1>3. CASE AskToTerminate
  <2>1. /\ mark[Coordinator] = "pop" /\ gray = <<>> /\ cpc = "drain" /\ requested' = TRUE /\ cpc' = "ask1"
        /\ mark' = [mark EXCEPT ![Coordinator] = "done"]
        /\ UNCHANGED <<heap, colors, parked, closure, reconcile, cycle, todo, held, active, mutator, history>>
    BY <1>3 DEF AskToTerminate, Ask
  <2>2. phase = "ConcurrentMark" /\ Quiet /\ trigger = <<>> /\ \A w \in Worker : mark[w] = "done"
    BY <2>1 DEF IdleInv, MarkInv, SweepInv, TypeOK, Phases
  <2>3. Nobody'
    BY <2>1, <2>2 DEF Nobody, Marker, TypeOK
  <2>4. Tracing' = {} /\ Tracing = {}
    BY <2>2, <2>3 DEF Nobody, Tracing
  <2>5. MarkInv'
    BY <2>1, <2>2, <2>3 DEF MarkInv, Quiet
  <2>6. MarkerInv'
    BY <2>1, <2>3, <2>4 DEF MarkerInv, Nobody
  <2> QED
    BY <2>1, <2>2, <2>5, <2>6 DEF IdleInv, SweepInv, MutatorInv, BoxInv
<1>4. CASE Release1
  <2>1. /\ cpc = "ask1" /\ parked /\ closure' = TRUE /\ requested' = FALSE /\ cpc' = "spin"
        /\ UNCHANGED <<heap, colors, parked, reconcile, cycle, todo, mark, held, active, mutator, history>>
    BY <1>4 DEF Release1
  <2>2. phase = "ConcurrentMark" /\ parked = TRUE
    BY <2>1 DEF IdleInv, MarkInv, SweepInv, TypeOK, Phases
  <2>3. MarkInv'
    BY <2>1, <2>2 DEF MarkInv, Nobody
  <2> QED
    BY <2>1, <2>2, <2>3 DEF IdleInv, SweepInv, MutatorInv, MarkerInv, BoxInv, Tracing
<1>5. CASE BeginSweep
  <2>1. /\ cpc = "spin" /\ phase = "ConcurrentSweep" /\ cpc' = "sweep" /\ todo' = managed
        /\ UNCHANGED <<heap, colors, safepoint, cycle, mark, held, active, mutator, history>>
    BY <1>5 DEF BeginSweep
  <2>2. SweepInv'
    BY <2>1 DEF SweepInv, BoxInv, Quiet, Nobody
  <2> QED
    BY <2>1, <2>2 DEF IdleInv, MarkInv, MutatorInv, MarkerInv, BoxInv, Tracing
<1>6. ASSUME NEW n \in Object, Sweep(n)
      PROVE  ThreadInv'
  <2>1. /\ UNCHANGED <<young, old, colors, safepoint, phase, managed, trigger,
                       cpc, mark, held, active, mutator, history>>
        /\ todo' = todo \ {n} /\ n \in todo /\ cpc = "sweep"
        /\ \/ color[n] # "White" /\ dead' = dead
           \/ color[n] = "White" /\ dead' = dead \cup {n}
    BY <1>6, SweepFacts
  <2>2. phase = "ConcurrentSweep" /\ todo \subseteq managed \ dead
    BY <2>1 DEF IdleInv, MarkInv, SweepInv, TypeOK, Phases
  <2>3. SweepInv'
    BY <2>1, <2>2 DEF SweepInv, Quiet, Nobody
  <2> QED
    BY <2>1, <2>2, <2>3 DEF IdleInv, MarkInv, MutatorInv, MarkerInv, BoxInv, Tracing
<1>7. CASE AskToReconcile
  <2>1. /\ todo = {} /\ cpc = "sweep" /\ requested' = TRUE /\ cpc' = "ask2" /\ mark' = mark
        /\ UNCHANGED <<heap, colors, parked, closure, reconcile, cycle, todo, held, active, mutator, history>>
    BY <1>7 DEF AskToReconcile, Ask
  <2>2. phase = "ConcurrentSweep" /\ Quiet
    BY <2>1 DEF IdleInv, MarkInv, SweepInv, TypeOK, Phases
  <2>3. SweepInv'
    BY <2>1, <2>2 DEF SweepInv, Quiet, Nobody
  <2> QED
    BY <2>1, <2>2, <2>3 DEF IdleInv, MarkInv, MutatorInv, MarkerInv, BoxInv, Tracing
<1>8. CASE Release2
  <2>1. /\ cpc = "ask2" /\ parked /\ reconcile' = TRUE /\ requested' = FALSE /\ cpc' = "recv"
        /\ UNCHANGED <<heap, colors, parked, closure, cycle, todo, mark, held, active, mutator, history>>
    BY <1>8 DEF Release2
  <2>2. phase = "ConcurrentSweep" /\ parked = TRUE
    BY <2>1 DEF IdleInv, MarkInv, SweepInv, TypeOK, Phases
  <2>3. SweepInv'
    BY <2>1, <2>2 DEF SweepInv, Nobody
  <2> QED
    BY <2>1, <2>2, <2>3 DEF IdleInv, MarkInv, MutatorInv, MarkerInv, BoxInv, Tracing
<1> QED
  BY <1>1, <1>2, <1>3, <1>4, <1>5, <1>6, <1>7, <1>8 DEF Coordinating

LEMMA ThreadStep ==
  ASSUME TypeOK, ThreadInv, [Next]_vars
  PROVE  ThreadInv'
<1>1. CASE UNCHANGED vars
  BY <1>1 DEF vars, heap, colors, safepoint, cycle, gcThreads, mutator, history, ThreadInv,
              IdleInv, MarkInv, SweepInv, MutatorInv, MarkerInv, BoxInv, Quiet, Nobody, Tracing
<1> QED
  BY <1>1, ProgramThreads, SafepointThreads, OwedThreads, MarkingThreads, CoordinatingThreads DEF Next

LEMMA ThreadsAlways == Spec => [](TypeOK /\ ThreadInv)
<1>1. Init => TypeOK /\ ThreadInv
  BY InitInv
<1>2. TypeOK /\ ThreadInv /\ [Next]_vars => (TypeOK /\ ThreadInv)'
  BY TypeStep, ThreadStep
<1> QED
  BY <1>1, <1>2, PTL DEF Spec

-----------------------------------------------------------------------------
(* What the threads may rely on.                                           *)

\* Every variable keeps to its values: in particular the counter of the
\* workers at work never goes below zero, and what the coordinator frees is
\* old.
THEOREM TypeCorrect == Spec => []TypeOK
  BY ThreadsAlways, PTL

\* The two rendezvous of the coordinator with the mutator are two, for any
\* number of workers and however they leave.
THEOREM RendezvousIsRealAlways == Spec => []RendezvousIsReal
<1>1. TypeOK /\ ThreadInv => RendezvousIsReal
  BY DEF TypeOK, Phases, ThreadInv, IdleInv, MarkInv, SweepInv, Quiet, Nobody, RendezvousIsReal
<1> QED
  BY <1>1, ThreadsAlways, PTL

\* A cycle that has ended leaves no color, no thread at work and no message
\* behind for the next one.
THEOREM IdleIsCleanAlways == Spec => []IdleIsClean
<1>1. TypeOK /\ ThreadInv => IdleIsClean
  <2> SUFFICES ASSUME TypeOK, ThreadInv, phase = "Idle"
               PROVE  /\ \A n \in old : color[n] = "White"
                      /\ gray = <<>> /\ managed = {} /\ dead = {} /\ shades = <<>>
                      /\ cpc \in {"off", "recv"} /\ active = 0
                      /\ ~requested /\ ~parked /\ ~closure /\ ~reconcile
                      /\ "Major" \notin ToSet(trigger)
    BY DEF IdleIsClean
  <2>1. Nobody /\ Quiet /\ dead = {} /\ cpc \in {"off", "recv"} /\ gray = <<>> /\ managed = {}
        /\ \A n \in old : color[n] = "White"
    BY DEF ThreadInv, IdleInv, BoxInv
  <2>2. active = 0
    BY <2>1, NobodyTraces DEF ThreadInv
  <2>3. shades = <<>>
    BY DEF ThreadInv, MutatorInv
  <2>4. "Major" \notin ToSet(trigger)
    <3>1. trigger = <<>> \/ trigger = <<"Shutdown">>
      BY DEF ThreadInv, IdleInv
    <3> QED
      BY <3>1 DEF ToSet
  <2> QED
    BY <2>1, <2>2, <2>3, <2>4 DEF Quiet
<1> QED
  BY <1>1, ThreadsAlways, PTL

-----------------------------------------------------------------------------
(* The colors: each step keeps what is marked, and what is garbage.        *)

LEMMA InitColors ==
  ASSUME Init
  PROVE  ColorInv
<1>1. /\ young = {} /\ old = {} /\ dead = {} /\ managed = {} /\ doomed = {} /\ careful = TRUE
      /\ phase = "Idle" /\ \A n \in Object : fields[n] = NoRef
      /\ \A x \in Root : roots[x] = NoRef
  BY DEF Init
<1> QED
  BY <1>1 DEF ColorInv, Protected, GrayIsQueued, GarbageIsWhite, GarbageGoes, SweepIsRight, NoStale,
              NoDanglers, Kept, Live

\* steps that do not touch colors, heap or what is in hand
LEMMA ColorSame ==
  ASSUME ColorInv,
         UNCHANGED <<heap, colors, phase, managed, dead, shades, history>>, Carried' = Carried,
         GarbageGoes'
  PROVE  ColorInv'
<1> USE DEF heap, colors, history, ColorInv
<1>1. Protected' /\ GrayIsQueued'
  BY DEF Protected, Sources, Closed, GrayIsQueued
<1>2. GarbageIsWhite' /\ SweepIsRight'
  BY DEF GarbageIsWhite, SweepIsRight
<1>3. NoStale' /\ NoDanglers'
  BY DEF NoStale, NoDanglers, Kept, Live
<1> QED
  BY <1>1, <1>2, <1>3

\* steps that lose no source and change the references between managed objects
\* only from what has become one
LEMMA ProtectedSame ==
  ASSUME Protected, phase' = phase, careful' => careful, managed' = managed, doomed' = doomed,
         Sources \subseteq Sources', \A n \in managed : color'[n] = color[n],
         \A n \in managed : fields'[n] = fields[n] \/ fields[n] \notin managed \/ fields[n] \in Sources'
  PROVE  Protected'
<1> SUFFICES ASSUME phase = "ConcurrentMark", careful, NEW C \in SUBSET managed, Sources' \subseteq C,
                    Closed(C)', NEW n \in managed \ doomed
             PROVE  color'[n] = "Black" \/ n \in C
  BY DEF Protected
<1>1. Closed(C)
  <2> SUFFICES ASSUME NEW c \in C, fields[c] \in managed, color[fields[c]] = "White"
               PROVE  fields[c] \in C
    BY DEF Closed
  <2>1. CASE fields'[c] = fields[c]
    BY <2>1 DEF Closed
  <2>2. CASE fields[c] \in Sources'
    BY <2>2
  <2> QED
    BY <2>1, <2>2
<1>2. Sources \subseteq C
  OBVIOUS
<1> QED
  BY <1>1, <1>2 DEF Protected

LEMMA RootsAreKept ==
  ASSUME TypeOK, careful, ColorInv
  PROVE  /\ Known \subseteq Kept /\ Writable \subseteq Kept \cup {NoRef}
         /\ Kept \subseteq Live /\ Live \subseteq Object
         /\ NoRef \notin Object /\ Gone \notin Object /\ NoRef # Gone
         /\ Kept \cap (doomed \ dead) = {}
<1>1. \A x \in Root : roots[x] \in Kept \cup {NoRef}
  BY DEF ColorInv, NoDanglers
<1>2. Live \subseteq Object /\ Kept \subseteq Live /\ NoRef \notin Object
  BY MarkAssumption DEF Live, Kept, TypeOK
<1> QED
  BY <1>1, <1>2, MarkAssumption DEF Known, Writable, Kept

LEMMA AllocColors ==
  ASSUME TypeOK, ThreadInv, ColorInv, NEW n \in Object, NEW x \in Root, Alloc(n, x)
  PROVE  ColorInv'
<1> USE DEF heap, colors, safepoint, cycle, gcThreads, mutator, history
<1>1. PICK v \in Writable : fields' = [fields EXCEPT ![n] = v]
  BY DEF Alloc
<1>2. /\ n \notin Live /\ young' = young \cup {n} /\ careful
      /\ roots' = [roots EXCEPT ![x] = n] /\ color' = [color EXCEPT ![n] = AllocColor]
      /\ UNCHANGED <<old, dirty, gray, safepoint, cycle, gcThreads, mutator, history>>
  BY DEF Alloc, Running
<1>3. /\ fields \in [Object -> Value] /\ roots \in [Root -> Value] /\ managed \subseteq Object
      /\ color \in [Object -> {"White", "Gray", "Black"}] /\ old \subseteq Object
  BY DEF TypeOK
<1>4. /\ \A m \in Object : m # n => fields'[m] = fields[m] /\ color'[m] = color[m]
      /\ fields'[n] = v /\ roots'[x] = n /\ \A y \in Root : y # x => roots'[y] = roots[y]
  BY <1>1, <1>2, <1>3
<1>5. v \in Kept \cup {NoRef} /\ Kept \subseteq Live /\ Kept \cap (doomed \ dead) = {} /\ NoRef \notin Object
      /\ Gone \notin Object /\ NoRef # Gone
  BY <1>2, RootsAreKept
<1>6. Live' = Live \cup {n} /\ n \notin old \ dead /\ Carried' = Carried /\ doomed \subseteq managed
      /\ managed \subseteq old /\ n \notin doomed \ dead
  BY <1>2 DEF Live, Carried, ThreadInv, BoxInv
<1>7. Protected' /\ GrayIsQueued'
  <2>1. CASE phase = "ConcurrentMark"
    <3>1. n \notin managed
      BY <1>6, <2>1 DEF ThreadInv, BoxInv
    <3>2. \A m \in managed : color'[m] = color[m] /\ fields'[m] = fields[m]
      BY <1>3, <1>4, <3>1
    <3>3. Sources' = Sources
      BY <1>2, <1>6, <3>2 DEF Sources
    <3>4. Protected'
      BY <1>2, <3>2, <3>3, ProtectedSame DEF ColorInv
    <3> QED
      BY <1>2, <1>6, <3>2, <3>4 DEF GrayIsQueued, ColorInv
  <2>2. CASE phase # "ConcurrentMark"
    BY <1>2, <2>2 DEF Protected, GrayIsQueued
  <2> QED
    BY <2>1, <2>2
<1>8. GarbageIsWhite' /\ GarbageGoes' /\ SweepIsRight'
  <2>1. \A m \in doomed \ dead : color'[m] = "White"
    BY <1>3, <1>4, <1>6 DEF ColorInv, GarbageIsWhite
  <2>2. v \notin doomed \ dead
    BY <1>3, <1>5, <1>6
  <2>3. \A m \in managed \ doomed : fields'[m] \notin doomed \ dead
    BY <1>3, <1>4, <2>2 DEF ColorInv, GarbageIsWhite
  <2>4. \A y \in Root : roots'[y] \notin doomed \ dead
    BY <1>4, <1>6 DEF ColorInv, GarbageIsWhite
  <2>5. GarbageIsWhite'
    BY <1>2, <1>6, <2>1, <2>3, <2>4 DEF ColorInv, GarbageIsWhite
  <2>6. GarbageGoes'
    BY <1>2 DEF ColorInv, GarbageGoes
  <2>7. SweepIsRight'
    BY <1>2, <1>3, <1>4, <1>6 DEF ColorInv, SweepIsRight
  <2> QED
    BY <2>5, <2>6, <2>7
<1>9. NoStale'
  BY <1>4, <1>5, <1>6 DEF ColorInv, NoStale
<1>10. NoDanglers'
  <2>1. Kept' = Kept \cup {n}
    BY <1>2, <1>6 DEF Kept
  <2>2. /\ \A y \in Root : roots[y] \in Kept \cup {NoRef}
        /\ \A m \in Kept : fields[m] \in Kept \cup {NoRef}
        /\ phase # "ConcurrentSweep" => \A m \in Live : fields[m] # Gone
        /\ \A m \in old \ dead : fields[m] \in young => m \in dirty
    BY <1>2 DEF ColorInv, NoDanglers
  <2>3. /\ \A y \in Root : roots'[y] \in Kept' \cup {NoRef}
        /\ \A m \in Kept' : fields'[m] \in Kept' \cup {NoRef}
    BY <1>4, <1>5, <2>1, <2>2, RootsAreKept, <1>2
  <2>4. phase # "ConcurrentSweep" => \A m \in Live' : fields'[m] # Gone
    BY <1>4, <1>5, <1>6, <2>2, RootsAreKept, <1>2
  <2>5. \A m \in old \ dead : fields'[m] \in young \cup {n} => m \in dirty
    <3>1. \A m \in old \ dead : fields[m] # n /\ fields'[m] = fields[m]
      BY <1>2, <1>3, <1>4, <1>6, MarkAssumption DEF ColorInv, NoStale
    <3> QED
      BY <2>2, <3>1
  <2> QED
    BY <1>2, <2>3, <2>4, <2>5 DEF NoDanglers
<1> QED
  BY <1>7, <1>8, <1>9, <1>10 DEF ColorInv

\* Assign and Load: a root is given something that is kept
LEMMA RootColors ==
  ASSUME TypeOK, ThreadInv, ColorInv, careful, NEW x \in Root, NEW v \in Kept \cup {NoRef},
         roots' = [roots EXCEPT ![x] = v],
         UNCHANGED <<young, old, fields, dirty, colors, safepoint, cycle, gcThreads, mutator, history>>
  PROVE  ColorInv'
<1> USE DEF colors, safepoint, cycle, gcThreads, mutator, history
<1>1. roots'[x] = v /\ \A y \in Root : y # x => roots'[y] = roots[y]
  BY DEF TypeOK
<1>2. Carried' = Carried /\ Live' = Live /\ Kept' = Kept
  BY DEF Carried, Live, Kept
<1>3. Kept \subseteq Live /\ v \notin doomed \ dead /\ v # Gone
  BY RootsAreKept, MarkAssumption DEF TypeOK
<1>4. Protected' /\ GrayIsQueued' /\ GarbageGoes' /\ SweepIsRight'
  BY <1>2 DEF ColorInv, Protected, Sources, Closed, GrayIsQueued, GarbageGoes, SweepIsRight
<1>5. GarbageIsWhite'
  BY <1>1, <1>2, <1>3 DEF ColorInv, GarbageIsWhite
<1>6. NoStale' /\ NoDanglers'
  BY <1>1, <1>2, <1>3 DEF ColorInv, NoStale, NoDanglers
<1> QED
  BY <1>4, <1>5, <1>6 DEF ColorInv

LEMMA StoreColors ==
  ASSUME TypeOK, ThreadInv, ColorInv, NEW n \in Object, Store(n)
  PROVE  ColorInv'
<1> USE DEF heap, colors, safepoint, cycle, gcThreads, mutator, history
<1>1. PICK v \in Writable :
        /\ fields' = [fields EXCEPT ![n] = v]
        /\ dirty' = IF n \in old \ dead /\ v \in young THEN dirty \cup {n} ELSE dirty
        /\ shades' = IF phase = "ConcurrentMark" THEN Shades(fields[n], v) ELSE <<>>
  BY DEF Store
<1>2. /\ n \in Known /\ careful /\ mpc = "run"
      /\ UNCHANGED <<young, old, roots, colors, safepoint, cycle, gcThreads, goal, history>>
  BY DEF Store, Running
<1>3. fields'[n] = v /\ \A m \in Object : m # n => fields'[m] = fields[m]
  BY <1>1 DEF TypeOK
<1>4. /\ n \in Kept /\ v \in Kept \cup {NoRef} /\ Kept \subseteq Live /\ Live \subseteq Object
      /\ Kept \cap (doomed \ dead) = {}
      /\ NoRef \notin Object /\ Gone \notin Object /\ NoRef # Gone
  BY <1>2, RootsAreKept
<1>5. /\ \A y \in Root : roots[y] \in Kept \cup {NoRef}
      /\ \A m \in Kept : fields[m] \in Kept \cup {NoRef}
      /\ phase # "ConcurrentSweep" => \A m \in Live : fields[m] # Gone
      /\ \A m \in old \ dead : fields[m] \in young => m \in dirty
  BY <1>2 DEF ColorInv, NoDanglers
<1>6. Carried' = Carried /\ Live' = Live /\ Kept' = Kept /\ managed \subseteq Object /\ doomed \subseteq managed
  BY <1>2 DEF Carried, Live, Kept, TypeOK
<1>7. shades = <<>> /\ ToSet(shades) = {}
  <2>1. shades = <<>>
    BY <1>2 DEF ThreadInv, MutatorInv
  <2> QED
    BY <2>1 DEF ToSet
<1>8. ToSet(shades') = IF phase = "ConcurrentMark" THEN {fields[n], v} \cap Object ELSE {}
  <2>1. ToSet(<<>>) = {}
    BY DEF ToSet
  <2> QED
    BY <1>1, <2>1, ShadesAre
<1>9. Protected' /\ GrayIsQueued'
  <2>1. CASE phase = "ConcurrentMark"
    <3>1. Sources \subseteq Sources'
      BY <1>2, <1>6, <1>7 DEF Sources
    <3>2. fields[n] \notin managed \/ fields[n] \in Sources' \/ color[fields[n]] = "Black"
      BY <1>2, <1>6, <1>8, <2>1 DEF Sources
    <3> SUFFICES Protected'
      BY <1>2, <1>6 DEF ColorInv, GrayIsQueued
    <3> SUFFICES ASSUME NEW C \in SUBSET managed, Sources' \subseteq C,
                        Closed(C)', NEW m \in managed \ doomed
                 PROVE  color[m] = "Black" \/ m \in C
      BY <1>2 DEF Protected
    <3>3. Closed(C)
      <4> SUFFICES ASSUME NEW c \in C, fields[c] \in managed, color[fields[c]] = "White"
                   PROVE  fields[c] \in C
        BY DEF Closed
      <4>1. CASE c = n
        BY <3>2, <4>1
      <4>2. CASE c # n
        BY <1>2, <1>3, <1>6, <4>2 DEF Closed
      <4> QED
        BY <4>1, <4>2
    <3> QED
      BY <1>2, <2>1, <3>1, <3>3 DEF ColorInv, Protected
  <2>2. CASE phase # "ConcurrentMark"
    BY <1>2, <2>2 DEF Protected, GrayIsQueued
  <2> QED
    BY <2>1, <2>2
<1>10. GarbageIsWhite'
  <2>1. fields[n] \notin doomed \ dead /\ v \notin doomed \ dead
    BY <1>4, <1>5, <1>6
  <2>2. doomed \cap ToSet(shades') = {}
    BY <1>8, <2>1 DEF ThreadInv, BoxInv
  <2>3. \A m \in managed \ doomed : fields'[m] \notin doomed \ dead
    BY <1>3, <1>6, <2>1 DEF ColorInv, GarbageIsWhite
  <2> QED
    BY <1>2, <1>6, <2>2, <2>3 DEF ColorInv, GarbageIsWhite
<1>11. GarbageGoes' /\ SweepIsRight'
  BY <1>2 DEF ColorInv, GarbageGoes, SweepIsRight
<1>12. NoStale'
  BY <1>2, <1>3, <1>4, <1>6 DEF ColorInv, NoStale
<1>13. NoDanglers'
  <2>1. \A m \in Kept : fields'[m] \in Kept \cup {NoRef}
    BY <1>3, <1>4, <1>5
  <2>2. phase # "ConcurrentSweep" => \A m \in Live : fields'[m] # Gone
    BY <1>3, <1>4, <1>5
  <2>3. \A m \in old \ dead : fields'[m] \in young => m \in dirty'
    <3>1. n \in old \ dead /\ v \in young => n \in dirty'
      BY <1>1
    <3>2. dirty \subseteq dirty' /\ old \subseteq Object
      BY <1>1 DEF TypeOK
    <3> QED
      BY <1>3, <1>5, <3>1, <3>2
  <2> QED
    BY <1>2, <1>5, <1>6, <2>1, <2>2, <2>3 DEF NoDanglers
<1> QED
  BY <1>9, <1>10, <1>11, <1>12, <1>13 DEF ColorInv

\* gc_minor_only and the first half of gc_full
LEMMA MinorColors ==
  ASSUME TypeOK, ThreadInv, ColorInv, MinorGc, careful \/ phase = "Idle", phase # "ConcurrentSweep",
         UNCHANGED <<gray, phase, managed, dead, cpc, todo, mark, held, shades, history>>
  PROVE  ColorInv'
<1> USE DEF history
<1> DEFINE lost == young \ Survivors
<1>1. /\ young' = {} /\ old' = old \cup Survivors /\ dirty' = {} /\ Survivors \subseteq young
      /\ \A n \in Object : fields'[n] = IF n \in lost THEN NoRef
                                        ELSE IF fields[n] \in lost THEN Gone ELSE fields[n]
      /\ \A x \in Root : roots'[x] = IF roots[x] \in lost THEN Gone ELSE roots[x]
      /\ \A n \in Object : color'[n] = IF n \in young THEN "White" ELSE color[n]
  BY MinorFacts
<1>2. /\ dead = {} /\ young \cap old = {} /\ managed \subseteq old /\ doomed \subseteq managed
      /\ young \subseteq Object /\ old \subseteq Object
  BY DEF ThreadInv, BoxInv, TypeOK
<1>3. Gone \notin Object /\ NoRef \notin Object /\ NoRef # Gone
  BY MarkAssumption
<1>4. /\ Carried' = Carried /\ Live = young \cup old /\ Live' = old \cup Survivors
      /\ Kept = (young \cup old) \ doomed /\ Kept' = (old \cup Survivors) \ doomed
  BY <1>1, <1>2 DEF Carried, Live, Kept
<1>5. Protected' /\ GrayIsQueued'
  <2>1. /\ \A n \in managed : color'[n] = color[n]
        /\ \A n \in managed : fields'[n] = fields[n] \/ fields[n] \notin managed
    BY <1>1, <1>2
  <2>2. Sources' = Sources
    BY <1>4, <2>1 DEF Sources
  <2>3. Protected'
    BY <2>1, <2>2, ProtectedSame DEF ColorInv
  <2> QED
    BY <1>4, <2>1, <2>3 DEF ColorInv, GrayIsQueued
<1>6. GarbageIsWhite' /\ GarbageGoes' /\ SweepIsRight'
  <2>1. \A n \in managed \ doomed : fields'[n] \notin doomed
    BY <1>1, <1>2, <1>3 DEF ColorInv, GarbageIsWhite
  <2>2. \A x \in Root : roots'[x] \notin doomed
    BY <1>1, <1>2, <1>3 DEF ColorInv, GarbageIsWhite
  <2>3. \A n \in doomed : color'[n] = "White"
    BY <1>1, <1>2 DEF ColorInv, GarbageIsWhite
  <2> QED
    BY <1>2, <1>4, <2>1, <2>2, <2>3 DEF ColorInv, GarbageIsWhite, GarbageGoes, SweepIsRight
<1>7. NoStale'
  <2>1. \A x \in Root : roots'[x] \in Live' \cup {NoRef, Gone}
    BY <1>1, <1>4 DEF ColorInv, NoStale
  <2>2. \A n \in Object : fields'[n] \in Live' \cup {NoRef, Gone}
    BY <1>1, <1>4 DEF ColorInv, NoStale
  <2> QED
    BY <2>1, <2>2 DEF NoStale
<1>8. NoDanglers'
  <2> SUFFICES ASSUME careful
               PROVE  /\ \A x \in Root : roots'[x] \in Kept' \cup {NoRef}
                      /\ \A n \in Kept' : fields'[n] \in Kept' \cup {NoRef}
                      /\ \A n \in Live' : fields'[n] # Gone
    BY <1>1 DEF NoDanglers
  <2>1. /\ \A x \in Root : roots[x] \in Kept \cup {NoRef}
        /\ \A n \in Kept : fields[n] \in Kept \cup {NoRef}
        /\ \A n \in Live : fields[n] # Gone
        /\ \A n \in old : fields[n] \in young => n \in dirty
    BY <1>2 DEF ColorInv, NoDanglers
  <2>2. /\ FromRoots(young) \cup FromCards \subseteq Survivors
        /\ \A n \in Survivors : fields[n] \in young => fields[n] \in Survivors
    BY ReachClosed DEF Survivors, FromRoots, FromCards, HasChildren
  <2>3. \A x \in Root : roots[x] \notin lost
    BY <2>2 DEF FromRoots
  <2>4. \A n \in old \cup Survivors : fields[n] \notin lost
    <3>1. \A n \in old : fields[n] \in young => fields[n] \in FromCards
      BY <1>4, <2>1 DEF FromCards
    <3> QED
      BY <2>2, <3>1
  <2>5. \A n \in old \cup Survivors : fields'[n] = fields[n]
    BY <1>1, <1>2, <2>4
  <2>6. \A x \in Root : roots'[x] = roots[x]
    BY <1>1, <2>3
  <2> HIDE DEF lost
  <2>7. \A n \in Kept' : fields'[n] \in Kept' \cup {NoRef}
    <3>1. \A n \in Kept' : n \in Kept /\ n \in old \cup Survivors
      BY <1>1, <1>4
    <3> QED
      BY <1>4, <2>1, <2>4, <2>5, <3>1 DEF lost
  <2>8. \A x \in Root : roots'[x] \in Kept' \cup {NoRef}
    BY <1>4, <2>1, <2>3, <2>6 DEF lost
  <2>9. \A n \in Live' : fields'[n] # Gone
    BY <1>1, <1>4, <2>1, <2>5
  <2> QED
    BY <2>7, <2>8, <2>9
<1> QED
  BY <1>5, <1>6, <1>7, <1>8 DEF ColorInv

\* the collections that stop the world run between cycles
LEMMA MajorColors ==
  ASSUME TypeOK, ThreadInv, ColorInv, MajorGc, phase = "Idle",
         UNCHANGED <<colors, phase, managed, dead, gcThreads, shades, doomed>>
  PROVE  ColorInv'
<1> USE DEF colors, gcThreads
<1> DEFINE kept == Reach(FromRoots(old), old)
           swept == old \ kept
<1>1. /\ young' = young /\ old' = kept /\ old' \subseteq old
      /\ \A n \in Object : fields'[n] = IF n \in swept THEN NoRef
                                        ELSE IF fields[n] \in swept THEN Gone ELSE fields[n]
      /\ \A x \in Root : roots'[x] = IF roots[x] \in swept THEN Gone ELSE roots[x]
      /\ careful' = (careful /\ young = {} /\ dirty = {})
  BY MajorFacts
<1>2. /\ managed = {} /\ doomed = {} /\ dead = {} /\ young \cap old = {} /\ old \subseteq Object
  BY DEF ThreadInv, IdleInv, BoxInv, TypeOK
<1>3. FromRoots(old) \subseteq kept /\ HasChildren(kept, old)
  BY ReachClosed DEF FromRoots
<1> HIDE DEF kept
<1>4. /\ Live = young \cup old /\ Live' = young \cup kept /\ Kept = Live /\ Kept' = Live'
      /\ Carried' = Carried
  BY <1>1, <1>2 DEF Live, Kept, Carried
<1>5. Protected' /\ GrayIsQueued' /\ GarbageIsWhite' /\ GarbageGoes' /\ SweepIsRight'
  BY <1>2 DEF Protected, GrayIsQueued, GarbageIsWhite, GarbageGoes, SweepIsRight
<1>6. NoStale'
  <2>1. \A x \in Root : roots'[x] \in Live' \cup {NoRef, Gone}
    BY <1>1, <1>4 DEF ColorInv, NoStale
  <2>2. \A n \in Object : fields'[n] \in Live' \cup {NoRef, Gone}
    BY <1>1, <1>4 DEF ColorInv, NoStale
  <2> QED
    BY <2>1, <2>2 DEF NoStale
<1>7. NoDanglers'
  <2> SUFFICES ASSUME careful, young = {}
               PROVE  /\ \A x \in Root : roots'[x] \in Kept' \cup {NoRef}
                      /\ \A n \in kept : fields'[n] \in Kept' \cup {NoRef} /\ fields'[n] # Gone
    BY <1>1, <1>2, <1>4 DEF NoDanglers
  <2>1. /\ \A x \in Root : roots[x] \in old \cup {NoRef}
        /\ \A n \in old : fields[n] \in old \cup {NoRef}
    BY <1>4 DEF ColorInv, NoDanglers
  <2>2. \A x \in Root : roots[x] \in kept \cup {NoRef}
    BY <1>3, <2>1 DEF FromRoots
  <2>3. \A n \in kept : fields[n] \in kept \cup {NoRef}
    BY <1>1, <1>3, <2>1 DEF HasChildren
  <2>4. NoRef \notin old /\ Gone \notin old /\ NoRef # Gone
    BY <1>2, MarkAssumption
  <2> QED
    BY <1>1, <1>2, <1>4, <2>2, <2>3, <2>4
<1> QED
  BY <1>5, <1>6, <1>7 DEF ColorInv

LEMMA BeginKeeps ==
  ASSUME TypeOK, ThreadInv, ColorInv, Begin, phase = "Idle", careful, mpc = "run",
         UNCHANGED <<gcThreads, shades>>
  PROVE  ColorInv'
<1> USE DEF heap, gcThreads
<1> DEFINE seen == Reach(FromRoots(Live), Live)
<1>1. /\ gray = <<>> /\ managed = {} /\ doomed = {} /\ dead = {} /\ Nobody /\ shades = <<>>
      /\ young \cap old = {} /\ old \subseteq Object /\ young \subseteq Object
      /\ \A n \in old : color[n] = "White"
  BY DEF ThreadInv, IdleInv, MutatorInv, BoxInv, TypeOK
<1>2. /\ managed' = old /\ phase' = "ConcurrentMark" /\ doomed' = old \ seen
      /\ (careful' => CarefulStart) /\ UNCHANGED <<heap, dead>>
  BY DEF Begin
<1>3. /\ ToSet(gray') = RootsToShade(old) /\ RootsToShade(old) = old \cap {roots[x] : x \in Root}
      /\ \A n \in Object : color'[n] = IF n \in RootsToShade(old) THEN "Gray" ELSE color[n]
  <2>1. ToSet(gray) = {}
    BY <1>1 DEF ToSet
  <2> QED
    BY <1>1, <2>1, BeginColors DEF RootsToShade, FromRoots
<1>4. Carried' = {} /\ ToSet(shades') = {}
  <2>1. ToSet(<<>>) = {}
    BY DEF ToSet
  <2> QED
    BY <1>1, <2>1 DEF Carried, Nobody
<1>5. Live = young \cup old /\ Live' = Live /\ Kept = Live /\ Kept' = young \cup (old \cap seen)
  BY <1>1, <1>2 DEF Live, Kept
<1>6. seen \subseteq Live /\ FromRoots(Live) \subseteq seen /\ HasChildren(seen, Live)
  BY ReachClosed DEF FromRoots
<1>7. /\ \A x \in Root : roots[x] \in Live \cup {NoRef}
      /\ \A n \in Live : fields[n] \in Live \cup {NoRef} /\ fields[n] # Gone
      /\ \A n \in old : fields[n] \in young => n \in dirty
  BY <1>1, <1>5, MarkAssumption DEF ColorInv, NoDanglers
<1>8. Protected'
  <2> SUFFICES ASSUME CarefulStart, NEW C \in SUBSET old, Sources' \subseteq C, Closed(C)',
                      NEW n \in old \cap seen
               PROVE  n \in C
    BY <1>2 DEF Protected
  <2>1. Sources' = RootsToShade(old)
    BY <1>1, <1>2, <1>3, <1>4 DEF Sources
  <2>2. HasChildren(C \cup young, Live)
    <3> SUFFICES ASSUME NEW c \in C \cup young, fields[c] \in Live
                 PROVE  fields[c] \in C \cup young
      BY DEF HasChildren
    <3>1. CASE c \in young
      BY <1>5, <3>1 DEF CarefulStart
    <3>2. CASE c \in C /\ fields[c] \in old /\ fields[c] \notin RootsToShade(old)
      <4>1. color'[fields[c]] = "White"
        BY <1>1, <1>3, <3>2
      <4> QED
        BY <1>2, <3>2, <4>1 DEF Closed
    <3> QED
      BY <1>5, <2>1, <3>1, <3>2
  <2>3. FromRoots(Live) \subseteq C \cup young
    BY <1>3, <1>5, <2>1 DEF FromRoots
  <2>4. C \cup young \in SUBSET Live
    BY <1>5
  <2> HIDE DEF seen
  <2>5. seen \subseteq C \cup young
    BY <2>2, <2>3, <2>4, ReachLeast DEF seen
  <2> QED
    BY <1>1, <2>5
<1> HIDE DEF seen
<1>9. GrayIsQueued'
  BY <1>1, <1>2, <1>3 DEF GrayIsQueued
<1>10. GarbageIsWhite'
  <2>1. doomed' \cap RootsToShade(old) = {}
    BY <1>2, <1>3, <1>5, <1>6 DEF FromRoots
  <2>2. \A n \in doomed' : color'[n] = "White"
    BY <1>1, <1>2, <1>3, <2>1
  <2>3. \A n \in old \cap seen : fields[n] \notin old \ seen
    BY <1>5, <1>6 DEF HasChildren
  <2>4. \A x \in Root : roots[x] \notin old \ seen
    BY <1>5, <1>6 DEF FromRoots
  <2> QED
    BY <1>2, <1>3, <1>4, <2>1, <2>2, <2>3, <2>4 DEF GarbageIsWhite
<1>11. GarbageGoes' /\ SweepIsRight'
  BY <1>1, <1>2 DEF GarbageGoes, SweepIsRight
<1>12. NoStale'
  BY <1>2, <1>5 DEF ColorInv, NoStale
<1>13. NoDanglers'
  <2> SUFFICES ASSUME CarefulStart
               PROVE  /\ \A x \in Root : roots[x] \in Kept' \cup {NoRef}
                      /\ \A n \in Kept' : fields[n] \in Kept' \cup {NoRef}
    BY <1>1, <1>2, <1>5, <1>7 DEF NoDanglers
  <2>1. \A x \in Root : roots[x] \in Kept' \cup {NoRef}
    BY <1>5, <1>6, <1>7 DEF FromRoots
  <2>2. \A n \in old \cap seen : fields[n] \in Kept' \cup {NoRef}
    BY <1>5, <1>6, <1>7 DEF HasChildren
  <2>3. \A n \in young : fields[n] \in Kept' \cup {NoRef}
    BY <1>5, <1>7 DEF CarefulStart
  <2> QED
    BY <1>5, <2>1, <2>2, <2>3
<1> QED
  BY <1>8, <1>9, <1>10, <1>11, <1>12, <1>13 DEF ColorInv

LEMMA ProgramColors ==
  ASSUME TypeOK, ThreadInv, ColorInv, Program
  PROVE  ColorInv'
<1> USE DEF heap, colors, safepoint, cycle, gcThreads, mutator, history
<1>1. ASSUME NEW x \in Root, NEW n \in Object, Load(x, n)
      PROVE  ColorInv'
  <2>1. careful /\ n \in Known /\ fields[n] # Gone /\ roots' = [roots EXCEPT ![x] = fields[n]]
        /\ UNCHANGED <<young, old, fields, dirty, colors, safepoint, cycle, gcThreads, mutator, history>>
    BY <1>1 DEF Load, Running
  <2>2. n \in Kept
    BY <2>1, RootsAreKept
  <2>3. fields[n] \in Kept \cup {NoRef}
    BY <2>1, <2>2 DEF ColorInv, NoDanglers
  <2> QED
    BY <2>1, <2>3, RootColors
<1>2. ASSUME NEW x \in Root, Assign(x)
      PROVE  ColorInv'
  <2>1. PICK v \in Writable : roots' = [roots EXCEPT ![x] = v]
    BY <1>2 DEF Assign
  <2>2. careful
        /\ UNCHANGED <<young, old, fields, dirty, colors, safepoint, cycle, gcThreads, mutator, history>>
    BY <1>2 DEF Assign, Running
  <2>3. v \in Kept \cup {NoRef}
    BY <2>1, <2>2, RootsAreKept
  <2> QED
    BY <2>1, <2>2, <2>3, RootColors
<1>3. CASE CollectMinor
  BY <1>3, MarkAssumption, MinorColors DEF CollectMinor, Running
<1>4. CASE CollectMajor /\ cpc # "off"
  <2>1. Begin /\ phase = "Idle" /\ careful /\ mpc = "run" /\ UNCHANGED <<gcThreads, shades>>
    BY <1>4 DEF CollectMajor, Running
  <2> QED
    BY <2>1, BeginKeeps
<1>5. CASE CollectMajor /\ cpc = "off"
  <2>1. MajorGc /\ phase = "Idle" /\ UNCHANGED <<colors, phase, managed, dead, gcThreads, shades, doomed>>
    BY <1>5 DEF CollectMajor
  <2> QED
    BY <2>1, MajorColors
<1>6. CASE SwitchOn
  <2>1. cpc = "off"
        /\ UNCHANGED <<heap, colors, safepoint, cycle, todo, mark, held, active, mutator, history>>
    BY <1>6 DEF SwitchOn
  <2>2. phase # "ConcurrentSweep"
    BY <2>1 DEF ThreadInv, SweepInv
  <2>3. GarbageGoes' /\ Carried' = Carried
    BY <2>1, <2>2 DEF GarbageGoes, Carried
  <2> QED
    BY <2>1, <2>3, ColorSame
<1>7. CASE Want
  <2>1. UNCHANGED <<heap, colors, safepoint, cycle, gcThreads, mpc, shades, history>>
    BY <1>7 DEF Want
  <2>2. GarbageGoes' /\ Carried' = Carried
    BY <2>1 DEF ColorInv, GarbageGoes, Carried
  <2> QED
    BY <2>1, <2>2, ColorSame
<1>8. CASE CollectMajor
  BY <1>4, <1>5, <1>8
<1> QED
  BY <1>1, <1>2, <1>3, <1>6, <1>7, <1>8, AllocColors, StoreColors DEF Program

LEMMA FinishColors ==
  ASSUME TypeOK, ThreadInv, ColorInv, FinishMark, phase = "ConcurrentMark", cpc = "spin", Nobody,
         shades = <<>>, UNCHANGED <<gcThreads, shades, careful>>
  PROVE  ColorInv'
<1> USE DEF heap, gcThreads
<1> DEFINE start == RootsToShade(managed) \cup (ToSet(gray) \cap managed)
           white == {n \in managed : color[n] = "White"}
           found == Reach({fields[n] : n \in start} \cap white, white)
<1>1. /\ color' = [n \in Object |-> IF n \in Remarked THEN "Black" ELSE color[n]]
      /\ gray' = <<>> /\ phase' = "ConcurrentSweep" /\ dead' = {} /\ UNCHANGED <<heap, managed, doomed>>
      /\ Remarked = start \cup found
  BY DEF FinishMark, Remarked
<1>2. /\ dead = {} /\ managed \subseteq old /\ doomed \subseteq managed /\ old \subseteq Object
      /\ young \cap old = {} /\ ToSet(gray) \subseteq Object
  BY ToSetType DEF ThreadInv, BoxInv, TypeOK
<1>3. Carried = {} /\ Carried' = {} /\ ToSet(shades) = {} /\ ToSet(gray') = {} /\ ToSet(shades') = {}
  <2>1. ToSet(<<>>) = {}
    BY DEF ToSet
  <2> QED
    BY <1>1, <2>1 DEF Carried, Nobody
<1>4. Live' = Live /\ Kept' = Kept /\ Live = young \cup old /\ Kept = (young \cup old) \ doomed
  BY <1>1, <1>2 DEF Live, Kept
<1>5. /\ \A n \in doomed : color[n] = "White"
      /\ doomed \cap ToSet(gray) = {}
      /\ \A n \in managed \ doomed : fields[n] \notin doomed
      /\ \A x \in Root : roots[x] \notin doomed
  BY <1>2 DEF ColorInv, GarbageIsWhite
<1>6. found \subseteq white /\ {fields[n] : n \in start} \cap white \subseteq found /\ HasChildren(found, white)
  BY ReachClosed
<1>7. start \cap doomed = {} /\ start \subseteq managed
  BY <1>5 DEF RootsToShade, FromRoots
<1>8. \A n \in start : fields[n] \notin doomed
  BY <1>5, <1>7
<1>9. found \cap doomed = {}
  <2>1. HasChildren(white \ doomed, white)
    BY <1>5 DEF HasChildren
  <2>2. {fields[n] : n \in start} \cap white \subseteq white \ doomed
    BY <1>8
  <2>3. found \subseteq white \ doomed
    <3> HIDE DEF start, white
    <3>1. white \ doomed \in SUBSET white
      OBVIOUS
    <3> QED
      BY <2>1, <2>2, <3>1, ReachLeast
  <2> QED
    BY <2>3
<1>10. Remarked \cap doomed = {} /\ Remarked \subseteq Object
  BY <1>1, <1>2, <1>6, <1>7, <1>9
<1>11. careful => \A n \in managed \ doomed : color'[n] # "White"
  <2> SUFFICES ASSUME careful, NEW n \in managed \ doomed
               PROVE  n \in Remarked \/ color[n] = "Black"
    BY <1>1, <1>2
  <2> DEFINE C == Remarked \cap managed
  <2>1. Sources \subseteq C
    BY <1>1, <1>3 DEF Sources
  <2>2. Closed(C)
    <3> SUFFICES ASSUME NEW c \in C, fields[c] \in managed, color[fields[c]] = "White"
                 PROVE  fields[c] \in C
      BY DEF Closed
    <3>1. fields[c] \in white
      OBVIOUS
    <3>2. CASE c \in start
      BY <1>1, <1>6, <3>1, <3>2
    <3>3. CASE c \in found
      BY <1>1, <1>6, <3>1, <3>3 DEF HasChildren
    <3> QED
      BY <1>1, <3>2, <3>3
  <2>3. C \in SUBSET managed
    OBVIOUS
  <2> HIDE DEF C
  <2>4. color[n] = "Black" \/ n \in C
    BY <2>1, <2>2, <2>3 DEF ColorInv, Protected
  <2> QED
    BY <2>4 DEF C
<1> HIDE DEF start, white, found
<1>12. Protected' /\ GrayIsQueued'
  BY <1>1 DEF ColorInv, Protected, GrayIsQueued
<1>13. GarbageIsWhite'
  <2>1. \A n \in doomed : color'[n] = "White"
    BY <1>1, <1>2, <1>5, <1>10
  <2> QED
    BY <1>1, <1>3, <1>5, <2>1 DEF GarbageIsWhite
<1>14. GarbageGoes' /\ SweepIsRight'
  BY <1>1, <1>11 DEF GarbageGoes, SweepIsRight
<1>15. NoStale' /\ NoDanglers'
  BY <1>1, <1>2, <1>4 DEF ColorInv, NoStale, NoDanglers
<1> QED
  BY <1>12, <1>13, <1>14, <1>15 DEF ColorInv

LEMMA ReconcileColors ==
  ASSUME TypeOK, ThreadInv, ColorInv, Reconcile, phase = "ConcurrentSweep", cpc = "recv", Nobody,
         UNCHANGED <<gcThreads, shades, careful>>
  PROVE  ColorInv'
<1> USE DEF gcThreads
<1>1. /\ old' = old \ dead /\ dirty' = dirty \cap old' /\ dead' = {} /\ managed' = {} /\ doomed' = {}
      /\ phase' = "Idle" /\ UNCHANGED <<young, fields, roots, gray>>
  BY DEF Reconcile
<1>2. doomed \subseteq dead
  BY DEF ColorInv, GarbageGoes
<1>3. Live' = Live /\ Kept = Live /\ Kept' = Live
  BY <1>1, <1>2 DEF Live, Kept
<1>4. Protected' /\ GrayIsQueued' /\ GarbageIsWhite' /\ GarbageGoes' /\ SweepIsRight'
  BY <1>1 DEF Protected, GrayIsQueued, GarbageIsWhite, GarbageGoes, SweepIsRight
<1>5. NoStale'
  BY <1>1, <1>3 DEF ColorInv, NoStale
<1>6. NoDanglers'
  <2> SUFFICES ASSUME careful
               PROVE  /\ \A x \in Root : roots[x] \in Live \cup {NoRef}
                      /\ \A n \in Live : fields[n] \in Live \cup {NoRef} /\ fields[n] # Gone
                      /\ \A n \in old \ dead : fields[n] \in young => n \in dirty \cap old'
    BY <1>1, <1>3 DEF NoDanglers
  <2>1. Gone \notin Live \cup {NoRef}
    BY MarkAssumption DEF Live, TypeOK
  <2> QED
    BY <1>1, <1>3, <2>1 DEF ColorInv, NoDanglers
<1> QED
  BY <1>4, <1>5, <1>6 DEF ColorInv

LEMMA SafepointColors ==
  ASSUME TypeOK, ThreadInv, ColorInv, Safepoint
  PROVE  ColorInv'
<1> USE DEF heap, colors, safepoint, cycle, gcThreads, mutator, history
<1>1. CASE Park
  <2>1. UNCHANGED <<heap, colors, cycle, gcThreads, shades, history>>
    BY <1>1 DEF Park
  <2>2. GarbageGoes' /\ Carried' = Carried
    BY <2>1 DEF ColorInv, GarbageGoes, Carried
  <2> QED
    BY <2>1, <2>2, ColorSame
<1>2. CASE Wake
  <2>1. mpc = "parked" /\ ~requested /\ UNCHANGED <<gcThreads, shades, careful>>
    BY <1>2 DEF Wake
  <2>2. parked = TRUE /\ ~Quiet /\ shades = <<>>
    BY <2>1 DEF ThreadInv, MutatorInv, Quiet, TypeOK
  <2>3. \/ phase = "ConcurrentMark" /\ cpc = "spin" /\ Nobody /\ closure = TRUE
        \/ phase = "ConcurrentSweep" /\ cpc = "recv" /\ Nobody /\ closure = FALSE /\ reconcile = TRUE
    BY <2>1, <2>2 DEF ThreadInv, IdleInv, MarkInv, SweepInv, TypeOK, Phases
  <2>4. CASE phase = "ConcurrentMark"
    <3>1. FinishMark
      BY <1>2, <2>3, <2>4 DEF Wake
    <3> QED
      BY <2>1, <2>2, <2>3, <2>4, <3>1, FinishColors
  <2>5. CASE phase = "ConcurrentSweep"
    <3>1. Reconcile
      BY <1>2, <2>3, <2>5 DEF Wake
    <3> QED
      BY <2>1, <2>3, <2>5, <3>1, ReconcileColors
  <2> QED
    BY <2>3, <2>4, <2>5
<1> QED
  BY <1>1, <1>2 DEF Safepoint

LEMMA ShadeTestColors ==
  ASSUME TypeOK, ThreadInv, ColorInv, ShadeTest
  PROVE  ColorInv'
<1> USE DEF heap, colors, safepoint, cycle, gcThreads, mutator, history
<1>1. /\ phase = "ConcurrentMark" /\ shades # <<>> /\ shades \in Seq(Object)
      /\ UNCHANGED <<heap, colors, safepoint, cycle, gcThreads, goal, history>>
      /\ \/ shades' = shades
         \/ color[Head(shades)] # "White" /\ shades' = Tail(shades)
  <2>1. mpc = "test"
    BY DEF ShadeTest
  <2>2. phase = "ConcurrentMark" /\ shades # <<>> /\ shades \in Seq(Object)
    BY <2>1 DEF ThreadInv, MutatorInv
  <2>3. \/ shades' = shades
        \/ color[Head(shades)] # "White" /\ shades' = Tail(shades)
    BY DEF ShadeTest
  <2> QED
    BY <2>2, <2>3 DEF ShadeTest
<1>2. Carried' = Carried
  BY <1>1 DEF Carried
<1>3. ToSet(shades') \subseteq ToSet(shades)
      /\ \A n \in ToSet(shades) : n \notin ToSet(shades') => color[n] # "White" /\ n \in Object
  <2>1. Head(shades) \in Object /\ ToSet(shades) = {Head(shades)} \cup ToSet(Tail(shades))
    BY <1>1, TailToSet
  <2>2. CASE shades' = shades
    BY <2>2
  <2>3. CASE color[Head(shades)] # "White" /\ shades' = Tail(shades)
    BY <2>1, <2>3
  <2> QED
    BY <1>1, <2>2, <2>3
<1>4. Sources' = Sources
  <2>1. \A n \in managed : color[n] = "Gray" => n \in ToSet(gray) \cup Carried
    BY <1>1 DEF ColorInv, GrayIsQueued
  <2>2. \A n \in managed : n \in ToSet(shades) /\ n \notin ToSet(shades')
                             => color[n] = "Black" \/ n \in ToSet(gray) \cup Carried
    BY <1>3, <2>1 DEF TypeOK
  <2> QED
    BY <1>1, <1>2, <1>3, <2>2 DEF Sources
<1>5. Protected' /\ GrayIsQueued'
  BY <1>1, <1>2, <1>4 DEF ColorInv, Protected, Closed, GrayIsQueued
<1>6. GarbageIsWhite'
  BY <1>1, <1>2, <1>3 DEF ColorInv, GarbageIsWhite
<1>7. GarbageGoes' /\ SweepIsRight' /\ NoStale' /\ NoDanglers'
  BY <1>1 DEF ColorInv, GarbageGoes, SweepIsRight, NoStale, NoDanglers, Kept, Live
<1> QED
  BY <1>5, <1>6, <1>7 DEF ColorInv

LEMMA ShadePaintColors ==
  ASSUME TypeOK, ThreadInv, ColorInv, ShadePaint
  PROVE  ColorInv'
<1> USE DEF heap, colors, safepoint, cycle, gcThreads, mutator, history
<1> DEFINE h == Head(shades)
<1>1. /\ phase = "ConcurrentMark" /\ shades # <<>> /\ shades \in Seq(Object) /\ gray \in Seq(Object)
      /\ UNCHANGED <<heap, safepoint, cycle, gcThreads, goal, history>>
      /\ color' = [color EXCEPT ![h] = "Gray"] /\ gray' = Append(gray, h) /\ shades' = Tail(shades)
  BY DEF ShadePaint, ThreadInv, MutatorInv, TypeOK
<1>2. h \in Object /\ ToSet(shades) = {h} \cup ToSet(shades') /\ h \in ToSet(shades)
  BY <1>1, TailToSet
<1> HIDE DEF h
<1>3. ToSet(gray') = ToSet(gray) \cup {h}
  BY <1>1, <1>2, AppendToSet
<1>4. color'[h] = "Gray" /\ \A n \in Object : n # h => color'[n] = color[n]
  BY <1>1, <1>2 DEF TypeOK
<1>5. Carried' = Carried /\ managed \subseteq Object /\ doomed \subseteq managed /\ dead = {}
  BY <1>1 DEF Carried, TypeOK, ThreadInv, BoxInv
<1>6. h \notin doomed
  BY <1>2 DEF ColorInv, GarbageIsWhite
<1>7. Sources' = Sources \cup ({h} \cap managed)
  BY <1>1, <1>2, <1>3, <1>4, <1>5 DEF Sources
<1>8. Protected'
  <2> SUFFICES ASSUME careful, NEW C \in SUBSET managed, Sources' \subseteq C, Closed(C)',
                      NEW n \in managed \ doomed
               PROVE  color'[n] = "Black" \/ n \in C
    BY <1>1 DEF Protected
  <2>1. Closed(C)
    <3> SUFFICES ASSUME NEW c \in C, fields[c] \in managed, color[fields[c]] = "White"
                 PROVE  fields[c] \in C
      BY DEF Closed
    <3>1. CASE fields[c] = h
      BY <1>7, <3>1
    <3>2. CASE fields[c] # h
      BY <1>1, <1>4, <1>5, <3>2 DEF Closed
    <3> QED
      BY <3>1, <3>2
  <2>2. color[n] = "Black" \/ n \in C
    BY <1>1, <1>7, <2>1 DEF ColorInv, Protected
  <2>3. n = h => n \in C
    BY <1>7
  <2> QED
    BY <1>4, <1>5, <2>2, <2>3
<1>9. GrayIsQueued'
  BY <1>1, <1>3, <1>4, <1>5 DEF ColorInv, GrayIsQueued
<1>10. GarbageIsWhite'
  <2>1. \A n \in doomed : color'[n] = "White"
    BY <1>4, <1>5, <1>6 DEF ColorInv, GarbageIsWhite
  <2> QED
    BY <1>1, <1>2, <1>3, <1>5, <1>6, <2>1 DEF ColorInv, GarbageIsWhite
<1>11. GarbageGoes' /\ SweepIsRight' /\ NoStale' /\ NoDanglers'
  BY <1>1 DEF ColorInv, GarbageGoes, SweepIsRight, NoStale, NoDanglers, Kept, Live
<1> QED
  BY <1>8, <1>9, <1>10, <1>11 DEF ColorInv

LEMMA OwedColors ==
  ASSUME TypeOK, ThreadInv, ColorInv, Owed
  PROVE  ColorInv'
<1> USE DEF heap, colors, safepoint, cycle, gcThreads, mutator, history
<1>1. CASE FullMinor
  <2>1. MinorGc /\ phase = "Idle" /\ UNCHANGED <<gray, safepoint, cycle, gcThreads, mpc, shades, history>>
    BY <1>1 DEF FullMinor, Free
  <2> QED
    BY <2>1, MinorColors
<1>2. CASE FullMajor
  <2>1. MajorGc /\ phase = "Idle" /\ UNCHANGED <<colors, safepoint, cycle, gcThreads, mpc, shades, doomed>>
    BY <1>2 DEF FullMajor, Free
  <2> QED
    BY <2>1, MajorColors
<1>3. CASE ShutDown \/ Joined
  <2>1. UNCHANGED <<heap, colors, phase, managed, dead, gcThreads, shades, history>>
    BY <1>3 DEF ShutDown, Joined
  <2>2. GarbageGoes' /\ Carried' = Carried
    BY <2>1 DEF ColorInv, GarbageGoes, Carried
  <2> QED
    BY <2>1, <2>2, ColorSame
<1> QED
  BY <1>1, <1>2, <1>3, ShadeTestColors, ShadePaintColors DEF Owed

LEMMA PopColors ==
  ASSUME TypeOK, ThreadInv, ColorInv, NEW m \in Marker, Pop(m), phase = "ConcurrentMark"
  PROVE  ColorInv'
<1> USE DEF heap, colors, safepoint, cycle, gcThreads, mutator, history
<1> DEFINE l == Last(gray)
<1>1. /\ mark[m] = "pop" /\ gray # <<>> /\ gray' = Front(gray) /\ gray \in Seq(Object)
      /\ UNCHANGED <<heap, color, safepoint, cycle, cpc, todo, active, mutator, history>>
      /\ \/ l \notin managed /\ UNCHANGED <<held, mark>>
         \/ /\ l \in managed /\ held' = [held EXCEPT ![m] = l]
            /\ mark' = [mark EXCEPT ![m] = IF m = Coordinator THEN "trace" ELSE "enter"]
  BY DEF Pop, TypeOK
<1>2. l \in Object /\ ToSet(gray) = {l} \cup ToSet(gray')
  BY <1>1, FrontToSet
<1> HIDE DEF l
<1>3. Carried' = Carried \cup ({l} \cap managed)
  <2>1. mark \in [Marker -> {"done", "pop", "enter", "trace"}] /\ held \in [Marker -> Object \cup {NoRef}]
    BY DEF TypeOK
  <2>2. CASE l \notin managed
    BY <1>1, <2>2 DEF Carried
  <2>3. CASE l \in managed
    <3>1. /\ held'[m] = l /\ mark'[m] \in {"enter", "trace"} /\ mark[m] = "pop"
          /\ \A k \in Marker : k # m => held'[k] = held[k] /\ mark'[k] = mark[k]
      BY <1>1, <2>1, <2>3
    <3> QED
      BY <2>3, <3>1 DEF Carried
  <2> QED
    BY <2>2, <2>3
<1>4. Sources' = Sources
  BY <1>1, <1>2, <1>3 DEF Sources
<1>5. Protected' /\ GrayIsQueued'
  BY <1>1, <1>2, <1>3, <1>4 DEF ColorInv, Protected, Closed, GrayIsQueued
<1>6. GarbageIsWhite'
  BY <1>1, <1>2, <1>3 DEF ColorInv, GarbageIsWhite
<1>7. GarbageGoes' /\ SweepIsRight' /\ NoStale' /\ NoDanglers'
  BY <1>1 DEF ColorInv, GarbageGoes, SweepIsRight, NoStale, NoDanglers, Kept, Live
<1> QED
  BY <1>5, <1>6, <1>7 DEF ColorInv

\* The heart of it: what a marker has in hand turns black, and its child takes
\* its place among the sources.
LEMMA TraceColors ==
  ASSUME TypeOK, ThreadInv, ColorInv, NEW m \in Marker, Trace(m), phase = "ConcurrentMark"
  PROVE  ColorInv'
<1> USE DEF heap, colors, safepoint, cycle, gcThreads, mutator, history
<1> DEFINE h == held[m]
           child == fields[h]
           shade == child \in managed /\ color[child] = "White"
<1>1. /\ mark[m] = "trace" /\ h \in managed /\ h \in Carried
      /\ color' = [n \in Object |-> IF n = h THEN "Black" ELSE IF shade /\ n = child THEN "Gray" ELSE color[n]]
      /\ gray' = IF shade THEN Append(gray, child) ELSE gray
      /\ mark' = [mark EXCEPT ![m] = "pop"] /\ held' = [held EXCEPT ![m] = NoRef]
      /\ UNCHANGED <<heap, safepoint, cycle, cpc, todo, mutator, history>>
  BY DEF Trace, ThreadInv, MarkerInv, Carried
<1>2. /\ managed \subseteq Object /\ doomed \subseteq managed /\ dead = {} /\ gray \in Seq(Object)
  BY <1>1 DEF TypeOK, ThreadInv, BoxInv
<1> HIDE DEF h, child
<1>3. child = fields[h]
  BY DEF child
<1>4. ToSet(gray') = ToSet(gray) \cup (IF shade THEN {child} ELSE {})
  BY <1>1, <1>2, AppendToSet
<1>5. /\ Carried' \subseteq Carried /\ Carried \subseteq Carried' \cup {h}
  <2>1. mark \in [Marker -> {"done", "pop", "enter", "trace"}] /\ held \in [Marker -> Object \cup {NoRef}]
    BY DEF TypeOK
  <2>2. /\ mark'[m] = "pop" /\ h = held[m]
        /\ \A k \in Marker : k # m => held'[k] = held[k] /\ mark'[k] = mark[k]
    BY <1>1, <2>1 DEF h
  <2> QED
    BY <2>2 DEF Carried
<1>6. h \notin doomed /\ child \notin doomed
  <2>1. h \notin doomed
    BY <1>1 DEF ColorInv, GarbageIsWhite
  <2> QED
    BY <1>1, <1>2, <1>3, <2>1 DEF ColorInv, GarbageIsWhite
<1>7. /\ color'[h] = "Black"
      /\ shade /\ child # h => color'[child] = "Gray"
      /\ \A n \in managed : n # h /\ ~(shade /\ n = child) => color'[n] = color[n]
  BY <1>1, <1>2
<1>8. Protected'
  <2> SUFFICES ASSUME careful, NEW C \in SUBSET managed, Sources' \subseteq C, Closed(C)',
                      NEW n \in managed \ doomed
               PROVE  color'[n] = "Black" \/ n \in C
    BY <1>1 DEF Protected
  <2> DEFINE D == C \cup {h}
  <2>1. Sources \subseteq D
    <3> SUFFICES ASSUME NEW s \in Sources, s # h
                 PROVE  s \in C
      OBVIOUS
    <3>1. s \in managed /\ color[s] # "Black" /\ s \in ToSet(gray') \cup ToSet(shades') \cup Carried'
      BY <1>1, <1>4, <1>5 DEF Sources
    <3>2. color'[s] # "Black"
      BY <1>7, <3>1
    <3> QED
      BY <1>1, <3>1, <3>2 DEF Sources
  <2>2. Closed(D)
    <3> SUFFICES ASSUME NEW c \in D, fields[c] \in managed, color[fields[c]] = "White", fields[c] # h
                 PROVE  fields[c] \in C
      BY DEF Closed
    <3>1. CASE fields[c] = child
      <4>1. child \in ToSet(gray') /\ color'[child] = "Gray" /\ child \in managed
        BY <1>4, <1>7, <3>1
      <4> QED
        BY <1>1, <3>1, <4>1 DEF Sources
    <3>2. CASE fields[c] # child
      <4>1. c \in C
        BY <1>3, <3>2
      <4>2. color'[fields[c]] = "White"
        BY <1>7, <3>2
      <4> QED
        BY <1>1, <4>1, <4>2 DEF Closed
    <3> QED
      BY <3>1, <3>2
  <2>3. D \in SUBSET managed
    BY <1>1
  <2> HIDE DEF D
  <2>4. color[n] = "Black" \/ n \in D
    BY <1>1, <2>1, <2>2, <2>3 DEF ColorInv, Protected
  <2>5. color[n] = "Black" => color'[n] = "Black"
    BY <1>7
  <2> QED
    BY <1>7, <2>4, <2>5 DEF D
<1>9. GrayIsQueued'
  <2> SUFFICES ASSUME NEW n \in managed, color'[n] = "Gray"
               PROVE  n \in ToSet(gray') \cup Carried'
    BY <1>1 DEF GrayIsQueued
  <2>1. n # h
    BY <1>7
  <2>2. CASE shade /\ n = child
    BY <1>4, <2>2
  <2>3. CASE ~(shade /\ n = child)
    <3>1. color[n] = "Gray"
      BY <1>7, <2>1, <2>3
    <3> QED
      BY <1>4, <1>5, <2>1, <3>1 DEF ColorInv, GrayIsQueued
  <2> QED
    BY <2>2, <2>3
<1>10. GarbageIsWhite'
  <2>1. \A n \in doomed : color'[n] = "White"
    BY <1>2, <1>6, <1>7 DEF ColorInv, GarbageIsWhite
  <2>2. doomed \cap (ToSet(gray') \cup ToSet(shades') \cup Carried') = {}
    BY <1>1, <1>4, <1>5, <1>6 DEF ColorInv, GarbageIsWhite
  <2> QED
    BY <1>1, <1>2, <2>1, <2>2 DEF ColorInv, GarbageIsWhite
<1>11. GarbageGoes' /\ SweepIsRight' /\ NoStale' /\ NoDanglers'
  BY <1>1 DEF ColorInv, GarbageGoes, SweepIsRight, NoStale, NoDanglers, Kept, Live
<1> QED
  BY <1>8, <1>9, <1>10, <1>11 DEF ColorInv

LEMMA MarkingColors ==
  ASSUME TypeOK, ThreadInv, ColorInv, NEW m \in Marker, Marking(m)
  PROVE  ColorInv'
<1> USE MarkTypes DEF heap, colors, safepoint, cycle, gcThreads, mutator, history
<1>1. mark[m] # "done"
  BY DEF Marking, Pop, Enter, Trace, Quit
<1>2. phase = "ConcurrentMark"
  BY <1>1 DEF ThreadInv, IdleInv, SweepInv, Nobody, TypeOK, Phases
<1>3. CASE Enter(m) \/ Quit(m)
  <2>1. /\ UNCHANGED <<heap, colors, cycle, held, cpc, todo, shades, history>>
        /\ mark'[m] \in {"enter", "trace"} <=> mark[m] \in {"enter", "trace"}
        /\ \A k \in Marker : k # m => mark'[k] = mark[k]
    BY <1>3 DEF Enter, Quit
  <2>2. \A k \in Marker : mark'[k] \in {"enter", "trace"} <=> mark[k] \in {"enter", "trace"}
    BY <2>1
  <2>3. Carried' = Carried
    BY <2>1, <2>2 DEF Carried
  <2>4. GarbageGoes'
    BY <2>1 DEF ColorInv, GarbageGoes
  <2> QED
    BY <2>1, <2>3, <2>4, ColorSame
<1> QED
  BY <1>2, <1>3, PopColors, TraceColors DEF Marking

LEMMA SweepColors ==
  ASSUME TypeOK, ThreadInv, ColorInv, NEW n \in Object, Sweep(n)
  PROVE  ColorInv'
<1> USE DEF heap, colors, safepoint, cycle, gcThreads, mutator, history
<1>1. /\ UNCHANGED <<young, old, colors, safepoint, phase, managed, trigger,
                     cpc, mark, held, active, mutator, history>>
      /\ todo' = todo \ {n} /\ n \in todo /\ cpc = "sweep"
  BY SweepFacts
<1>2. /\ phase = "ConcurrentSweep" /\ n \in managed \ dead /\ managed \subseteq old
      /\ doomed \subseteq managed /\ young \cap (old \ dead) = {} /\ managed \subseteq Object
      /\ young \subseteq Object /\ old \subseteq Object
  BY <1>1 DEF ThreadInv, IdleInv, MarkInv, SweepInv, BoxInv, TypeOK, Phases
<1>3. Carried' = Carried
  BY <1>1 DEF Carried
<1>4. CASE color[n] # "White"
  <2>1. UNCHANGED <<dead, fields, roots, dirty>>
    BY <1>4, SweepFacts
  <2>2. n \notin doomed \ dead
    BY <1>4 DEF ColorInv, GarbageIsWhite
  <2>3. GarbageGoes'
    BY <1>1, <1>2, <2>1, <2>2 DEF ColorInv, GarbageGoes
  <2> QED
    BY <1>1, <1>3, <2>1, <2>3, ColorSame
<1>5. CASE color[n] = "White"
  <2>1. /\ dead' = dead \cup {n}
        /\ \A m \in Object : fields'[m] = IF m = n THEN NoRef ELSE IF fields[m] = n THEN Gone ELSE fields[m]
        /\ \A x \in Root : roots'[x] = IF roots[x] = n THEN Gone ELSE roots[x]
        /\ \A d \in dirty : d # n => d \in dirty'
    BY <1>5, SweepFacts
  <2>2. Protected' /\ GrayIsQueued'
    BY <1>1, <1>2 DEF Protected, GrayIsQueued
  <2>3. NoRef \notin Object /\ Gone \notin Object /\ NoRef # Gone
    BY MarkAssumption
  <2>4. GarbageIsWhite'
    <3>1. \A m \in doomed \ dead' : color'[m] = "White"
      BY <1>1, <2>1 DEF ColorInv, GarbageIsWhite
    <3>2. \A m \in managed \ doomed : fields'[m] \notin doomed \ dead'
      BY <1>2, <2>1, <2>3 DEF ColorInv, GarbageIsWhite
    <3>3. \A x \in Root : roots'[x] \notin doomed \ dead'
      BY <1>2, <2>1, <2>3 DEF ColorInv, GarbageIsWhite
    <3> QED
      BY <1>1, <1>3, <3>1, <3>2, <3>3 DEF ColorInv, GarbageIsWhite
  <2>5. GarbageGoes'
    BY <1>1, <1>2, <2>1 DEF ColorInv, GarbageGoes
  <2>6. SweepIsRight'
    BY <1>1, <1>2, <1>5, <2>1 DEF ColorInv, SweepIsRight
  <2>7. Live' = Live \ {n}
    BY <1>1, <1>2, <2>1 DEF Live
  <2>8. NoStale'
    <3>1. \A x \in Root : roots'[x] \in Live' \cup {NoRef, Gone}
      BY <2>1, <2>7 DEF ColorInv, NoStale
    <3>2. \A m \in Object : fields'[m] \in Live' \cup {NoRef, Gone}
      BY <2>1, <2>7 DEF ColorInv, NoStale
    <3> QED
      BY <3>1, <3>2 DEF NoStale
  <2>9. NoDanglers'
    <3> SUFFICES ASSUME careful
                 PROVE  NoDanglers'
      BY <1>1 DEF NoDanglers
    <3>1. n \in doomed \ dead
      BY <1>2, <1>5 DEF ColorInv, SweepIsRight
    <3>2. Kept' = Kept /\ n \notin Kept /\ Kept \subseteq Object
      BY <1>1, <1>2, <2>1, <2>7, <3>1 DEF Kept, Live
    <3>3. /\ \A x \in Root : roots[x] \in Kept \cup {NoRef}
          /\ \A m \in Kept : fields[m] \in Kept \cup {NoRef}
          /\ \A m \in old \ dead : fields[m] \in young => m \in dirty
      BY DEF ColorInv, NoDanglers
    <3>4. /\ \A x \in Root : roots'[x] \in Kept \cup {NoRef}
          /\ \A m \in Kept : fields'[m] \in Kept \cup {NoRef}
      BY <1>2, <2>1, <2>3, <3>2, <3>3
    <3>5. \A m \in old \ dead' : fields'[m] \in young => m \in dirty'
      BY <1>2, <2>1, <2>3, <3>3
    <3> QED
      BY <1>1, <1>2, <3>2, <3>4, <3>5 DEF NoDanglers
    <2> QED
    BY <2>2, <2>4, <2>5, <2>6, <2>8, <2>9 DEF ColorInv
<1> QED
  BY <1>4, <1>5

LEMMA CoordinatingColors ==
  ASSUME TypeOK, ThreadInv, ColorInv, Coordinating
  PROVE  ColorInv'
<1> USE MarkTypes DEF heap, colors, safepoint, cycle, gcThreads, mutator, history
<1>1. ASSUME ~\E n \in Object : Sweep(n)
      PROVE  ColorInv'
  <2>1. /\ UNCHANGED <<heap, colors, phase, managed, dead, shades, held, history>>
    BY <1>1 DEF Coordinating, Receive, Join, AskToTerminate, Ask, Release1, BeginSweep,
                AskToReconcile, Release2
  <2>2. Carried' = Carried
    <3>1. CASE Receive /\ mark' # mark
      <4>1. /\ phase = "ConcurrentMark" /\ cpc = "recv"
            /\ mark' = [m \in Marker |-> IF m \in Worker THEN "pop" ELSE "done"]
        BY <3>1 DEF Receive
      <4>2. Nobody
        BY <4>1 DEF ThreadInv, MarkInv
      <4> QED
        BY <4>1, <4>2 DEF Carried, Nobody
    <3>2. CASE Join
      <4>1. cpc = "mark" /\ mark' = [mark EXCEPT ![Coordinator] = "pop"]
        BY <3>2 DEF Join
      <4>2. mark[Coordinator] = "done"
        BY <4>1 DEF ThreadInv, IdleInv, MarkInv, SweepInv, TypeOK, Phases
      <4>3. \A m \in Marker : mark'[m] \in {"enter", "trace"} <=> mark[m] \in {"enter", "trace"}
        BY <4>1, <4>2
      <4> QED
        BY <2>1, <4>3 DEF Carried
    <3>3. CASE AskToTerminate
      <4>1. mark[Coordinator] = "pop" /\ mark' = [mark EXCEPT ![Coordinator] = "done"]
        BY <3>3 DEF AskToTerminate
      <4>2. \A m \in Marker : mark'[m] \in {"enter", "trace"} <=> mark[m] \in {"enter", "trace"}
        BY <4>1
      <4> QED
        BY <2>1, <4>2 DEF Carried
    <3>4. CASE mark' = mark
      BY <2>1, <3>4 DEF Carried
    <3> QED
      BY <1>1, <3>1, <3>2, <3>3, <3>4 DEF Coordinating, Release1, BeginSweep, AskToReconcile, Release2
  <2>3. GarbageGoes'
    <3>1. CASE phase # "ConcurrentSweep"
      BY <2>1, <3>1 DEF GarbageGoes
    <3>2. CASE phase = "ConcurrentSweep" /\ BeginSweep
      BY <2>1, <3>2 DEF BeginSweep, GarbageGoes, ThreadInv, BoxInv
    <3>3. CASE phase = "ConcurrentSweep" /\ AskToReconcile
      BY <2>1, <3>3 DEF AskToReconcile, Ask, GarbageGoes, ColorInv
    <3>4. CASE phase = "ConcurrentSweep" /\ Release2
      BY <2>1, <3>4 DEF Release2, GarbageGoes, ColorInv
    <3>5. CASE phase = "ConcurrentSweep" /\ (Receive \/ Join \/ AskToTerminate \/ Release1)
      BY <2>1, <3>5 DEF Receive, Join, AskToTerminate, Ask, Release1, ThreadInv, SweepInv, GarbageGoes
    <3> QED
      BY <1>1, <3>1, <3>2, <3>3, <3>4, <3>5 DEF Coordinating
  <2> QED
    BY <2>1, <2>2, <2>3, ColorSame
<1> QED
  BY <1>1, SweepColors

LEMMA ColorStep ==
  ASSUME TypeOK, ThreadInv, ColorInv, [Next]_vars
  PROVE  ColorInv'
<1>1. CASE UNCHANGED vars
  <2>1. Carried' = Carried /\ GarbageGoes'
    BY <1>1 DEF vars, gcThreads, cycle, history, Carried, ColorInv, GarbageGoes
  <2> QED
    BY <1>1, <2>1, ColorSame DEF vars, cycle, mutator
<1> QED
  BY <1>1, ProgramColors, SafepointColors, OwedColors, MarkingColors, CoordinatingColors DEF Next

LEMMA InvAlways == Spec => []Inv
<1>1. Init => Inv
  BY InitInv, InitColors DEF Inv
<1>2. Inv /\ [Next]_vars => Inv'
  BY TypeStep, ThreadStep, ColorStep DEF Inv
<1> QED
  BY <1>1, <1>2, PTL DEF Spec

-----------------------------------------------------------------------------
(* What the program may rely on.                                           *)

\* No root and nothing that will be kept refers to a box the coordinator has
\* freed or is going to free, for any number of workers, objects and roots and
\* however workers, coordinator and mutator interleave: the deletion barrier,
\* the markers' early leave and the last rescan miss nothing between them.
THEOREM NothingEverDangles == Spec => []NothingDangles
<1>1. Inv => NothingDangles
  <2> SUFFICES ASSUME TypeOK, ThreadInv, ColorInv, careful
               PROVE  /\ \A x \in Root : roots[x] \notin Condemned \cup {Gone}
                      /\ \A n \in Live \ Condemned : fields[n] \notin Condemned \cup {Gone}
    BY DEF Inv, NothingDangles
  <2>1. /\ \A x \in Root : roots[x] \in Kept \cup {NoRef}
        /\ \A n \in Kept : fields[n] \in Kept \cup {NoRef}
        /\ phase # "ConcurrentSweep" => \A n \in Live : fields[n] # Gone
    BY DEF ColorInv, NoDanglers
  <2>2. /\ Kept \cap (doomed \ dead) = {} /\ Kept \subseteq Object
        /\ NoRef \notin Object /\ Gone \notin Object /\ NoRef # Gone
    BY RootsAreKept
  <2>3. Condemned \subseteq doomed \ dead /\ Condemned \subseteq Object
    BY DEF Condemned, ColorInv, SweepIsRight, TypeOK
  <2>4. \A x \in Root : roots[x] \notin Condemned \cup {Gone}
    BY <2>1, <2>2, <2>3
  <2>5. CASE phase = "ConcurrentSweep"
    <3>1. doomed \ dead \subseteq Condemned
      BY <2>5 DEF Condemned, ColorInv, GarbageIsWhite, ThreadInv, BoxInv
    <3>2. Live \ Condemned \subseteq Kept
      BY <3>1 DEF Kept
    <3> QED
      BY <2>1, <2>2, <2>3, <2>4, <3>2
  <2>6. CASE phase # "ConcurrentSweep"
    <3>1. Condemned = {}
      BY <2>6 DEF Condemned
    <3> QED
      BY <2>1, <2>4, <2>6, <3>1
  <2> QED
    BY <2>5, <2>6
<1> QED
  BY <1>1, InvAlways, PTL

\* When a cycle ends, what was garbage when it began has been freed: no object
\* that nothing led to floats into the next cycle.
THEOREM CycleFreesItsGarbage == Spec => CycleFreesGarbage
<1>1. Inv /\ [Next]_vars => [phase = "ConcurrentSweep" /\ phase' = "Idle" => doomed \cap old' = {}]_vars
  <2> SUFFICES ASSUME TypeOK, ThreadInv, ColorInv, Next, phase = "ConcurrentSweep", phase' = "Idle"
               PROVE  doomed \cap old' = {}
    BY DEF Inv
  <2> USE DEF heap, colors, safepoint, cycle, gcThreads, mutator, history
  <2>1. ~Program
    BY MarkAssumption DEF Program, Alloc, Load, Assign, Store, CollectMinor, CollectMajor, SwitchOn, Want
  <2>2. ~Park /\ ~Owed
    BY DEF Park, Owed, ShadeTest, ShadePaint, FullMinor, FullMajor, Free, ShutDown, Joined
  <2>3. ~Coordinating
    BY DEF Coordinating, Receive, Join, AskToTerminate, Ask, Release1, BeginSweep, Sweep,
           AskToReconcile, Release2
  <2>4. ASSUME NEW m \in Marker PROVE ~Marking(m)
    BY DEF Marking, Pop, Enter, Trace, Quit
  <2>5. Wake
    BY <2>1, <2>2, <2>3, <2>4 DEF Next, Safepoint
  <2>6. parked = TRUE /\ requested = FALSE /\ closure = FALSE
    BY <2>5 DEF Wake, ThreadInv, MutatorInv, SweepInv, TypeOK
  <2>7. cpc = "recv" /\ reconcile = TRUE
    BY <2>6 DEF ThreadInv, SweepInv, Quiet
  <2>8. Reconcile
    BY <2>5, <2>6, <2>7 DEF Wake
  <2> QED
    BY <2>7, <2>8 DEF Reconcile, ColorInv, GarbageGoes
<1> QED
  BY <1>1, InvAlways, PTL DEF Spec, CycleFreesGarbage
=============================================================================
