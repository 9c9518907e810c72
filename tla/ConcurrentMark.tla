--------------------------- MODULE ConcurrentMark ---------------------------
(***************************************************************************)
(* The concurrent major collection of src/vm/gc/major.rs: the program's    *)
(* thread (the mutator) starts a cycle, worker threads mark, a coordinator *)
(* thread sweeps, and the two meet twice at the safepoint of safepoint.rs. *)
(*                                                                         *)
(* Objects are those of GenerationalHeap without their flags (finalizer,   *)
(* pin) and sizes, with one reference each and a promotion age of 1: what  *)
(* survives a minor collection is old.  There are no large objects:        *)
(* nothing in the program calls alloc_los.                                 *)
(*                                                                         *)
(* An element of Object is an address: freed, it may be allocated again at *)
(* once.  References to a freed box are Gone.                              *)
(*                                                                         *)
(* Thresholds and the timer's interval are left open, so that a cycle the  *)
(* timer starts is one that maybe_gc starts; concurrent_enabled is         *)
(* cpc # "off".                                                            *)
(* The program is not followed into a use that the collectors do not       *)
(* survive (CarefulStart; GenerationalHeap has the others).                *)
(***************************************************************************)
EXTENDS Integers, FiniteSets, SequencesExt

CONSTANTS
    Object, Root,  \* addresses; value stack, globals, ... (scan_roots_gray)
    Worker,        \* gc_threads marker threads
    Coordinator,   \* the coordinator thread, a marker of its own at the end
    NoRef, Gone,
    MaxNew,        \* bound: young objects at one time and, during a cycle, objects
                   \* that it does not manage
    MinorAt        \* bound: the phases in which gc_minor_only is called; not
                   \* ConcurrentSweep, where the card table may lead into freed boxes

ASSUME MarkAssumption ==
    /\ IsFiniteSet(Object) /\ IsFiniteSet(Worker)
    /\ Worker # {} /\ Coordinator \notin Worker
    /\ NoRef \notin Object /\ Gone \notin Object /\ NoRef # Gone
    /\ MaxNew \in Nat
    /\ MinorAt \subseteq {"Idle", "ConcurrentMark"}

VARIABLES
    young, old,            \* MsHeap: young_objects, old_objects
    fields, roots, color,
    dirty,                 \* card_table.dirty
    phase, managed, gray,  \* GcRuntime: phase, gc_managed, gray_queue
    dead,                  \* sweep_dead_old
    requested, parked,     \* SafepointState
    closure, reconcile,    \* closure_pending, sweep_reconcile_pending
    trigger,               \* the messages to the coordinator
    cpc, todo,             \* the coordinator, and what it has still to look at
    mark, held, active,    \* the markers: where each is, and with which object
    mpc, shades, goal,     \* the mutator; what it has to shade; why it waits
    doomed, careful        \* history: see Begin and CarefulStart

heap == <<young, old, fields, roots, dirty>>
colors == <<color, gray>>
safepoint == <<requested, parked, closure, reconcile>>
cycle == <<phase, managed, dead, trigger>>
gcThreads == <<cpc, todo, mark, held, active>>
mutator == <<mpc, shades, goal>>
history == <<doomed, careful>>
vars == <<heap, colors, safepoint, cycle, gcThreads, mutator, history>>

Marker == Worker \cup {Coordinator}
Value == Object \cup {NoRef, Gone}
Phases == {"Idle", "ConcurrentMark", "ConcurrentSweep"}
Live == young \cup (old \ dead)

TypeOK ==
    /\ young \subseteq Object /\ old \subseteq Object /\ dead \subseteq old
    /\ fields \in [Object -> Value] /\ roots \in [Root -> Value]
    /\ color \in [Object -> {"White", "Gray", "Black"}]
    /\ dirty \subseteq Object \cup {Gone}
    /\ phase \in Phases
    /\ managed \subseteq Object /\ doomed \subseteq managed
    /\ gray \in Seq(Object)
    /\ {requested, parked, closure, reconcile, careful} \subseteq BOOLEAN
    /\ trigger \in Seq({"Major", "Shutdown"})
    /\ cpc \in {"off", "recv", "mark", "drain", "ask1", "spin", "sweep", "ask2"}
    /\ todo \subseteq Object
    /\ mark \in [Marker -> {"done", "pop", "enter", "trace"}]
    /\ held \in [Marker -> Object \cup {NoRef}]
    /\ active \in 0..Cardinality(Worker)
    /\ mpc \in {"run", "test", "paint", "parked", "join"}
    /\ shades \in Seq(Value)
    /\ goal \in {"none", "wait", "major"}

Init ==
    /\ young = {} /\ old = {} /\ dead = {}
    /\ fields = [n \in Object |-> NoRef] /\ roots = [x \in Root |-> NoRef]
    /\ color = [n \in Object |-> "White"]
    /\ dirty = {}
    /\ phase = "Idle" /\ managed = {} /\ gray = <<>>
    /\ requested = FALSE /\ parked = FALSE /\ closure = FALSE /\ reconcile = FALSE
    /\ trigger = <<>>
    /\ cpc = "off" /\ todo = {}
    /\ mark = [m \in Marker |-> "done"] /\ held = [m \in Marker |-> NoRef]
    /\ active = 0
    /\ mpc = "run" /\ shades = <<>> /\ goal = "none"
    /\ doomed = {} /\ careful = TRUE

(***************************************************************************)
(* The program, at any phase: no step of it waits for the collector.       *)
(***************************************************************************)
\* it is followed up to a careless start (CarefulStart)
Running == mpc = "run" /\ goal = "none" /\ careful
Known == {roots[x] : x \in Root} \cap Live
Writable == Known \cup {NoRef}

New == young \cup (IF phase = "Idle" THEN {} ELSE old \ managed)
AllocColor == IF phase = "Idle" THEN "White" ELSE "Black"

\* gc_alloc_*, with alloc_during_gc; the contents pass by the write barrier
Alloc(n, x) ==
    /\ Running
    /\ n \notin Live
    /\ Cardinality(New) < MaxNew
    /\ \E v \in Writable : fields' = [fields EXCEPT ![n] = v]
    /\ young' = young \cup {n}
    /\ roots' = [roots EXCEPT ![x] = n]
    /\ color' = [color EXCEPT ![n] = AllocColor]
    /\ UNCHANGED <<old, dirty, gray, safepoint, cycle, gcThreads, mutator, history>>

Assign(x) ==
    /\ Running
    /\ \E v \in Writable : roots' = [roots EXCEPT ![x] = v]
    /\ UNCHANGED <<young, old, fields, dirty, colors, safepoint, cycle, gcThreads, mutator, history>>

Load(x, n) ==
    /\ Running
    /\ n \in Known
    /\ fields[n] # Gone
    /\ roots' = [roots EXCEPT ![x] = fields[n]]
    /\ UNCHANGED <<young, old, fields, dirty, colors, safepoint, cycle, gcThreads, mutator, history>>

Box(v) == IF v \in Object THEN <<v>> ELSE <<>>

\* A field is written, then write_barrier_obj is called: a card for an old
\* object that gets a young one and, while marking, the old and the new value
\* are shaded.
\* mutant: the barrier marks the card and shades nothing
Shades_Nothing(was, now) == <<>>
Shades(was, now) == Box(was) \o Box(now)

Store(n) ==
    /\ Running
    /\ n \in Known
    /\ \E v \in Writable :
         /\ fields' = [fields EXCEPT ![n] = v]
         /\ dirty' = IF n \in old \ dead /\ v \in young THEN dirty \cup {n} ELSE dirty
         /\ shades' = IF phase = "ConcurrentMark" THEN Shades(fields[n], v) ELSE <<>>
         /\ mpc' = IF shades' = <<>> THEN "run" ELSE "test"
    /\ UNCHANGED <<young, old, roots, colors, safepoint, cycle, gcThreads, goal, history>>

\* shade_if_white: the test and the painting are two steps
ShadeTest ==
    /\ mpc = "test"
    /\ IF color[Head(shades)] = "White"
       THEN mpc' = "paint" /\ UNCHANGED shades
       ELSE shades' = Tail(shades) /\ mpc' = IF shades' = <<>> THEN "run" ELSE "test"
    /\ UNCHANGED <<heap, colors, safepoint, cycle, gcThreads, goal, history>>

ShadePaint ==
    /\ mpc = "paint"
    /\ color' = [color EXCEPT ![Head(shades)] = "Gray"]
    /\ gray' = Append(gray, Head(shades))
    /\ shades' = Tail(shades)
    /\ mpc' = IF shades' = <<>> THEN "run" ELSE "test"
    /\ UNCHANGED <<heap, safepoint, cycle, gcThreads, goal, history>>

(***************************************************************************)
(* The collections that stop the world: GenerationalHeap has them in full. *)
(***************************************************************************)
HasChildren(C, within) == \A m \in C : fields[m] \in within => fields[m] \in C
Reach(start, within) ==
    {n \in within : \A C \in SUBSET within : start \subseteq C /\ HasChildren(C, within) => n \in C}
FromRoots(within) == within \cap {roots[x] : x \in Root}

FromCards == young \cap {fields[d] : d \in dirty \cap Live}
Survivors == Reach(FromRoots(young) \cup FromCards, young)
Without(gone) == [v \in Value |-> IF v \in gone THEN Gone ELSE v]

\* minor_gc: whatever survives is old and White, managed or not
MinorGc ==
    LET left == Without(young \ Survivors)
    IN  /\ young' = {}
        /\ old' = old \cup Survivors
        /\ fields' = [n \in Object |-> IF n \in young \ Survivors THEN NoRef ELSE left[fields[n]]]
        /\ roots' = [x \in Root |-> left[roots[x]]]
        /\ color' = [n \in Object |-> IF n \in young THEN "White" ELSE color[n]]
        /\ dirty' = {}

\* major_gc: looks through old objects only, and leaves the cards alone
MajorGc ==
    LET swept == old \ Reach(FromRoots(old), old)
        left == Without(swept)
    IN  /\ old' = old \ swept
        /\ fields' = [n \in Object |-> IF n \in swept THEN NoRef ELSE left[fields[n]]]
        /\ roots' = [x \in Root |-> left[roots[x]]]
        /\ dirty' = {left[d] : d \in dirty}
        /\ careful' = (careful /\ young = {} /\ dirty = {})
        /\ UNCHANGED young

\* gc_minor_only, and the first half of maybe_gc
CollectMinor ==
    /\ Running
    /\ phase \in MinorAt
    /\ MinorGc
    /\ UNCHANGED <<gray, safepoint, phase, managed, dead, trigger, gcThreads, mutator, history>>

(***************************************************************************)
(* A cycle begins: init_concurrent_mark, on the mutator's thread.          *)
(*                                                                         *)
(* careful is lost when an old object may be reached through a young one,  *)
(* which neither kind of major collection looks through.  doomed are the   *)
(* managed objects that nothing leads to when the cycle begins.            *)
(***************************************************************************)
CarefulStart == \A n \in young : fields[n] \notin old

\* scan_roots_gray: what the cycle does not manage is passed over
RootsToShade(within) == {n \in FromRoots(within) : color[n] = "White"}

Begin ==
    /\ managed' = old
    /\ LET shaded == RootsToShade(old)
       IN  /\ \E q \in [1..Cardinality(shaded) -> shaded] : ToSet(q) = shaded /\ gray' = gray \o q
           /\ color' = [n \in Object |-> IF n \in shaded THEN "Gray" ELSE color[n]]
    /\ phase' = "ConcurrentMark"
    /\ trigger' = Append(trigger, "Major")
    /\ doomed' = old \ Reach(FromRoots(Live), Live)
    /\ careful' = (careful /\ CarefulStart)
    /\ UNCHANGED <<heap, dead>>

\* the second half of maybe_gc, at either of its thresholds
CollectMajor ==
    /\ Running
    /\ phase = "Idle"
    /\ IF cpc # "off"
       THEN Begin
       ELSE MajorGc /\ UNCHANGED <<colors, phase, managed, dead, trigger, doomed>>
    /\ UNCHANGED <<safepoint, gcThreads, mutator>>

(***************************************************************************)
(* The markers: worker_loop, and drain_gray when the workers have gone.    *)
(* With them, an object whose test of managed fails is dropped.            *)
(***************************************************************************)
Pop(m) ==
    /\ mark[m] = "pop"
    /\ gray # <<>>
    /\ gray' = Front(gray)
    /\ IF Last(gray) \in managed
       THEN /\ held' = [held EXCEPT ![m] = Last(gray)]
            /\ mark' = [mark EXCEPT ![m] = IF m = Coordinator THEN "trace" ELSE "enter"]
       ELSE UNCHANGED <<held, mark>>
    /\ UNCHANGED <<heap, color, safepoint, cycle, cpc, todo, active, mutator, history>>

Enter(m) ==
    /\ mark[m] = "enter"
    /\ active' = active + 1
    /\ mark' = [mark EXCEPT ![m] = "trace"]
    /\ UNCHANGED <<heap, colors, safepoint, cycle, cpc, todo, held, mutator, history>>

\* mutant: active is not decremented
Trace_StillActive(m) ==
    /\ mark[m] = "trace"
    /\ LET child == fields[held[m]]
           shade == child \in managed /\ color[child] = "White"
       IN  /\ color' = [n \in Object |-> IF n = held[m] THEN "Black"
                                         ELSE IF shade /\ n = child THEN "Gray" ELSE color[n]]
           /\ gray' = IF shade THEN Append(gray, child) ELSE gray
    /\ mark' = [mark EXCEPT ![m] = "pop"]
    /\ held' = [held EXCEPT ![m] = NoRef]
    /\ UNCHANGED <<heap, safepoint, cycle, cpc, todo, active, mutator, history>>

\* The children are shaded and the object is blackened.  The two are apart
\* in the code, but what can come between does not depend on their order.
Trace(m) ==
    /\ mark[m] = "trace"
    /\ LET child == fields[held[m]]
           shade == child \in managed /\ color[child] = "White"
       IN  /\ color' = [n \in Object |-> IF n = held[m] THEN "Black"
                                         ELSE IF shade /\ n = child THEN "Gray" ELSE color[n]]
           /\ gray' = IF shade THEN Append(gray, child) ELSE gray
    /\ active' = IF m = Coordinator THEN active ELSE active - 1
    /\ mark' = [mark EXCEPT ![m] = "pop"]
    /\ held' = [held EXCEPT ![m] = NoRef]
    /\ UNCHANGED <<heap, safepoint, cycle, cpc, todo, mutator, history>>

\* a worker that finds the queue empty leaves if it sees nobody at work:
\* one that has popped an object may not have said so yet
Quit(m) ==
    /\ m # Coordinator
    /\ mark[m] = "pop" /\ gray = <<>> /\ active = 0
    /\ mark' = [mark EXCEPT ![m] = "done"]
    /\ UNCHANGED <<heap, colors, safepoint, cycle, cpc, todo, held, active, mutator, history>>

(***************************************************************************)
(* The coordinator: the loop of GcCoordinator::spawn and run_major_cycle.  *)
(***************************************************************************)
Receive ==
    /\ cpc = "recv" /\ trigger # <<>>
    /\ trigger' = Tail(trigger)
    /\ CASE Head(trigger) = "Shutdown" -> cpc' = "off" /\ UNCHANGED mark
         [] Head(trigger) = "Major" /\ phase = "ConcurrentMark" ->
              /\ cpc' = "mark"
              /\ mark' = [m \in Marker |-> IF m \in Worker THEN "pop" ELSE "done"]
         [] OTHER -> UNCHANGED <<cpc, mark>>
    /\ UNCHANGED <<heap, colors, safepoint, phase, managed, dead,
                   todo, held, active, mutator, history>>

Join ==
    /\ cpc = "mark"
    /\ \A w \in Worker : mark[w] = "done"
    /\ cpc' = "drain"
    /\ mark' = [mark EXCEPT ![Coordinator] = "pop"]
    /\ UNCHANGED <<heap, colors, safepoint, cycle, todo, held, active, mutator, history>>

\* request_and_wait, up to the wait
Ask(from, to) ==
    /\ cpc = from
    /\ requested' = TRUE
    /\ cpc' = to
    /\ UNCHANGED <<heap, colors, parked, closure, reconcile, cycle, todo, held, active, mutator, history>>

AskToTerminate ==
    /\ mark[Coordinator] = "pop" /\ gray = <<>>
    /\ Ask("drain", "ask1")
    /\ mark' = [mark EXCEPT ![Coordinator] = "done"]

\* the mutator is parked: tell it what to do, and release it
Release1 ==
    /\ cpc = "ask1" /\ parked
    /\ closure' = TRUE /\ requested' = FALSE
    /\ cpc' = "spin"
    /\ UNCHANGED <<heap, colors, parked, reconcile, cycle, todo, mark, held, active, mutator, history>>

\* mutant: no wait for the end of the marking
BeginSweep_NoSpin ==
    /\ cpc = "spin" /\ cpc' = "sweep" /\ todo' = managed
    /\ UNCHANGED <<heap, colors, safepoint, cycle, mark, held, active, mutator, history>>

BeginSweep ==
    /\ cpc = "spin"
    /\ phase = "ConcurrentSweep"
    /\ cpc' = "sweep"
    /\ todo' = managed
    /\ UNCHANGED <<heap, colors, safepoint, cycle, mark, held, active, mutator, history>>

\* mutant: what is garbage is looked up, and left
Sweep_Nothing(n) ==
    /\ cpc = "sweep" /\ n \in todo
    /\ todo' = todo \ {n}
    /\ UNCHANGED <<heap, colors, safepoint, cycle, cpc, mark, held, active, mutator, history>>

\* concurrent_sweep, an object at a time and in any order
Sweep(n) ==
    /\ cpc = "sweep" /\ n \in todo
    /\ todo' = todo \ {n}
    /\ IF color[n] = "White"
       THEN LET left == Without({n})
            IN  /\ dead' = dead \cup {n}
                /\ fields' = [[m \in Object |-> left[fields[m]]] EXCEPT ![n] = NoRef]
                /\ roots' = [x \in Root |-> left[roots[x]]]
                /\ dirty' = {left[d] : d \in dirty}
       ELSE UNCHANGED <<dead, fields, roots, dirty>>
    /\ UNCHANGED <<young, old, colors, safepoint, phase, managed, trigger,
                   cpc, mark, held, active, mutator, history>>

AskToReconcile ==
    /\ todo = {}
    /\ Ask("sweep", "ask2")
    /\ UNCHANGED mark

Release2 ==
    /\ cpc = "ask2" /\ parked
    /\ reconcile' = TRUE /\ requested' = FALSE
    /\ cpc' = "recv"
    /\ UNCHANGED <<heap, colors, parked, closure, cycle, todo, mark, held, active, mutator, history>>

(***************************************************************************)
(* The mutator at a safepoint: gc_safepoint_and_finalize.                  *)
(***************************************************************************)
Park ==
    /\ mpc = "run" /\ requested
    /\ goal = "none" \/ phase # "Idle"
    /\ parked' = TRUE
    /\ mpc' = "parked"
    /\ UNCHANGED <<heap, colors, requested, closure, reconcile, cycle, gcThreads, shades, goal, history>>

\* finish_mark_termination: rescan the roots and drain the queue.  What was
\* promoted since the cycle began is not managed: it is neither marked nor
\* looked through.
Remarked == LET start == RootsToShade(managed) \cup (ToSet(gray) \cap managed)
                white == {n \in managed : color[n] = "White"}
            IN  start \cup Reach({fields[n] : n \in start} \cap white, white)

FinishMark ==
    /\ color' = [n \in Object |-> IF n \in Remarked THEN "Black" ELSE color[n]]
    /\ gray' = <<>>
    /\ phase' = "ConcurrentSweep"
    /\ dead' = {}
    /\ reconcile' = FALSE
    /\ UNCHANGED <<heap, managed, doomed>>

\* mutant: the survivors stay black
Reconcile_KeepColors ==
    /\ old' = old \ dead
    /\ dirty' = dirty \cap old'
    /\ dead' = {} /\ managed' = {} /\ doomed' = {}
    /\ phase' = "Idle"
    /\ reconcile' = FALSE
    /\ UNCHANGED <<young, fields, roots, color, gray>>

\* reconcile_sweep
Reconcile ==
    /\ old' = old \ dead
    /\ color' = [n \in Object |-> IF n \in old' THEN "White" ELSE color[n]]
    /\ dirty' = dirty \cap old'
    /\ dead' = {} /\ managed' = {} /\ doomed' = {}
    /\ phase' = "Idle"
    /\ reconcile' = FALSE
    /\ UNCHANGED <<young, fields, roots, gray>>

Wake ==
    /\ mpc = "parked" /\ ~requested
    /\ parked' = FALSE
    /\ mpc' = "run"
    /\ closure' = FALSE
    /\ CASE closure -> FinishMark
         [] reconcile /\ ~closure -> Reconcile
         [] OTHER -> UNCHANGED <<heap, colors, reconcile, phase, managed, dead, doomed>>
    /\ UNCHANGED <<requested, trigger, gcThreads, shades, goal, careful>>

(***************************************************************************)
(* What waits for the end of a cycle (complete_concurrent_cycle) goes on   *)
(* polling, and does what it wants when there is none.                     *)
(***************************************************************************)
\* gc.set_concurrent(true)
SwitchOn ==
    /\ Running
    /\ cpc = "off"
    /\ cpc' = "recv"
    /\ UNCHANGED <<heap, colors, safepoint, cycle, todo, mark, held, active, mutator, history>>

\* gc_full, gc_major_only, gc.set_concurrent(false) and the end of the VM;
\* which of them it is counts only when the cycle is over
Want ==
    /\ Running
    /\ goal' = "wait"
    /\ UNCHANGED <<heap, colors, safepoint, cycle, gcThreads, mpc, shades, history>>

Free == mpc = "run" /\ phase = "Idle"

\* gc_full: a minor collection first
FullMinor ==
    /\ Free /\ goal = "wait"
    /\ MinorGc
    /\ goal' = "major"
    /\ UNCHANGED <<gray, safepoint, cycle, gcThreads, mpc, shades, history>>

FullMajor ==
    /\ Free /\ goal \in {"wait", "major"}
    /\ MajorGc
    /\ goal' = "none"
    /\ UNCHANGED <<colors, safepoint, cycle, gcThreads, mpc, shades, doomed>>

\* mutant: the coordinator is not told
ShutDown_Silently ==
    /\ Free /\ goal = "wait" /\ cpc # "off"
    /\ mpc' = "join"
    /\ UNCHANGED <<heap, colors, safepoint, cycle, gcThreads, shades, goal, history>>

\* GcCoordinator::shutdown, and the join
ShutDown ==
    /\ Free /\ goal = "wait" /\ cpc # "off"
    /\ mpc' = "join"
    /\ trigger' = Append(trigger, "Shutdown")
    /\ requested' = FALSE
    /\ UNCHANGED <<heap, colors, parked, closure, reconcile, phase, managed, dead,
                   gcThreads, shades, goal, history>>

Joined ==
    /\ mpc = "join" /\ cpc = "off"
    /\ mpc' = "run" /\ goal' = "none"
    /\ UNCHANGED <<heap, colors, safepoint, cycle, gcThreads, shades, history>>

(***************************************************************************)
Program ==
    \/ \E n \in Object, x \in Root : Alloc(n, x) \/ Load(x, n)
    \/ \E x \in Root : Assign(x)
    \/ \E n \in Object : Store(n)
    \/ CollectMinor \/ CollectMajor
    \/ SwitchOn \/ Want

Safepoint == Park \/ Wake
Owed == ShadeTest \/ ShadePaint \/ FullMinor \/ FullMajor \/ ShutDown \/ Joined
Marking(m) == Pop(m) \/ Enter(m) \/ Trace(m) \/ Quit(m)
Coordinating ==
    \/ Receive \/ Join \/ AskToTerminate \/ Release1 \/ BeginSweep
    \/ (\E n \in Object : Sweep(n))
    \/ AskToReconcile \/ Release2

Next == Program \/ Safepoint \/ Owed \/ (\E m \in Marker : Marking(m)) \/ Coordinating

Spec == Init /\ [][Next]_vars

\* the threads run; the program comes by a safepoint time and again
FairSpec ==
    /\ Spec
    /\ SF_vars(Park) /\ WF_vars(Wake) /\ WF_vars(Owed)
    /\ \A m \in Marker : WF_vars(Marking(m))
    /\ WF_vars(Coordinating)

(***************************************************************************)
(* Properties                                                              *)
(***************************************************************************)

\* what the coordinator will free: one of them may be gone while another one
\* still refers to it
Condemned == IF phase = "ConcurrentSweep" THEN {n \in managed \ dead : color[n] = "White"} \ young ELSE {}

\* The point of marking beside a running program: no root, and nothing that
\* will be kept, refers to a box that the coordinator has freed or, once
\* sweeping has begun, is going to free.  The workers, the barrier and the last
\* rescan have missed nothing between them, however they interleaved.
NothingDangles ==
    careful => /\ \A x \in Root : roots[x] \notin Condemned \cup {Gone}
               /\ \A n \in Live \ Condemned : fields[n] \notin Condemned \cup {Gone}

\* The two rendezvous are two: the coordinator sweeps only after the mutator
\* has ended the marking, when nobody marks any more, and the mutator is told
\* what to do only while it is parked for it, one thing at a time.
RendezvousIsReal ==
    /\ cpc = "sweep" => /\ phase = "ConcurrentSweep" /\ gray = <<>>
                        /\ \A m \in Marker : mark[m] = "done"
    /\ closure \/ reconcile => parked /\ ~requested
    /\ ~(closure /\ reconcile)

\* Between two cycles nothing is left of the last one: no color, no object in
\* the queue, no thread at work, no request, no message.
IdleIsClean ==
    phase = "Idle" =>
        /\ \A n \in old : color[n] = "White"
        /\ gray = <<>> /\ managed = {} /\ dead = {} /\ shades = <<>>
        /\ cpc \in {"off", "recv"} /\ active = 0
        /\ ~requested /\ ~parked /\ ~closure /\ ~reconcile
        /\ "Major" \notin ToSet(trigger)

\* What was garbage when a cycle began has been freed when it ends: floating
\* garbage is only what was dropped while the cycle ran.
CycleFreesGarbage == [][phase = "ConcurrentSweep" /\ phase' = "Idle" => doomed \cap old' = {}]_vars

\* Every cycle comes to its end, and gc_full, msGcCollect and
\* gc.set_concurrent(false) return from waiting for it.
CycleEnds == phase # "Idle" ~> phase = "Idle"
WaitEnds == goal # "none" ~> goal = "none"
=============================================================================
