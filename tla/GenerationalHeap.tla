-------------------------- MODULE GenerationalHeap --------------------------
(***************************************************************************)
(* The collected heap of src/vm/gc.rs while the world is stopped: a young  *)
(* generation that is copied, an old one and a large-object space that are *)
(* marked and swept, and the card table that carries old-to-young          *)
(* references from the write barrier to the next minor collection.         *)
(*                                                                         *)
(* The heap serves the objects of gc_alloc_* (the VM's own alloc_* boxes   *)
(* are outside of it and are left out, as forward_slot and mark skip       *)
(* them).  Marking that runs beside the program is not modelled here.      *)
(*                                                                         *)
(* A reference is the object it leads to.  A pointer to a box that has     *)
(* been freed is Gone: so is, after a minor collection, every pointer to   *)
(* the old box of a young object, unless the collection has forwarded it.  *)
(***************************************************************************)
EXTENDS Integers, FiniteSets

CONSTANTS
    Object,   \* the objects that can be registered at one time
    Slot,     \* the reference slots of an object (list items, fields, ...)
    Root,     \* value stack, globals, deferred calls, current_exc, in-flight futures
    NoRef,    \* a slot that holds no Object::Ref
    Gone,     \* a pointer into freed memory
    Ages,     \* the promotion ages a script asks for, within 1..3
    Adaptive, \* gc.set_adaptive: TRUE by default
    MaxFlags, \* bound: objects with a finalizer or a pin at one time
    MaxLarge, \* bound: large objects at one time
    Requests  \* the collections that are asked for: "minor", "major", "full"

ASSUME HeapAssumption ==
    /\ IsFiniteSet(Object)
    /\ Ages \subseteq 1..3
    /\ Adaptive \in BOOLEAN
    /\ MaxFlags \in Nat /\ MaxLarge \in Nat
    /\ Requests \subseteq {"minor", "major", "full"}
    /\ NoRef \notin Object /\ Gone \notin Object /\ NoRef # Gone

VARIABLES
    young, old, los,   \* young_objects, old_objects, los_objects
    fields,            \* the references an object holds
    age,               \* header: minor collections a young object has survived
    finalizer, pinned, \* header: HAS_FINALIZER, PINNED
    roots,
    dirty,             \* card_table.dirty
    bytes,             \* bytes_allocated
    promotionAge,
    pc,                \* "major": gc_full has done its minor collection
    careful            \* history: no use that the collector does not survive

heapVars == <<young, old, los, fields, age, finalizer, pinned, dirty, bytes>>
vars == <<heapVars, roots, promotionAge, pc, careful>>

Value == Object \cup {NoRef, Gone}
Live == young \cup old \cup los
Empty == [s \in Slot |-> NoRef]

\* the bytes of a registration: a large object is counted with its payload
LargeBytes == 2
BytesOf(small, large) == Cardinality(small) + LargeBytes * Cardinality(large)

TypeOK ==
    /\ young \subseteq Object /\ old \subseteq Object /\ los \subseteq Object
    /\ fields \in [Object -> [Slot -> Value]]
    /\ age \in [Object -> 0..3]
    /\ finalizer \subseteq Live /\ pinned \subseteq Live
    /\ roots \in [Root -> Value]
    /\ dirty \subseteq Object \cup {Gone}
    /\ bytes \in Int
    /\ promotionAge \in 1..3
    /\ pc \in {"program", "major"}
    /\ careful \in BOOLEAN

\* an empty heap, and the defaults of MsHeap::new
Init ==
    /\ young = {} /\ old = {} /\ los = {}
    /\ fields = [n \in Object |-> Empty]
    /\ age = [n \in Object |-> 0]
    /\ finalizer = {} /\ pinned = {}
    /\ roots = [x \in Root |-> NoRef]
    /\ dirty = {}
    /\ bytes = 0
    /\ promotionAge = 2
    /\ pc = "program"
    /\ careful = TRUE

(***************************************************************************)
(* The program.  It works on what its roots hold; using a pointer into     *)
(* freed memory is undefined, and the program is followed up to there.     *)
(***************************************************************************)
Known == {roots[x] : x \in Root} \cap Live
Writable == Known \cup {NoRef}

\* gc_alloc_list and the others: a young object holding known values
AllocYoung(n, x) ==
    /\ pc = "program"
    /\ n \notin Live
    /\ \E f \in [Slot -> Writable] : fields' = [fields EXCEPT ![n] = f]
    /\ young' = young \cup {n}
    /\ roots' = [roots EXCEPT ![x] = n]
    /\ bytes' = bytes + BytesOf({n}, {})
    /\ UNCHANGED <<old, los, age, finalizer, pinned, dirty, promotionAge, pc, careful>>

\* mutant: the payload is not counted
AllocLarge_Header(n, x) ==
    /\ pc = "program" /\ n \notin Live /\ Cardinality(los) < MaxLarge
    /\ los' = los \cup {n}
    /\ roots' = [roots EXCEPT ![x] = n]
    /\ bytes' = bytes + BytesOf({n}, {})
    /\ UNCHANGED <<young, old, fields, age, finalizer, pinned, dirty, promotionAge, pc, careful>>

\* alloc_los: registered apart, with a header whose generation reads Young,
\* and traced by nobody
AllocLarge(n, x) ==
    /\ pc = "program"
    /\ n \notin Live
    /\ Cardinality(los) < MaxLarge
    /\ los' = los \cup {n}
    /\ roots' = [roots EXCEPT ![x] = n]
    /\ bytes' = bytes + BytesOf({}, {n})
    /\ UNCHANGED <<young, old, fields, age, finalizer, pinned, dirty, promotionAge, pc, careful>>

\* a stack slot or a global takes another value, or is popped
Assign(x) ==
    /\ pc = "program"
    /\ \E v \in Writable : roots' = [roots EXCEPT ![x] = v]
    /\ UNCHANGED <<heapVars, promotionAge, pc, careful>>

\* a slot of a known object is read
Load(x, n, s) ==
    /\ pc = "program"
    /\ n \in Known
    /\ fields[n][s] # Gone
    /\ roots' = [roots EXCEPT ![x] = fields[n][s]]
    /\ UNCHANGED <<heapVars, promotionAge, pc, careful>>

\* mutant: no card
Barrier_None(n, v) == dirty

\* write_barrier_obj: an old parent that gets a young reference is carded
\* (by its header a large object is young)
Barrier(n, v) == IF n \in old /\ v \in young \cup los THEN dirty \cup {n} ELSE dirty

\* a slot of a known object is written, with the barrier after the write
Store(n, s) ==
    /\ pc = "program"
    /\ n \in Known \ los
    /\ \E v \in Writable : /\ fields' = [fields EXCEPT ![n][s] = v]
                           /\ dirty' = Barrier(n, v)
    /\ UNCHANGED <<young, old, los, age, finalizer, pinned, bytes, roots, promotionAge, pc, careful>>

\* msOnFinalize, set_pinned
SetFlag(n) ==
    /\ pc = "program"
    /\ n \in Known
    /\ Cardinality(finalizer \cup pinned) < MaxFlags
    /\ \/ finalizer' = finalizer \cup {n} /\ UNCHANGED pinned
       \/ pinned' = pinned \cup {n} /\ UNCHANGED finalizer
    /\ careful' = FALSE
    /\ UNCHANGED <<young, old, los, fields, age, dirty, bytes, roots, promotionAge, pc>>

\* gc.set_promotion_age
Configure ==
    /\ pc = "program"
    /\ promotionAge' \in Ages
    /\ UNCHANGED <<heapVars, roots, pc, careful>>

(***************************************************************************)
(* What a loop over a worklist reaches: the least set of objects of within *)
(* that has the ones of start and, with an object, its children.           *)
(***************************************************************************)
HasChildren(C, within) == \A m \in C, s \in Slot : fields[m][s] \in within => fields[m][s] \in C

Reach(start, within) ==
    {n \in within : \A C \in SUBSET within : start \subseteq C /\ HasChildren(C, within) => n \in C}

FromRoots(within) == {n \in within : \E x \in Root : roots[x] = n}

(***************************************************************************)
(* minor_gc: forward the roots, the slots of the carded objects and, as    *)
(* long as there are new copies, the slots of these; then free the whole   *)
(* from-space.  A card whose object is gone is read all the same; the      *)
(* model finds nothing there.                                              *)
(***************************************************************************)
FromCards == {n \in young : \E d \in dirty \cap Live, s \in Slot : fields[d][s] = n}

\* mutant: the card table is not read
Survivors_NoCards == Reach(FromRoots(young), young)

Survivors == Reach(FromRoots(young) \cup FromCards, young)

NewAge(n) == IF age[n] < 3 THEN age[n] + 1 ELSE 3
Promoted == {n \in Survivors : NewAge(n) >= promotionAge}

\* what a slot that forward_slot is applied to, and one that it is not,
\* holds when the from-space is freed
Forwarded(v) == IF v \in young \ Survivors THEN Gone ELSE v
Stale(v) == IF v \in young THEN Gone ELSE v

Copied(n) ==
    CASE n \in young \ Survivors -> Empty
      [] n \in Survivors \cup (dirty \ young) -> [s \in Slot |-> Forwarded(fields[n][s])]
      [] OTHER -> [s \in Slot |-> Stale(fields[n][s])]

\* run_adaptive_tuning: with more than half of the survivors promoted,
\* promotion is put off
TunedAge ==
    IF Adaptive /\ 2 * Cardinality(Promoted) > Cardinality(Survivors) /\ promotionAge < 3
    THEN promotionAge + 1 ELSE promotionAge

\* the age of an object is not read any more once it is old
MinorGc ==
    /\ young' = Survivors \ Promoted
    /\ old' = old \cup Promoted
    /\ fields' = [n \in Object |-> Copied(n)]
    /\ age' = [n \in Object |-> IF n \in Survivors \ Promoted THEN NewAge(n) ELSE 0]
    /\ finalizer' = finalizer \ (young \ Survivors)
    /\ pinned' = pinned \ (young \ Survivors)
    /\ roots' = [x \in Root |-> Forwarded(roots[x])]
    /\ dirty' = {}
    /\ bytes' = bytes + BytesOf(Survivors, {}) - BytesOf(young, {})
    /\ promotionAge' = TunedAge
    /\ UNCHANGED los

(***************************************************************************)
(* major_gc and run_finalizers: mark from the roots through old and large  *)
(* objects, then sweep.  An unmarked object with a finalizer is kept for   *)
(* this once, a pinned old one for as long as it is pinned.                *)
(***************************************************************************)
Managed == old \cup los

\* mutant: large objects are not looked for among the roots
Marked_OldRoots == Reach(FromRoots(old), Managed)

Marked == Reach(FromRoots(Managed), Managed)

\* mutant: large objects are not swept
Swept_OldOnly == {n \in old \ Marked : n \notin finalizer \cup pinned}

Swept == {n \in Managed \ Marked : n \notin finalizer /\ ~(n \in pinned /\ n \in old)}

Freed(v) == IF v \in Swept THEN Gone ELSE v

MajorGc ==
    /\ old' = old \ Swept
    /\ los' = los \ Swept
    /\ fields' = [n \in Object |-> IF n \in Swept THEN Empty
                                   ELSE [s \in Slot |-> Freed(fields[n][s])]]
    /\ finalizer' = finalizer \ (Managed \ Marked)
    /\ pinned' = pinned \ Swept
    /\ roots' = [x \in Root |-> Freed(roots[x])]
    /\ dirty' = {Freed(d) : d \in dirty}
    /\ bytes' = bytes - BytesOf(Swept \cap old, Swept \cap los)
    /\ UNCHANGED <<young, age, promotionAge>>

(***************************************************************************)
(* The collections: gc_minor_only, gc_major_only and gc_full.  maybe_gc    *)
(* runs a minor one, a major one, or both in this order, as its two        *)
(* thresholds say; set_threshold puts them anywhere, so any of the three   *)
(* can come at any point of the program.                                   *)
(*                                                                         *)
(* careful records how the heap is used: it is lost when a minor           *)
(* collection leaves an object young that an old one refers to, when a     *)
(* major one runs over young objects or over a card table in use, and      *)
(* (above) when an object gets a flag that keeps it without marking it.    *)
(***************************************************************************)
LeavesBehind == \E n \in old \cup Promoted, s \in Slot : fields[n][s] \in Survivors \ Promoted

CollectMinor ==
    /\ pc = "program" /\ "minor" \in Requests
    /\ MinorGc
    /\ careful' = (careful /\ ~LeavesBehind)
    /\ UNCHANGED pc

CollectMajor ==
    /\ pc = "program" /\ "major" \in Requests
    /\ MajorGc
    /\ careful' = (careful /\ young = {} /\ dirty = {})
    /\ UNCHANGED pc

BeginFull ==
    /\ pc = "program" /\ "full" \in Requests
    /\ MinorGc
    /\ careful' = (careful /\ ~LeavesBehind)
    /\ pc' = "major"

EndFull ==
    /\ pc = "major"
    /\ MajorGc
    /\ careful' = (careful /\ young = {} /\ dirty = {})
    /\ pc' = "program"

Collect == CollectMinor \/ CollectMajor \/ BeginFull \/ EndFull

Program ==
    \/ \E n \in Object, x \in Root : AllocYoung(n, x) \/ AllocLarge(n, x)
    \/ \E x \in Root : Assign(x)
    \/ \E n \in Object, s \in Slot : Store(n, s) \/ \E x \in Root : Load(x, n, s)
    \/ \E n \in Object : SetFlag(n)
    \/ Configure

Next == Program \/ Collect

Spec == Init /\ [][Next]_vars

(***************************************************************************)
(* Properties                                                              *)
(***************************************************************************)

\* Whatever the ages, the flags and the order of the collections: no stack
\* slot and no global ever refers to a freed box, because minor_gc forwards
\* and major_gc marks what the roots hold themselves.
RootsNeverDangle == \A x \in Root : roots[x] \in Live \cup {NoRef}

\* As long as the heap is used carefully, every reference of every object is
\* to a live object (of garbage in the old generation too: the card table
\* may still lead the next minor collection there), every card is of an old
\* object, and every old object that refers to a young one has its card.
CarefulUseIsSafe ==
    careful =>
        /\ \A n \in Live, s \in Slot : fields[n][s] \in Live \cup {NoRef}
        /\ dirty \subseteq old
        /\ \A n \in old, s \in Slot : fields[n][s] \in young => n \in dirty

\* bytes_allocated, which the thresholds are compared with, never drifts
\* from the registered objects, through any copying, promoting and sweeping.
BytesAreExact == bytes = BytesOf(young \cup old, los)

\* what the program can get at: which object each root leads to, and which
\* object each slot of these leads to
Reachable == Reach(FromRoots(Live), Live)
View == [root |-> roots, slot |-> [n \in Reachable |-> fields[n]]]

\* A collection moves objects and frees them, and the program cannot tell:
\* under careful use no collection changes what the roots lead to.
CollectionsAreInvisible == [][Collect /\ careful' => View' = View]_vars

\* Under careful use nothing unreachable is left once gc_full is through, not
\* even what garbage kept alive through a card in its minor collection.
FullLeavesNoGarbage == [][EndFull /\ careful' => Live' = Reachable']_vars
=============================================================================
