------------------------ MODULE GenerationalHeap_proofs ------------------------
EXTENDS GenerationalHeap, FiniteSetTheorems, TLAPS

(***************************************************************************)
(* Reach(start, within) is closed: what start leads to inside of within.   *)
(***************************************************************************)
LEMMA ReachBounds ==
  ASSUME NEW W, NEW S \in SUBSET W
  PROVE  S \subseteq Reach(S, W) /\ Reach(S, W) \subseteq W
BY DEF Reach

LEMMA ReachIsClosed ==
  ASSUME NEW W, NEW S \in SUBSET W
  PROVE  HasChildren(Reach(S, W), W)
BY DEF Reach, HasChildren

LEMMA ReachIsLeast ==
  ASSUME NEW W, NEW S \in SUBSET W, NEW C \in SUBSET W, S \subseteq C, HasChildren(C, W)
  PROVE  Reach(S, W) \subseteq C
BY DEF Reach

(***************************************************************************)
(* The inductive invariant.  A reference never leads to an object that is  *)
(* registered nowhere: it leads to a live one, or is marked as stale.  The *)
(* three lists are disjoint, and only young and old objects hold           *)
(* references.                                                             *)
(***************************************************************************)
FieldsKnown == \A n \in Object, s \in Slot : fields[n][s] \in Live \cup {NoRef, Gone}
Apart == young \cap old = {} /\ young \cap los = {} /\ old \cap los = {}
OthersEmpty == \A n \in Object \ (young \cup old) : fields[n] = Empty
Unflagged == careful => finalizer = {} /\ pinned = {}

Shape == TypeOK /\ FieldsKnown /\ Apart /\ OthersEmpty

IInv == Shape /\ RootsNeverDangle /\ Unflagged /\ CarefulUseIsSafe /\ BytesAreExact

(* What a minor collection keeps, and that it takes every old object's     *)
(* young child along as long as the card table is complete.                *)
LEMMA SurvivorFacts ==
  ASSUME Shape
  PROVE  /\ Survivors \subseteq young /\ Promoted \subseteq Survivors
         /\ \A x \in Root : roots[x] \in young => roots[x] \in Survivors
         /\ \A d \in dirty \cap Live, s \in Slot : fields[d][s] \in young => fields[d][s] \in Survivors
         /\ \A n \in Survivors, s \in Slot : fields[n][s] \in young => fields[n][s] \in Survivors
<1>1. FromRoots(young) \cup FromCards \in SUBSET young
  BY DEF FromRoots, FromCards
<1>2. /\ Survivors \subseteq young
      /\ FromRoots(young) \cup FromCards \subseteq Survivors
      /\ HasChildren(Survivors, young)
  BY <1>1, ReachBounds, ReachIsClosed DEF Survivors
<1> QED
  BY <1>2 DEF HasChildren, FromRoots, FromCards, Promoted

LEMMA MarkedFacts ==
  /\ Marked \subseteq Managed /\ Swept \subseteq Managed \ Marked
  /\ \A x \in Root : roots[x] \in Managed => roots[x] \in Marked
  /\ \A n \in Marked, s \in Slot : fields[n][s] \in Managed => fields[n][s] \in Marked
<1>1. FromRoots(Managed) \in SUBSET Managed
  BY DEF FromRoots
<1>2. /\ Marked \subseteq Managed
      /\ FromRoots(Managed) \subseteq Marked
      /\ HasChildren(Marked, Managed)
  BY <1>1, ReachBounds, ReachIsClosed DEF Marked
<1> QED
  BY <1>2 DEF HasChildren, FromRoots, Swept

LEMMA NewAgeType ==
  ASSUME TypeOK, NEW n \in Object
  PROVE  NewAge(n) \in 0..3
BY DEF TypeOK, NewAge

LEMMA CopiedType ==
  ASSUME Shape, NEW n \in Object
  PROVE  Copied(n) \in [Slot -> Value]
BY DEF Shape, TypeOK, Copied, Empty, Value, Forwarded, Stale

LEMMA BytesType ==
  ASSUME NEW S \in SUBSET Object, NEW T \in SUBSET Object
  PROVE  BytesOf(S, T) \in Int
<1>1. Cardinality(S) \in Nat /\ Cardinality(T) \in Nat
  BY HeapAssumption, FS_Subset, FS_CardinalityType
<1> QED
  BY <1>1 DEF BytesOf, LargeBytes

LEMMA DisjointUnion ==
  ASSUME NEW S, NEW T, IsFiniteSet(S), IsFiniteSet(T), S \cap T = {}
  PROVE  Cardinality(S \cup T) = Cardinality(S) + Cardinality(T)
<1>1. Cardinality(S \cup T) = Cardinality(S) + Cardinality(T) - Cardinality(S \cap T)
  BY FS_Union
<1>2. Cardinality(S \cap T) = 0
  BY FS_EmptySet, Zenon
<1>3. Cardinality(S) \in Nat /\ Cardinality(T) \in Nat
  BY FS_CardinalityType
<1> QED
  BY <1>1, <1>2, <1>3

LEMMA InitEstablishes == Init => IInv
<1> SUFFICES ASSUME Init PROVE IInv
  OBVIOUS
<1>1. Shape
  BY DEF Init, Shape, TypeOK, FieldsKnown, Apart, OthersEmpty, Live, Value, Empty
<1>2. BytesAreExact
  BY FS_EmptySet DEF Init, BytesAreExact, BytesOf, LargeBytes
<1> QED
  BY <1>1, <1>2 DEF Init, IInv, RootsNeverDangle, Unflagged, CarefulUseIsSafe, Live

(***************************************************************************)
(* The program's actions, one lemma each.                                  *)
(***************************************************************************)
LEMMA AddedBytes ==
  ASSUME TypeOK, NEW n \in Object, n \notin Live
  PROVE  /\ BytesOf(young \cup {n} \cup old, los) = BytesOf(young \cup old, los) + BytesOf({n}, {})
         /\ BytesOf(young \cup old, los \cup {n}) = BytesOf(young \cup old, los) + BytesOf({}, {n})
         /\ BytesOf({n}, {}) \in Int /\ BytesOf({}, {n}) \in Int
<1>1. IsFiniteSet(young \cup old) /\ IsFiniteSet(los)
  BY HeapAssumption, FS_Subset DEF TypeOK
<1>2. /\ Cardinality(young \cup old) \in Nat /\ Cardinality(los) \in Nat
      /\ Cardinality({n}) = 1 /\ Cardinality({}) = 0
  BY <1>1, FS_CardinalityType, FS_Singleton, FS_EmptySet
<1>3. /\ Cardinality((young \cup old) \cup {n}) = Cardinality(young \cup old) + 1
      /\ Cardinality(los \cup {n}) = Cardinality(los) + 1
  BY <1>1, FS_AddElement DEF Live
<1>4. Cardinality(young \cup {n} \cup old) = Cardinality(young \cup old) + 1
  <2>1. young \cup {n} \cup old = (young \cup old) \cup {n}
    OBVIOUS
  <2> QED
    BY <1>3, <2>1, Zenon
<1>5. BytesOf({n}, {}) = 1 /\ BytesOf({}, {n}) = 2
  BY <1>2 DEF BytesOf, LargeBytes
<1> QED
  BY <1>2, <1>3, <1>4, <1>5 DEF BytesOf, LargeBytes

LEMMA AllocYoungKeeps ==
  ASSUME IInv, NEW n \in Object, NEW x \in Root, AllocYoung(n, x)
  PROVE  IInv'
<1>1. PICK f \in [Slot -> Writable] : fields' = [fields EXCEPT ![n] = f]
  BY DEF AllocYoung
<1>2. /\ young' = young \cup {n} /\ UNCHANGED <<old, los, age, finalizer, pinned, dirty, promotionAge, pc, careful>>
      /\ roots' = [roots EXCEPT ![x] = n] /\ bytes' = bytes + BytesOf({n}, {}) /\ n \notin Live
  BY DEF AllocYoung
<1>3. \A s \in Slot : f[s] \in Live \cup {NoRef}
  BY DEF Writable, Known
<1>4. TypeOK'
  <2>1. f \in [Slot -> Value]
    BY <1>3 DEF Value, Live, IInv, Shape, TypeOK
  <2>2. bytes' \in Int
    BY <1>2, AddedBytes DEF IInv, Shape, TypeOK
  <2> QED
    BY <1>1, <1>2, <2>1, <2>2 DEF IInv, Shape, TypeOK, Value, Live
<1>5. FieldsKnown' /\ Apart' /\ OthersEmpty'
  BY <1>1, <1>2, <1>3 DEF IInv, Shape, FieldsKnown, Apart, OthersEmpty, Live, TypeOK
<1>6. RootsNeverDangle'
  BY <1>2 DEF IInv, RootsNeverDangle, Live, Shape, TypeOK
<1>7. CarefulUseIsSafe'
  <2> SUFFICES ASSUME careful' PROVE CarefulUseIsSafe!2'
    BY DEF CarefulUseIsSafe
  <2>1. CarefulUseIsSafe!2
    BY <1>2 DEF IInv, CarefulUseIsSafe
  <2>2. \A m \in Object : fields'[m] = IF m = n THEN f ELSE fields[m]
    BY <1>1 DEF IInv, Shape, TypeOK
  <2>3. Live \subseteq Object
    BY DEF IInv, Shape, TypeOK, Live
  <2>4. \A m \in Live', s \in Slot : fields'[m][s] \in Live \cup {NoRef}
    BY <1>2, <1>3, <2>1, <2>2, <2>3 DEF Live
  <2>5. \A m \in old, s \in Slot : fields'[m][s] \in young \cup {n} => fields'[m][s] \in young
    BY <1>2, <2>1, <2>2, <2>3, HeapAssumption DEF Live
  <2>6. \A m \in old : fields'[m] = fields[m]
    BY <1>2, <2>2, <2>3 DEF Live
  <2> QED
    BY <1>2, <2>1, <2>4, <2>5, <2>6 DEF Live
<1>8. BytesAreExact'
  BY <1>2, AddedBytes DEF IInv, Shape, BytesAreExact
<1> QED
  BY <1>2, <1>4, <1>5, <1>6, <1>7, <1>8 DEF IInv, Shape, Unflagged

LEMMA AllocLargeKeeps ==
  ASSUME IInv, NEW n \in Object, NEW x \in Root, AllocLarge(n, x)
  PROVE  IInv'
<1>1. /\ los' = los \cup {n} /\ UNCHANGED <<young, old, fields, age, finalizer, pinned, dirty, promotionAge, pc, careful>>
      /\ roots' = [roots EXCEPT ![x] = n] /\ bytes' = bytes + BytesOf({}, {n}) /\ n \notin Live
  BY DEF AllocLarge
<1>2. TypeOK'
  <2>1. bytes' \in Int
    BY <1>1, AddedBytes DEF IInv, Shape, TypeOK
  <2> QED
    BY <1>1, <2>1 DEF IInv, Shape, TypeOK, Value, Live
<1>3. FieldsKnown' /\ Apart' /\ OthersEmpty'
  BY <1>1 DEF IInv, Shape, FieldsKnown, Apart, OthersEmpty, Live
<1>4. RootsNeverDangle'
  BY <1>1 DEF IInv, RootsNeverDangle, Live, Shape, TypeOK
<1>5. CarefulUseIsSafe'
  <2>1. fields[n] = Empty
    BY <1>1 DEF IInv, Shape, OthersEmpty, Live
  <2> QED
    BY <1>1, <2>1 DEF IInv, Shape, CarefulUseIsSafe, Live, TypeOK, Empty
<1>6. BytesAreExact'
  BY <1>1, AddedBytes DEF IInv, Shape, BytesAreExact
<1> QED
  BY <1>1, <1>2, <1>3, <1>4, <1>5, <1>6 DEF IInv, Shape, Unflagged

(* What is written to a root or to a slot is live.                         *)
LEMMA RootsKeep ==
  ASSUME IInv, UNCHANGED <<heapVars, promotionAge, pc, careful>>,
         NEW x \in Root, NEW v \in Live \cup {NoRef}, roots' = [roots EXCEPT ![x] = v]
  PROVE  IInv'
<1>1. UNCHANGED <<young, old, los, fields, age, finalizer, pinned, dirty, bytes, promotionAge, pc, careful>>
  BY DEF heapVars
<1>2. TypeOK'
  BY <1>1 DEF IInv, Shape, TypeOK, Value, Live
<1>3. RootsNeverDangle'
  BY <1>1 DEF IInv, Shape, TypeOK, RootsNeverDangle, Live
<1> QED
  BY <1>1, <1>2, <1>3 DEF IInv, Shape, FieldsKnown, Apart, OthersEmpty, Live, Unflagged,
     CarefulUseIsSafe, BytesAreExact

LEMMA StoreKeeps ==
  ASSUME IInv, NEW n \in Object, NEW s \in Slot, Store(n, s)
  PROVE  IInv'
<1>1. PICK v \in Writable : fields' = [fields EXCEPT ![n][s] = v] /\ dirty' = Barrier(n, v)
  BY DEF Store
<1>2. /\ UNCHANGED <<young, old, los, age, finalizer, pinned, bytes, roots, promotionAge, pc, careful>>
      /\ n \in young \cup old /\ v \in Live \cup {NoRef}
  BY DEF Store, Known, Live, Writable
<1>3. TypeOK'
  BY <1>1, <1>2 DEF IInv, Shape, TypeOK, Value, Live, Barrier
<1>4. \A m \in Object, r \in Slot : fields'[m][r] = IF m = n /\ r = s THEN v ELSE fields[m][r]
  BY <1>1 DEF IInv, Shape, TypeOK
<1>5. FieldsKnown' /\ Apart' /\ OthersEmpty'
  BY <1>1, <1>2, <1>4 DEF IInv, Shape, FieldsKnown, Apart, OthersEmpty, Live, TypeOK
<1>6. CarefulUseIsSafe'
  <2> SUFFICES ASSUME careful' PROVE CarefulUseIsSafe!2'
    BY DEF CarefulUseIsSafe
  <2>1. CarefulUseIsSafe!2
    BY <1>2 DEF IInv, CarefulUseIsSafe
  <2>2. Live \subseteq Object
    BY DEF IInv, Shape, TypeOK, Live
  <2> QED
    BY <1>1, <1>2, <1>4, <2>1, <2>2 DEF Live, Barrier
<1> QED
  BY <1>2, <1>3, <1>5, <1>6 DEF IInv, Shape, RootsNeverDangle, Live, Unflagged, BytesAreExact

LEMMA SetFlagKeeps ==
  ASSUME IInv, NEW n \in Object, SetFlag(n)
  PROVE  IInv'
<1>1. TypeOK'
  BY DEF SetFlag, IInv, Shape, TypeOK, Live, Known
<1> QED
  BY <1>1 DEF SetFlag, IInv, Shape, FieldsKnown, Apart, OthersEmpty, Live, RootsNeverDangle,
     Unflagged, CarefulUseIsSafe, BytesAreExact

LEMMA ConfigureKeeps ==
  ASSUME IInv, Configure
  PROVE  IInv'
<1>1. TypeOK'
  BY HeapAssumption DEF Configure, heapVars, IInv, Shape, TypeOK, Live
<1> QED
  BY <1>1 DEF Configure, heapVars, IInv, Shape, FieldsKnown, Apart, OthersEmpty, Live, RootsNeverDangle,
     Unflagged, CarefulUseIsSafe, BytesAreExact

(***************************************************************************)
(* A minor collection.                                                     *)
(***************************************************************************)
LEMMA MinorValues ==
  ASSUME Shape, MinorGc
  PROVE  /\ Live' = (Live \ young) \cup Survivors
         /\ \A n \in Object : fields'[n] = Copied(n)
         /\ \A x \in Root : roots'[x] = Forwarded(roots[x])
         /\ \A n \in Survivors, s \in Slot : fields'[n][s] = Forwarded(fields[n][s])
         /\ \A n \in dirty \cap Live, s \in Slot : n \notin young => fields'[n][s] = Forwarded(fields[n][s])
         /\ \A n \in Object \ (young \cup dirty), s \in Slot : fields'[n][s] = Stale(fields[n][s])
<1>1. Survivors \subseteq young /\ Promoted \subseteq Survivors
  BY SurvivorFacts
<1>2. Live' = (Live \ young) \cup Survivors
  BY <1>1 DEF MinorGc, Live, Shape, Apart
<1>3. young \subseteq Object /\ Live \subseteq Object
  BY DEF Shape, TypeOK, Live
<1> QED
  BY <1>1, <1>2, <1>3 DEF MinorGc, Copied

LEMMA MinorType ==
  ASSUME Shape, MinorGc, pc' \in {"program", "major"}, careful' \in BOOLEAN
  PROVE  TypeOK'
<1>1. Survivors \subseteq young /\ Promoted \subseteq Survivors
  BY SurvivorFacts
<1>2. fields' \in [Object -> [Slot -> Value]] /\ roots' \in [Root -> Value]
  <2>1. fields' \in [Object -> [Slot -> Value]]
    BY CopiedType DEF MinorGc
  <2>2. \A x \in Root : Forwarded(roots[x]) \in Value
    BY DEF Forwarded, Value, Shape, TypeOK
  <2> QED
    BY <2>1, <2>2 DEF MinorGc
<1>3. age' \in [Object -> 0..3]
  BY NewAgeType DEF MinorGc, Shape
<1>4. promotionAge' \in 1..3
  BY DEF MinorGc, TunedAge, Shape, TypeOK
<1>5. bytes' \in Int
  <2>1. BytesOf(Survivors, {}) \in Int /\ BytesOf(young, {}) \in Int
    BY <1>1, BytesType DEF Shape, TypeOK
  <2> QED
    BY <2>1 DEF MinorGc, Shape, TypeOK
<1>6. /\ young' \subseteq Object /\ old' \subseteq Object /\ los' \subseteq Object
      /\ finalizer' \subseteq Live' /\ pinned' \subseteq Live' /\ dirty' = {}
  BY <1>1, MinorValues DEF MinorGc, Shape, TypeOK
<1> QED
  BY <1>2, <1>3, <1>4, <1>5, <1>6 DEF TypeOK

LEMMA MinorShape ==
  ASSUME Shape, MinorGc, TypeOK'
  PROVE  Shape'
<1>1. Survivors \subseteq young /\ Promoted \subseteq Survivors
  BY SurvivorFacts
<1>2. Apart'
  BY <1>1 DEF MinorGc, Shape, Apart
<1>3. FieldsKnown'
  <2> SUFFICES ASSUME NEW n \in Object, NEW s \in Slot
               PROVE  Copied(n)[s] \in Live' \cup {NoRef, Gone}
    BY MinorValues DEF FieldsKnown
  <2>1. fields[n][s] \in Live \cup {NoRef, Gone}
    BY DEF Shape, FieldsKnown
  <2>2. Live' = (Live \ young) \cup Survivors
    BY MinorValues
  <2> QED
    BY <2>1, <2>2 DEF Copied, Empty, Forwarded, Stale
<1>4. OthersEmpty'
  <2> SUFFICES ASSUME NEW n \in Object, n \notin young' \cup old'
               PROVE  Copied(n) = Empty
    BY MinorValues DEF OthersEmpty, Empty
  <2>1. n \notin Survivors /\ n \notin old
    BY <1>1 DEF MinorGc
  <2>2. n \notin young => fields[n] = Empty
    BY <2>1 DEF Shape, OthersEmpty
  <2>3. Forwarded(NoRef) = NoRef /\ Stale(NoRef) = NoRef
    BY HeapAssumption DEF Forwarded, Stale, Shape, TypeOK
  <2>4. CASE n \in young
    BY <2>1, <2>4 DEF Copied
  <2>5. CASE n \notin young
    <3>1. \A s \in Slot : fields[n][s] = NoRef
      BY <2>2, <2>5 DEF Empty
    <3>2. Copied(n) \in {[s \in Slot |-> Forwarded(fields[n][s])], [s \in Slot |-> Stale(fields[n][s])]}
      BY <2>5 DEF Copied
    <3> QED
      BY <2>3, <3>1, <3>2 DEF Empty
  <2> QED
    BY <2>4, <2>5
<1> QED
  BY <1>2, <1>3, <1>4 DEF Shape

LEMMA MinorRoots ==
  ASSUME Shape, RootsNeverDangle, MinorGc
  PROVE  RootsNeverDangle' /\ roots' = roots
<1>1. \A x \in Root : roots'[x] = roots[x] /\ roots[x] \in Live' \cup {NoRef}
  BY SurvivorFacts, MinorValues DEF RootsNeverDangle, Forwarded
<1>2. roots' = roots
  BY <1>1 DEF MinorGc, Shape, TypeOK
<1> QED
  BY <1>1, <1>2 DEF RootsNeverDangle

(* The references of live objects are the same after a careful minor       *)
(* collection: the children of an old object are in the card table.        *)
LEMMA MinorKeepsFields ==
  ASSUME Shape, CarefulUseIsSafe, careful, MinorGc, NEW n \in Live', NEW s \in Slot
  PROVE  fields'[n][s] = fields[n][s] /\ fields[n][s] \in Live' \cup {NoRef}
<1>1. n \in Live /\ n \in Object /\ (n \in young => n \in Survivors)
  BY MinorValues, SurvivorFacts DEF Shape, TypeOK, Live
<1>2. fields[n][s] \in Live \cup {NoRef} /\ dirty \subseteq old
  BY <1>1 DEF CarefulUseIsSafe
<1>3. fields[n][s] \in young => fields[n][s] \in Survivors /\ n \in Survivors \cup dirty
  <2>1. CASE n \in young
    BY <1>1, <2>1, SurvivorFacts
  <2>2. CASE n \in old
    BY <1>1, <2>2, SurvivorFacts DEF CarefulUseIsSafe
  <2>3. CASE n \in los
    <3>1. fields[n][s] = NoRef
      BY <1>1, <2>3 DEF Shape, OthersEmpty, Apart, Empty
    <3> QED
      BY <3>1, HeapAssumption DEF Shape, TypeOK
  <2> QED
    BY <1>1, <2>1, <2>2, <2>3 DEF Live
<1>4. Live' = (Live \ young) \cup Survivors
  BY MinorValues
<1>5. fields'[n][s] \in {Forwarded(fields[n][s]), Stale(fields[n][s])}
  BY <1>1, MinorValues
<1>6. fields[n][s] \in young => fields'[n][s] = Forwarded(fields[n][s])
  BY <1>1, <1>2, <1>3, MinorValues DEF Shape, Apart
<1> QED
  BY <1>2, <1>3, <1>4, <1>5, <1>6 DEF Forwarded, Stale

LEMMA MinorBytes ==
  ASSUME Shape, BytesAreExact, MinorGc
  PROVE  BytesAreExact'
<1>1. Survivors \subseteq young /\ Promoted \subseteq Survivors
  BY SurvivorFacts
<1>2. IsFiniteSet(young) /\ IsFiniteSet(old) /\ IsFiniteSet(los) /\ IsFiniteSet(Survivors)
  BY <1>1, HeapAssumption, FS_Subset DEF Shape, TypeOK
<1>3. /\ Cardinality(young) \in Nat /\ Cardinality(old) \in Nat /\ Cardinality(los) \in Nat
      /\ Cardinality(Survivors) \in Nat /\ Cardinality({}) = 0
  BY <1>2, FS_CardinalityType, FS_EmptySet
<1>4. Cardinality(young \cup old) = Cardinality(young) + Cardinality(old)
  <2>1. young \cap old = {}
    BY DEF Shape, Apart
  <2> QED
    BY <1>2, <2>1, DisjointUnion
<1>5. Cardinality(young' \cup old') = Cardinality(Survivors) + Cardinality(old)
  <2>1. young' \cup old' = Survivors \cup old /\ Survivors \cap old = {}
    BY <1>1 DEF MinorGc, Shape, Apart
  <2>2. Cardinality(Survivors \cup old) = Cardinality(Survivors) + Cardinality(old)
    BY <1>2, <2>1, DisjointUnion
  <2> QED
    BY <2>1, <2>2, Zenon
<1>6. /\ BytesOf(young \cup old, los) = Cardinality(young) + Cardinality(old) + 2 * Cardinality(los)
      /\ BytesOf(Survivors, {}) = Cardinality(Survivors) /\ BytesOf(young, {}) = Cardinality(young)
      /\ BytesOf(young' \cup old', los) = Cardinality(Survivors) + Cardinality(old) + 2 * Cardinality(los)
  BY <1>3, <1>4, <1>5 DEF BytesOf, LargeBytes
<1>7. bytes' = bytes + BytesOf(Survivors, {}) - BytesOf(young, {}) /\ los' = los
  BY DEF MinorGc
<1>8. bytes' = BytesOf(young' \cup old', los')
  BY <1>3, <1>6, <1>7 DEF BytesAreExact
<1> QED
  BY <1>8 DEF BytesAreExact, BytesOf, LargeBytes

LEMMA MinorKeeps ==
  ASSUME IInv, MinorGc, pc' \in {"program", "major"}, careful' = (careful /\ ~LeavesBehind)
  PROVE  IInv'
<1>1. Shape /\ careful' \in BOOLEAN
  BY DEF IInv, Shape, TypeOK
<1>2. Shape'
  BY <1>1, MinorType, MinorShape
<1>3. RootsNeverDangle' /\ BytesAreExact'
  BY MinorRoots, MinorBytes DEF IInv
<1>4. Unflagged'
  BY DEF IInv, Unflagged, MinorGc
<1>5. CarefulUseIsSafe'
  <2> SUFFICES ASSUME careful' PROVE CarefulUseIsSafe!2'
    BY DEF CarefulUseIsSafe
  <2>1. careful /\ \A n \in old \cup Promoted, s \in Slot : fields[n][s] \notin Survivors \ Promoted
    BY DEF LeavesBehind
  <2>2. \A n \in Live', s \in Slot :
          fields'[n][s] = fields[n][s] /\ fields[n][s] \in Live' \cup {NoRef}
    BY <2>1, MinorKeepsFields DEF IInv
  <2>3. dirty' = {} /\ old' = old \cup Promoted /\ young' = Survivors \ Promoted
    BY DEF MinorGc
  <2>4. old' \subseteq Live'
    BY DEF Live
  <2> QED
    BY <2>1, <2>2, <2>3, <2>4
<1> QED
  BY <1>2, <1>3, <1>4, <1>5 DEF IInv

(***************************************************************************)
(* A major collection.                                                     *)
(***************************************************************************)
LEMMA MajorValues ==
  ASSUME Shape, MajorGc
  PROVE  /\ Live' = Live \ Swept /\ Swept \subseteq old \cup los
         /\ \A n \in Object \ Swept, s \in Slot : fields'[n][s] = Freed(fields[n][s])
         /\ \A n \in Swept : fields'[n] = Empty
         /\ \A x \in Root : roots'[x] = Freed(roots[x])
<1>1. Swept \subseteq Managed
  BY MarkedFacts
<1>2. Live' = Live \ Swept
  BY <1>1 DEF MajorGc, Live, Shape, Apart, Managed
<1>3. Swept \subseteq Object
  BY <1>1 DEF Managed, Shape, TypeOK
<1> QED
  BY <1>1, <1>2, <1>3 DEF MajorGc, Managed

LEMMA MajorType ==
  ASSUME Shape, MajorGc, pc' \in {"program", "major"}, careful' \in BOOLEAN
  PROVE  TypeOK'
<1>1. Swept \subseteq Managed \ Marked
  BY MarkedFacts
<1>2. \A v \in Value : Freed(v) \in Value
  BY DEF Freed, Value
<1>3. fields' \in [Object -> [Slot -> Value]]
  BY <1>2 DEF MajorGc, Shape, TypeOK, Empty, Value
<1>4. roots' \in [Root -> Value]
  BY <1>2 DEF MajorGc, Shape, TypeOK
<1>5. dirty' \subseteq Object \cup {Gone}
  BY DEF MajorGc, Shape, TypeOK, Freed
<1>6. bytes' \in Int
  <2>1. BytesOf(Swept \cap old, Swept \cap los) \in Int
    BY BytesType DEF Shape, TypeOK
  <2> QED
    BY <2>1 DEF MajorGc, Shape, TypeOK
<1>7. finalizer' \subseteq Live' /\ pinned' \subseteq Live'
  BY <1>1, MajorValues DEF MajorGc, Shape, TypeOK
<1>8. /\ young' \subseteq Object /\ old' \subseteq Object /\ los' \subseteq Object
      /\ age' \in [Object -> 0..3] /\ promotionAge' \in 1..3
  BY DEF MajorGc, Shape, TypeOK
<1> QED
  BY <1>3, <1>4, <1>5, <1>6, <1>7, <1>8 DEF TypeOK

LEMMA MajorShape ==
  ASSUME Shape, MajorGc, TypeOK'
  PROVE  Shape'
<1>1. Apart'
  BY DEF MajorGc, Shape, Apart
<1>2. FieldsKnown'
  <2> SUFFICES ASSUME NEW n \in Object, NEW s \in Slot
               PROVE  fields'[n][s] \in Live' \cup {NoRef, Gone}
    BY DEF FieldsKnown
  <2>1. fields[n][s] \in Live \cup {NoRef, Gone}
    BY DEF Shape, FieldsKnown
  <2>2. CASE n \in Swept
    BY <2>2, MajorValues DEF Empty
  <2>3. CASE n \notin Swept
    BY <2>1, <2>3, MajorValues DEF Freed
  <2> QED
    BY <2>2, <2>3
<1>3. OthersEmpty'
  <2> SUFFICES ASSUME NEW n \in Object, n \notin young' \cup old', n \notin Swept
               PROVE  fields'[n] = Empty
    BY MajorValues DEF OthersEmpty
  <2>1. \A s \in Slot : fields[n][s] = NoRef
    BY DEF MajorGc, Shape, OthersEmpty, Empty
  <2>2. NoRef \notin Swept
    BY MajorValues, HeapAssumption DEF Shape, TypeOK
  <2>3. fields'[n] = [s \in Slot |-> Freed(fields[n][s])]
    BY DEF MajorGc
  <2> QED
    BY <2>1, <2>2, <2>3 DEF Freed, Empty
<1> QED
  BY <1>1, <1>2, <1>3 DEF Shape

LEMMA MajorRoots ==
  ASSUME Shape, RootsNeverDangle, MajorGc
  PROVE  RootsNeverDangle' /\ roots' = roots
<1>1. \A x \in Root : roots[x] \notin Swept
  BY MarkedFacts
<1>2. \A x \in Root : roots'[x] = roots[x] /\ roots[x] \in Live' \cup {NoRef}
  BY <1>1, MajorValues DEF RootsNeverDangle, Freed
<1>3. roots' = roots
  BY <1>2 DEF MajorGc, Shape, TypeOK
<1> QED
  BY <1>2, <1>3 DEF RootsNeverDangle

(* With an empty young generation and no flags, exactly what is not marked *)
(* is swept, and no live object loses a reference.                         *)
LEMMA MajorKeepsFields ==
  ASSUME Shape, Unflagged, CarefulUseIsSafe, careful, young = {}, MajorGc,
         NEW n \in Live', NEW s \in Slot
  PROVE  /\ fields'[n][s] = fields[n][s] /\ fields[n][s] \in Live' \cup {NoRef}
         /\ Live' = Marked /\ Live = Managed
<1>1. Swept = Managed \ Marked /\ Live = Managed
  BY DEF Swept, Unflagged, Live, Managed
<1>2. Live' = Marked
  BY <1>1, MajorValues, MarkedFacts
<1>3. n \in Live /\ n \in Object /\ n \notin Swept
  BY MajorValues DEF Shape, TypeOK, Live
<1>4. fields[n][s] \in Live \cup {NoRef}
  BY <1>3 DEF CarefulUseIsSafe
<1>5. fields[n][s] \in Managed => fields[n][s] \in Marked
  BY <1>2, MarkedFacts
<1> QED
  BY <1>1, <1>2, <1>3, <1>4, <1>5, MajorValues DEF Freed

LEMMA MajorBytes ==
  ASSUME Shape, BytesAreExact, MajorGc
  PROVE  BytesAreExact'
<1> DEFINE O == Swept \cap old  L == Swept \cap los
<1>1. IsFiniteSet(O) /\ IsFiniteSet(L) /\ IsFiniteSet(young \cup old') /\ IsFiniteSet(los')
  BY HeapAssumption, FS_Subset DEF Shape, TypeOK, MajorGc
<1>2. /\ Cardinality(O) \in Nat /\ Cardinality(L) \in Nat
      /\ Cardinality(young \cup old') \in Nat /\ Cardinality(los') \in Nat
  BY <1>1, FS_CardinalityType
<1>3. Cardinality(young \cup old) = Cardinality(young \cup old') + Cardinality(O)
  <2>1. (young \cup old') \cup O = young \cup old /\ (young \cup old') \cap O = {}
    BY DEF MajorGc, Shape, Apart
  <2>2. Cardinality((young \cup old') \cup O) = Cardinality(young \cup old') + Cardinality(O)
    BY <1>1, <2>1, DisjointUnion
  <2> QED
    BY <2>1, <2>2, Zenon
<1>4. Cardinality(los) = Cardinality(los') + Cardinality(L)
  <2>1. los' \cup L = los /\ los' \cap L = {}
    BY DEF MajorGc
  <2>2. Cardinality(los' \cup L) = Cardinality(los') + Cardinality(L)
    BY <1>1, <2>1, DisjointUnion
  <2> QED
    BY <2>1, <2>2, Zenon
<1>5. bytes' = bytes - BytesOf(O, L) /\ young' = young
  BY DEF MajorGc
<1>6. /\ BytesOf(young \cup old, los) = Cardinality(young \cup old) + 2 * Cardinality(los)
      /\ BytesOf(O, L) = Cardinality(O) + 2 * Cardinality(L)
      /\ BytesOf(young \cup old', los') = Cardinality(young \cup old') + 2 * Cardinality(los')
  BY DEF BytesOf, LargeBytes
<1>7. bytes' = BytesOf(young \cup old', los')
  <2> HIDE DEF O, L
  <2> QED
    BY <1>2, <1>3, <1>4, <1>5, <1>6 DEF BytesAreExact
<1> QED
  BY <1>5, <1>7 DEF BytesAreExact, BytesOf, LargeBytes

LEMMA MajorKeeps ==
  ASSUME IInv, MajorGc, pc' \in {"program", "major"}, careful' = (careful /\ young = {} /\ dirty = {})
  PROVE  IInv'
<1>1. Shape /\ careful' \in BOOLEAN
  BY DEF IInv, Shape, TypeOK
<1>2. Shape'
  BY <1>1, MajorType, MajorShape
<1>3. RootsNeverDangle' /\ BytesAreExact'
  BY MajorRoots, MajorBytes DEF IInv
<1>4. Unflagged'
  BY DEF IInv, Unflagged, MajorGc
<1>5. CarefulUseIsSafe'
  <2> SUFFICES ASSUME careful' PROVE CarefulUseIsSafe!2'
    BY DEF CarefulUseIsSafe
  <2>1. \A n \in Live', s \in Slot :
          fields'[n][s] = fields[n][s] /\ fields[n][s] \in Live' \cup {NoRef}
    BY MajorKeepsFields DEF IInv
  <2>2. dirty' = {} /\ young' = {}
    BY DEF MajorGc
  <2> QED
    BY <2>1, <2>2
<1> QED
  BY <1>2, <1>3, <1>4, <1>5 DEF IInv

(***************************************************************************)
(* The theorems.                                                           *)
(***************************************************************************)
LEMMA ProgramKeeps ==
  ASSUME IInv, Program
  PROVE  IInv'
<1>1. CASE \E n \in Object, x \in Root : AllocYoung(n, x) \/ AllocLarge(n, x)
  BY <1>1, AllocYoungKeeps, AllocLargeKeeps
<1>2. CASE \E x \in Root : Assign(x)
  <2> PICK x \in Root : Assign(x)
    BY <1>2
  <2>1. PICK v \in Writable : roots' = [roots EXCEPT ![x] = v]
    BY DEF Assign
  <2>2. v \in Live \cup {NoRef}
    BY DEF Writable, Known
  <2> QED
    BY <2>1, <2>2, RootsKeep DEF Assign
<1>3. CASE \E n \in Object, s \in Slot, x \in Root : Load(x, n, s)
  <2> PICK n \in Object, s \in Slot, x \in Root : Load(x, n, s)
    BY <1>3
  <2>1. fields[n][s] \in Live \cup {NoRef}
    BY DEF Load, IInv, Shape, FieldsKnown
  <2> QED
    BY <2>1, RootsKeep DEF Load
<1>4. CASE \E n \in Object, s \in Slot : Store(n, s)
  BY <1>4, StoreKeeps
<1>5. CASE (\E n \in Object : SetFlag(n)) \/ Configure
  BY <1>5, SetFlagKeeps, ConfigureKeeps
<1> QED
  BY <1>1, <1>2, <1>3, <1>4, <1>5 DEF Program

LEMMA StepKeeps == IInv /\ [Next]_vars => IInv'
<1> SUFFICES ASSUME IInv, [Next]_vars PROVE IInv'
  OBVIOUS
<1>1. CASE Program
  BY <1>1, ProgramKeeps
<1>2. CASE CollectMinor
  BY <1>2, MinorKeeps DEF CollectMinor
<1>3. CASE BeginFull
  BY <1>3, MinorKeeps DEF BeginFull
<1>4. CASE CollectMajor
  BY <1>4, MajorKeeps DEF CollectMajor
<1>5. CASE EndFull
  BY <1>5, MajorKeeps DEF EndFull
<1>6. CASE UNCHANGED vars
  BY <1>6 DEF vars, heapVars, IInv, Shape, TypeOK, FieldsKnown, Apart, OthersEmpty, Live, Unflagged,
     RootsNeverDangle, CarefulUseIsSafe, BytesAreExact
<1> QED
  BY <1>1, <1>2, <1>3, <1>4, <1>5, <1>6 DEF Next, Collect

LEMMA Invariance == Spec => []IInv
BY InitEstablishes, StepKeeps, PTL DEF Spec

(* Every variable keeps its type, for any number of objects, slots and     *)
(* roots and any thresholds.                                               *)
THEOREM TypeCorrect == Spec => []TypeOK
<1>1. IInv => TypeOK
  BY DEF IInv, Shape
<1> QED
  BY <1>1, Invariance, PTL

(* No collection leaves a root that leads to a freed box.                  *)
THEOREM RootsAreSafe == Spec => []RootsNeverDangle
<1>1. IInv => RootsNeverDangle
  BY DEF IInv
<1> QED
  BY <1>1, Invariance, PTL

(* No reference of a live object leads to a freed box, and no old-to-young *)
(* one is missing in the card table, as long as the heap is used with care.*)
THEOREM CareIsEnough == Spec => []CarefulUseIsSafe
<1>1. IInv => CarefulUseIsSafe
  BY DEF IInv
<1> QED
  BY <1>1, Invariance, PTL

(* The byte count that the thresholds are compared with never drifts.      *)
THEOREM BytesNeverDrift == Spec => []BytesAreExact
<1>1. IInv => BytesAreExact
  BY DEF IInv
<1> QED
  BY <1>1, Invariance, PTL

(***************************************************************************)
(* A collection is invisible: what is reachable before and after it is the *)
(* least closed set for references that are the same on all that is kept.  *)
(***************************************************************************)
Least(F, S, W) ==
    {n \in W : \A C \in SUBSET W :
                 S \subseteq C /\ (\A m \in C, s \in Slot : F[m][s] \in W => F[m][s] \in C) => n \in C}

LEMMA LeastAgrees ==
  ASSUME NEW F, NEW G, NEW W, NEW V \in SUBSET W, NEW S \in SUBSET V,
         \A n \in V, s \in Slot : G[n][s] = F[n][s] /\ (F[n][s] \in W => F[n][s] \in V)
  PROVE  Least(G, S, V) = Least(F, S, W)
<1>1. ASSUME NEW n \in Least(F, S, W) PROVE n \in Least(G, S, V)
  <2>1. n \in V
    BY <1>1 DEF Least
  <2>2. ASSUME NEW C \in SUBSET V, S \subseteq C,
               \A m \in C, s \in Slot : G[m][s] \in V => G[m][s] \in C
        PROVE  n \in C
    <3>1. \A m \in C, s \in Slot : F[m][s] \in W => F[m][s] \in C
      BY <2>2
    <3>2. C \in SUBSET W
      OBVIOUS
    <3> QED
      BY <1>1, <2>2, <3>1, <3>2 DEF Least
  <2> QED
    BY <2>1, <2>2 DEF Least
<1>2. ASSUME NEW n \in Least(G, S, V) PROVE n \in Least(F, S, W)
  <2>1. n \in V
    BY <1>2 DEF Least
  <2>2. ASSUME NEW C \in SUBSET W, S \subseteq C,
               \A m \in C, s \in Slot : F[m][s] \in W => F[m][s] \in C
        PROVE  n \in C
    <3>1. C \cap V \in SUBSET V /\ S \subseteq C \cap V
      BY <2>2
    <3>2. \A m \in C \cap V, s \in Slot : G[m][s] \in V => G[m][s] \in C \cap V
      BY <2>2
    <3> QED
      BY <1>2, <3>1, <3>2 DEF Least
  <2> QED
    BY <2>1, <2>2 DEF Least
<1> QED
  BY <1>1, <1>2

LEMMA SameView ==
  ASSUME Shape, TypeOK', RootsNeverDangle', roots' = roots, Live' \subseteq Live,
         \A n \in Live', s \in Slot : fields'[n][s] = fields[n][s] /\ fields[n][s] \in Live' \cup {NoRef}
  PROVE  Reachable' = Reachable /\ View' = View
<1> DEFINE S == FromRoots(Live)
<1>1. NoRef \notin Live /\ Live' \subseteq Object
  BY HeapAssumption DEF Shape, TypeOK, Live
<1>2. FromRoots(Live)' = S /\ S \in SUBSET Live'
  BY <1>1 DEF FromRoots, RootsNeverDangle
<1>3. Reachable = Least(fields, S, Live) /\ Reachable' = Least(fields', S, Live')
  BY <1>2 DEF Reachable, Reach, HasChildren, Least
<1>4. Reachable' = Reachable
  <2> HIDE DEF S
  <2>1. \A n \in Live', s \in Slot : fields[n][s] \in Live => fields[n][s] \in Live'
    BY <1>1
  <2> QED
    BY <1>2, <1>3, <2>1, LeastAgrees
<1>5. \A n \in Reachable : fields'[n] = fields[n]
  <2> SUFFICES ASSUME NEW n \in Reachable PROVE fields'[n] = fields[n]
    OBVIOUS
  <2>1. n \in Live'
    BY <1>4 DEF Reachable, Reach
  <2>2. fields'[n] \in [Slot -> Value] /\ fields[n] \in [Slot -> Value']
    BY <1>1, <2>1 DEF Shape, TypeOK, Value
  <2> QED
    BY <2>1, <2>2
<1> QED
  BY <1>4, <1>5 DEF View

LEMMA CollectKeepsView ==
  ASSUME IInv, IInv', Collect, careful'
  PROVE  Reachable' = Reachable /\ View' = View
<1>1. Shape /\ Unflagged /\ CarefulUseIsSafe /\ RootsNeverDangle /\ TypeOK' /\ RootsNeverDangle'
  BY DEF IInv, Shape
<1>2. CASE CollectMinor \/ BeginFull
  <2>1. MinorGc /\ careful
    BY <1>2 DEF CollectMinor, BeginFull
  <2>2. Live' \subseteq Live
    BY <1>1, <2>1, MinorValues, SurvivorFacts DEF Live
  <2> QED
    BY <1>1, <2>1, <2>2, MinorKeepsFields, MinorRoots, SameView
<1>3. CASE CollectMajor \/ EndFull
  <2>1. MajorGc /\ careful /\ young = {}
    BY <1>3 DEF CollectMajor, EndFull
  <2>2. Live' \subseteq Live
    BY <1>1, <2>1, MajorValues
  <2> QED
    BY <1>1, <2>1, <2>2, MajorKeepsFields, MajorRoots, SameView
<1> QED
  BY <1>2, <1>3 DEF Collect

(* A collection under careful use does not change what the roots lead to.  *)
THEOREM InvisibleCollections == Spec => CollectionsAreInvisible
<1>1. IInv /\ IInv' /\ [Next]_vars => [Collect /\ careful' => View' = View]_vars
  BY CollectKeepsView
<1> QED
  BY <1>1, Invariance, PTL DEF Spec, CollectionsAreInvisible

(* A careful gc_full leaves nothing in the heap that is not reachable.     *)
THEOREM FullIsComplete == Spec => FullLeavesNoGarbage
<1>1. ASSUME IInv, IInv', EndFull, careful' PROVE Live' = Reachable'
  <2>1. /\ MajorGc /\ careful /\ young = {} /\ Collect
        /\ Shape /\ Unflagged /\ CarefulUseIsSafe
    BY <1>1 DEF EndFull, Collect, IInv
  <2>2. Swept = Managed \ Marked /\ Live = Managed
    BY <2>1 DEF Swept, Unflagged, Live, Managed
  <2>3. Live' = Marked
    BY <2>1, <2>2, MajorValues, MarkedFacts
  <2>4. Marked = Reachable
    BY <2>2 DEF Marked, Reachable
  <2> QED
    BY <1>1, <2>1, <2>3, <2>4, CollectKeepsView
<1>2. IInv /\ IInv' /\ [Next]_vars => [EndFull /\ careful' => Live' = Reachable']_vars
  BY <1>1
<1> QED
  BY <1>2, Invariance, PTL DEF Spec, FullLeavesNoGarbage
=============================================================================
