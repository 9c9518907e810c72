---------------------------- MODULE Modules_proofs ----------------------------
(***************************************************************************)
(* What Modules promises, for any files, names and search paths and with   *)
(* no bound on what a program does: loads nest, the cache is honest, a     *)
(* file has one complete module, and safe mode holds.                      *)
(***************************************************************************)
EXTENDS Modules, SequenceTheorems, FiniteSetTheorems, TLAPS

Module == [key : Keys, filled : BOOLEAN]

LoaderTypes ==
  /\ safe \in BOOLEAN
  /\ modules \in Seq(Module)
  /\ cache \in [Keys -> Nat]
  /\ \E S : loads \in Seq(S)
  /\ \A i \in DOMAIN loads : loads[i].key \in Keys /\ loads[i].module \in Nat \ {None}

(* A key is cached as a module that has been allocated.                    *)
CachedIsAllocated == \A k \in Keys : cache[k] # None => cache[k] \in DOMAIN modules

(* A complete module is the one its file is cached as: the next import of  *)
(* the file finds it, so that the file is not executed again.              *)
FilledIsCached ==
  \A i \in DOMAIN modules : modules[i].filled => cache[modules[i].key] = i

Inv ==
  /\ LoaderTypes /\ LoadsAreTracked /\ GlobalsNest
  /\ CacheIsHonest /\ CachedIsAllocated /\ FilledIsCached /\ SafeModeHolds

-----------------------------------------------------------------------------
(* The least element of a set of numbers.                                  *)
LEMMA MinIs ==
  ASSUME NEW N \in Nat, NEW S \in SUBSET (0..N), S # {}
  PROVE  Min(S) \in S
<1> DEFINE Below == {u \in 0..N : \A s \in S : u <= s}
           c == Cardinality(Below)
<1>1. IsFiniteSet(Below) /\ c \in Nat
  <2>1. IsFiniteSet(0..N)
    BY FS_Interval
  <2> QED
    BY <2>1, FS_Subset, FS_CardinalityType
<1>2. ASSUME NEW u \in Below
      PROVE  u <= c - 1
  <2>1. 0..u \subseteq Below
    OBVIOUS
  <2>2. Cardinality(0..u) = u - 0 + 1
    BY FS_Interval
  <2>3. Cardinality(0..u) <= c
    BY <1>1, <2>1, FS_Subset
  <2> QED
    BY <1>1, <2>2, <2>3
<1>3. c >= 1
  <2>1. 0 \in Below
    OBVIOUS
  <2>2. 0 <= c - 1
    BY <1>2, <2>1
  <2> QED
    BY <1>1, <2>2
<1>4. \A s \in S : c - 1 <= s
  <2>1. Below \subseteq 0..(c - 1)
    BY <1>1, <1>2
  <2> HIDE DEF Below, c
  <2>2. c - 1 \in Nat
    BY <1>1, <1>3
  <2>3. IsFiniteSet(0..(c - 1)) /\ Cardinality(0..(c - 1)) = c - 1 - 0 + 1
    BY <2>2, FS_Interval
  <2>4. Cardinality(0..(c - 1)) = Cardinality(Below)
    BY <1>1, <2>3 DEF c
  <2>5. Below = 0..(c - 1)
    BY <2>1, <2>3, <2>4, FS_Subset
  <2>6. c - 1 \in Below
    BY <2>2, <2>5
  <2> QED
    BY <2>6 DEF Below
<1>5. c - 1 \in S
  <2> SUFFICES ASSUME c - 1 \notin S
               PROVE  FALSE
    OBVIOUS
  <2>1. \A s \in S : c <= s
    <3> SUFFICES ASSUME NEW s \in S
                 PROVE  c <= s
      OBVIOUS
    <3>1. c - 1 <= s /\ s # c - 1 /\ s \in Int
      BY <1>4
    <3> HIDE DEF c
    <3> QED
      BY <1>1, <3>1
  <2>2. c \in Below
    <3>1. PICK s \in S : TRUE
      OBVIOUS
    <3>2. s \in 0..N /\ c <= s
      BY <2>1
    <3> HIDE DEF c
    <3> QED
      BY <1>1, <2>1, <3>2
  <2>3. c <= c - 1
    BY <1>2, <2>2
  <2> QED
    BY <1>1, <2>3
<1>6. \E x \in S : \A y \in S : x <= y
  BY <1>4, <1>5
<1> QED
  BY <1>6 DEF Min

-----------------------------------------------------------------------------
(* What a name stands for is a key, and in safe mode one of the standard   *)
(* library or an embedded module.                                          *)
LEMMA KeyIs ==
  ASSUME safe \in BOOLEAN, NEW n \in Names, NEW std \in BOOLEAN, Key(n, std) # NoFile
  PROVE  /\ Key(n, std) \in Keys
         /\ safe => \/ Key(n, std) \in {Files[StdlibDir][x] : x \in Names}
                    \/ Key(n, std) \in {EmbeddedPath(x) : x \in Embedded}
<1> DEFINE roots == SearchRoots(std)
           hits == {i \in DOMAIN roots : Files[roots[i]][n] # NoFile}
<1>1. /\ roots \in Seq(Roots)
      /\ safe => \A i \in DOMAIN roots : roots[i] = StdlibDir
  BY ConstantsAssumption DEF SearchRoots
<1>2. Resolve(n, std) = IF hits = {} THEN NoFile ELSE Files[roots[Min(hits)]][n]
  BY DEF Resolve, FirstOf
<1> HIDE DEF roots
<1>3. ASSUME hits # {}
      PROVE  Min(hits) \in hits
  <2>1. Len(roots) \in Nat /\ hits \subseteq 0..Len(roots)
    BY <1>1, LenProperties
  <2> QED
    BY <1>3, <2>1, MinIs
<1>4. CASE Resolve(n, std) # NoFile
  <2>1. hits # {} /\ Min(hits) \in hits
    BY <1>2, <1>3, <1>4
  <2> DEFINE r == roots[Min(hits)]
  <2>2. r \in Roots /\ (safe => r = StdlibDir)
    BY <1>1, <2>1, ElementOfSeq
  <2>3. Key(n, std) = Files[r][n] /\ Files[r][n] # NoFile
    BY <1>2, <1>4, <2>1 DEF Key
  <2> HIDE DEF r
  <2>4. Key(n, std) \in Paths
    BY <2>2, <2>3, <1>4 DEF Paths
  <2> QED
    BY <2>2, <2>3, <2>4 DEF Keys
<1>5. CASE Resolve(n, std) = NoFile
  BY <1>5 DEF Key, Keys
<1> QED
  BY <1>4, <1>5

(* No load, or a sequence of loads with a last one.                        *)
LEMMA LoadsAre ==
  ASSUME LoaderTypes
  PROVE  /\ Len(loads) \in Nat /\ DOMAIN loads = 1..Len(loads)
         /\ loads # <<>> => Len(loads) # 0 /\ Load = loads[Len(loads)]
<1>1. PICK S : loads \in Seq(S)
  BY DEF LoaderTypes
<1> QED
  BY <1>1, LenProperties, EmptySeq DEF Load, Last

(* There are not more loads than files that are loading.                   *)
LEMMA LoadsAreFew ==
  ASSUME LoaderTypes, LoadsAreTracked
  PROVE  Cardinality(loading) \in Nat /\ Len(loads) <= Cardinality(loading)
<1> DEFINE D == 1..Len(loads)
           f == [i \in D |-> loads[i].key]
<1>1. Len(loads) \in Nat /\ DOMAIN loads = D
  BY LoadsAre
<1>2. IsFiniteSet(D) /\ Cardinality(D) = Len(loads)
  <2>1. \A n \in Nat : IsFiniteSet(1..n) /\ Cardinality(1..n) = n
    BY FS_Interval
  <2> QED
    BY <1>1, <2>1
<1>3. loading = {loads[i].key : i \in D}
  BY <1>1 DEF LoadsAreTracked, Loading
<1>4. f \in Surjection(D, loading) /\ f \in Injection(D, loading)
  BY <1>1, <1>3 DEF LoadsAreTracked, Surjection, Injection, IsInjective
<1>5. IsFiniteSet(loading)
  BY <1>2, <1>4, FS_Surjection
<1> QED
  BY <1>2, <1>4, <1>5, FS_Injection, FS_CardinalityType

(* The loads below the last one.                                           *)
LEMMA FrontIs ==
  ASSUME LoaderTypes, loads # <<>>, loads' = Front(loads)
  PROVE  /\ \E S : loads' \in Seq(S)
         /\ Len(loads') = Len(loads) - 1 /\ DOMAIN loads' = 1..(Len(loads) - 1)
         /\ \A i \in DOMAIN loads' : loads'[i] = loads[i]
<1>1. PICK S : loads \in Seq(S)
  BY DEF LoaderTypes
<1> DEFINE n == Len(loads)
<1>2. n \in Nat \ {0} /\ DOMAIN loads = 1..n /\ \A i \in 1..n : loads[i] \in S
  BY <1>1, LenProperties, EmptySeq, ElementOfSeq
<1>3. loads' = SubSeq(loads, 1, n - 1)
  BY DEF Front
<1> HIDE DEF n
<1>4. /\ loads' \in Seq(S) /\ Len(loads') = n - 1
      /\ \A i \in 1..(n - 1) : loads'[i] = loads[i]
  <2>1. \A i \in 1..(n - 1) : loads[i] \in S
    BY <1>2
  <2>2. /\ SubSeq(loads, 1, n - 1) \in Seq(S)
        /\ Len(SubSeq(loads, 1, n - 1)) = IF 1 <= n - 1 THEN n - 1 - 1 + 1 ELSE 0
        /\ \A i \in 1..(n - 1 - 1 + 1) : SubSeq(loads, 1, n - 1)[i] = loads[1 + i - 1]
    BY <1>2, <2>1, SubSeqProperties
  <2> QED
    BY <1>2, <1>3, <2>2
<1>5. DOMAIN loads' = 1..(n - 1)
  BY <1>4, LenProperties
<1> QED
  BY <1>4, <1>5 DEF n

(* One module more, empty.                                                 *)
LEMMA AllocatedIs ==
  ASSUME LoaderTypes, NEW key \in Keys, modules' = Allocated(key)
  PROVE  /\ modules' \in Seq(Module) /\ Len(modules) \in Nat
         /\ DOMAIN modules = 1..Len(modules) /\ DOMAIN modules' = 1..Len(modules) + 1
         /\ \A i \in DOMAIN modules : modules'[i] = modules[i]
         /\ modules'[Len(modules) + 1].key = key /\ ~modules'[Len(modules) + 1].filled
<1> DEFINE new == [key |-> key, filled |-> FALSE]
<1>1. modules \in Seq(Module) /\ new \in Module
  BY DEF LoaderTypes, Module
<1>2. modules' = Append(modules, new)
  BY DEF Allocated
<1> HIDE DEF new
<1>3. /\ modules' \in Seq(Module) /\ Len(modules') = Len(modules) + 1
      /\ \A i \in 1..Len(modules) : modules'[i] = modules[i]
      /\ modules'[Len(modules) + 1] = new
  BY <1>1, <1>2, AppendProperties
<1>4. /\ Len(modules) \in Nat /\ DOMAIN modules = 1..Len(modules)
      /\ DOMAIN modules' = 1..Len(modules')
  BY <1>1, <1>3, LenProperties
<1> QED
  BY <1>3, <1>4 DEF new

-----------------------------------------------------------------------------
LEMMA InitInv == Init => Inv
<1> SUFFICES ASSUME Init
             PROVE  Inv
  OBVIOUS
<1>1. /\ safe \in BOOLEAN /\ libs = {} /\ modules = <<>> /\ loading = {} /\ loads = <<>>
      /\ cache = [k \in Keys |-> None] /\ globals = Main
  BY DEF Init
<1>2. /\ modules \in Seq(Module) /\ loads \in Seq({})
      /\ DOMAIN modules = {} /\ DOMAIN loads = {} /\ Len(loads) = 0
  BY <1>1, EmptySeq
<1>3. LoaderTypes
  BY <1>1, <1>2 DEF LoaderTypes, None
<1>4. LoadsAreTracked
  BY <1>1, <1>2, ConstantsAssumption DEF LoadsAreTracked, Loading
<1>5. GlobalsNest
  BY <1>1, <1>2 DEF GlobalsNest
<1>6. CacheIsHonest /\ CachedIsAllocated /\ FilledIsCached
  BY <1>1, <1>2 DEF CacheIsHonest, CachedIsAllocated, FilledIsCached
<1>7. SafeModeHolds
  BY <1>1, <1>2 DEF SafeModeHolds
<1> QED
  BY <1>3, <1>4, <1>5, <1>6, <1>7 DEF Inv

(* What the interpreter does beside imports leaves the loader as it is.    *)
LEMMA OthersKeepInv == Inv /\ UNCHANGED <<originVars, loaderVars>> => Inv'
  BY DEF Inv, originVars, loaderVars, resolverVars, LoaderTypes, LoadsAreTracked, Loading, GlobalsNest,
         Load, CacheIsHonest, CachedIsAllocated, FilledIsCached, SafeModeHolds

(* A library is loaded: in safe mode the import had the prefix, and the    *)
(* name is no file of the standard library and not embedded.               *)
LEMMA LibraryKeepsInv ==
  ASSUME Inv, NEW n \in Names, NEW std \in BOOLEAN, ImportLibrary(n, std)
  PROVE  Inv'
<1> USE DEF Inv
<1> DEFINE lib == [name |-> n, std |-> std]
<1>1. /\ safe' = safe /\ libs' = libs \cup {lib} /\ UNCHANGED loaderVars
      /\ Key(n, std) = NoFile /\ (safe => std)
  BY DEF ImportLibrary
<1>2. UNCHANGED <<modules, cache, loading, loads, globals>>
  BY <1>1 DEF loaderVars, resolverVars
<1>3. n \notin Embedded /\ Resolve(n, std) = NoFile
  BY <1>1, ConstantsAssumption DEF Key
<1>4. ASSUME safe
      PROVE  lib.std /\ Files[StdlibDir][lib.name] = NoFile /\ lib.name \notin Embedded
  <2> DEFINE roots == <<StdlibDir>>
             hits == {i \in DOMAIN roots : Files[roots[i]][n] # NoFile}
  <2>1. SearchRoots(std) = roots
    BY <1>4 DEF SearchRoots
  <2>2. NoFile = IF hits = {} THEN NoFile ELSE Files[roots[Min(hits)]][n]
    BY <1>3, <2>1 DEF Resolve, FirstOf
  <2>3. DOMAIN roots = 1..1 /\ roots[1] = StdlibDir
    OBVIOUS
  <2> HIDE DEF roots
  <2>4. hits = {}
    <3> SUFFICES ASSUME hits # {}
                 PROVE  FALSE
      OBVIOUS
    <3>1. Min(hits) \in hits
      <4>1. hits \subseteq 0..1
        BY <2>3
      <4> HIDE DEF hits
      <4> QED
        BY <4>1, MinIs
    <3> QED
      BY <2>2, <3>1
  <2> QED
    BY <1>1, <1>3, <1>4, <2>3, <2>4
<1> HIDE DEF lib
<1>5. SafeModeHolds'
  BY <1>1, <1>2, <1>4 DEF SafeModeHolds
<1> QED
  BY <1>2, <1>1, <1>5 DEF LoaderTypes, LoadsAreTracked, Loading, GlobalsNest, Load,
                         CacheIsHonest, CachedIsAllocated, FilledIsCached

(* A file that cannot be compiled leaves an empty module behind, which is  *)
(* not cached.                                                             *)
LEMMA BrokenKeepsInv ==
  ASSUME Inv, NEW n \in Names, NEW std \in BOOLEAN, ImportBroken(n, std)
  PROVE  Inv'
<1> USE DEF Inv
<1> DEFINE key == Key(n, std)
           new == Len(modules) + 1
<1>1. /\ modules' = Allocated(key) /\ UNCHANGED <<safe, libs, cache, loading, loads, globals>>
      /\ key # NoFile
  BY DEF ImportBroken, IsNew, originVars
<1>2. /\ key \in Keys
      /\ safe => \/ key \in {Files[StdlibDir][x] : x \in Names}
                 \/ key \in {EmbeddedPath(x) : x \in Embedded}
  BY <1>1, KeyIs DEF LoaderTypes
<1> HIDE DEF key
<1>3. /\ modules' \in Seq(Module) /\ Len(modules) \in Nat
      /\ DOMAIN modules = 1..Len(modules) /\ DOMAIN modules' = 1..Len(modules) + 1
      /\ \A i \in DOMAIN modules : modules'[i] = modules[i]
      /\ modules'[new].key = key /\ ~modules'[new].filled
  BY <1>1, <1>2, AllocatedIs
<1>4. \A i \in DOMAIN modules' : i \in DOMAIN modules \/ i = new
  BY <1>3
<1> HIDE DEF new
<1>5. LoaderTypes'
  BY <1>1, <1>3 DEF LoaderTypes
<1>6. LoadsAreTracked' /\ GlobalsNest'
  BY <1>1 DEF LoadsAreTracked, Loading, GlobalsNest, Load
<1>7. CacheIsHonest'
  BY <1>1, <1>3 DEF CacheIsHonest, CachedIsAllocated, LoaderTypes
<1>8. CachedIsAllocated'
  BY <1>1, <1>3 DEF CachedIsAllocated
<1>9. FilledIsCached'
  BY <1>1, <1>3, <1>4 DEF FilledIsCached
<1>10. SafeModeHolds'
  <2> SUFFICES ASSUME safe, NEW i \in DOMAIN modules'
               PROVE  \/ modules'[i].key \in {Files[StdlibDir][x] : x \in Names}
                      \/ modules'[i].key \in {EmbeddedPath(x) : x \in Embedded}
    BY <1>1 DEF SafeModeHolds
  <2>1. CASE i \in DOMAIN modules
    BY <1>3, <2>1 DEF SafeModeHolds
  <2>2. CASE i = new
    BY <1>2, <1>3, <2>2
  <2> QED
    BY <1>4, <2>1, <2>2
<1> QED
  BY <1>5, <1>6, <1>7, <1>8, <1>9, <1>10

(* A module is executed: its file is in no other load, or it was cached.   *)
LEMMA ExecutesKeepsInv ==
  ASSUME Inv, NEW n \in Names, NEW std \in BOOLEAN, ImportExecutes(n, std)
  PROVE  Inv'
<1> USE DEF Inv
<1> DEFINE key == Key(n, std)
           new == Len(modules) + 1
           top == Len(loads) + 1
           load == [key |-> key, module |-> new, saved |-> globals, depth |-> Len(frames)]
<1>1. /\ modules' = Allocated(key) /\ safe' = safe /\ libs' = libs
      /\ cache' = [cache EXCEPT ![key] = new] /\ loading' = loading \cup {key}
      /\ loads' = Append(loads, load) /\ globals' = new
      /\ key # NoFile /\ cache[key] = None /\ ~TooDeep
  BY DEF ImportExecutes, IsNew, IsCached, originVars
<1>2. /\ key \in Keys
      /\ safe => \/ key \in {Files[StdlibDir][x] : x \in Names}
                 \/ key \in {EmbeddedPath(x) : x \in Embedded}
  BY <1>1, KeyIs DEF LoaderTypes
<1>3. /\ load.key = key /\ load.module = new /\ load.saved = globals
  OBVIOUS
<1> HIDE DEF key, load
<1>4. /\ modules' \in Seq(Module) /\ Len(modules) \in Nat
      /\ DOMAIN modules = 1..Len(modules) /\ DOMAIN modules' = 1..Len(modules) + 1
      /\ \A i \in DOMAIN modules : modules'[i] = modules[i]
      /\ modules'[new].key = key /\ ~modules'[new].filled
  BY <1>1, <1>2, AllocatedIs
<1>5. new \in Nat \ {0} /\ new \in DOMAIN modules' /\ new \notin DOMAIN modules
      /\ \A i \in DOMAIN modules' : i \in DOMAIN modules \/ i = new
  BY <1>4
<1>6. /\ \E S : loads' \in Seq(S)
      /\ Len(loads) \in Nat /\ DOMAIN loads = 1..Len(loads) /\ DOMAIN loads' = 1..top
      /\ Len(loads') = top /\ loads'[top] = load
      /\ \A i \in DOMAIN loads : loads'[i] = loads[i]
  <2>1. PICK S : loads \in Seq(S)
    BY DEF LoaderTypes
  <2> DEFINE T == S \cup {load}
  <2>2. loads \in Seq(T) /\ load \in T
    BY <2>1, SeqMonotonic
  <2> HIDE DEF T
  <2>3. /\ loads' \in Seq(T) /\ Len(loads') = top /\ loads'[top] = load
        /\ \A i \in 1..Len(loads) : loads'[i] = loads[i]
    BY <1>1, <2>2, AppendProperties
  <2> QED
    BY <2>2, <2>3, LenProperties
<1>7. \A i \in DOMAIN loads' : i \in DOMAIN loads \/ i = top
  BY <1>6
<1>8. top \in Nat \ {0} /\ top \in DOMAIN loads' /\ top \notin DOMAIN loads
  BY <1>6
<1> HIDE DEF new, top
<1>9. \A i \in DOMAIN loads : loads[i].key # key
  <2> SUFFICES ASSUME NEW i \in DOMAIN loads
               PROVE  loads[i].key # key
    OBVIOUS
  <2>1. cache[loads[i].key] = loads[i].module /\ loads[i].module # None
    BY DEF CacheIsHonest, LoaderTypes
  <2> QED
    BY <1>1, <2>1
<1>10. key \notin loading
  BY <1>9 DEF LoadsAreTracked, Loading
<1>11. LoaderTypes'
  BY <1>1, <1>2, <1>3, <1>4, <1>5, <1>6, <1>7 DEF LoaderTypes, None
<1>12. LoadsAreTracked'
  <2>1. loading' = {loads'[i].key : i \in DOMAIN loads'}
    <3>1. loading = {loads[i].key : i \in DOMAIN loads}
      BY DEF LoadsAreTracked, Loading
    <3>2. DOMAIN loads' = DOMAIN loads \cup {top}
      BY <1>6 DEF top
    <3> QED
      BY <1>1, <1>3, <1>6, <3>1, <3>2
  <2>2. Len(loads') <= MaxImportDepth
    <3>1. Cardinality(loading) \in Nat /\ Len(loads) <= Cardinality(loading)
      BY LoadsAreFew
    <3>2. Cardinality(loading) < MaxImportDepth
      BY <1>1, <3>1, ConstantsAssumption DEF TooDeep
    <3> QED
      BY <1>6, <3>1, <3>2, ConstantsAssumption DEF top
  <2>3. \A i, j \in DOMAIN loads' : i # j => loads'[i].key # loads'[j].key
    BY <1>3, <1>6, <1>7, <1>9 DEF LoadsAreTracked
  <2> QED
    BY <2>1, <2>2, <2>3 DEF LoadsAreTracked, Loading
<1>13. GlobalsNest'
  <2>1. loads' # <<>> /\ Load' = load
    <3>1. loads' # <<>>
      BY <1>6, <1>8
    <3> QED
      BY <1>6, <3>1 DEF Load, Last
  <2>2. \A i \in DOMAIN loads' :
          loads'[i].saved = IF i = 1 THEN Main ELSE loads'[i - 1].module
    <3> SUFFICES ASSUME NEW i \in DOMAIN loads'
                 PROVE  loads'[i].saved = IF i = 1 THEN Main ELSE loads'[i - 1].module
      OBVIOUS
    <3>1. CASE i \in DOMAIN loads
      <4>1. i # 1 => i - 1 \in DOMAIN loads
        BY <1>6, <3>1
      <4> QED
        BY <1>6, <3>1, <4>1 DEF GlobalsNest
    <3>2. CASE i = top
      <4>1. i = 1 <=> loads = <<>>
        <5>1. PICK S : loads \in Seq(S)
          BY DEF LoaderTypes
        <5> QED
          BY <1>6, <3>2, <5>1, EmptySeq DEF top
      <4>2. i # 1 => i - 1 = Len(loads) /\ Len(loads) \in DOMAIN loads /\ Load = loads[Len(loads)]
        BY <1>6, <3>2, <4>1, LoadsAre DEF top
      <4> QED
        BY <1>3, <1>6, <3>2, <4>1, <4>2 DEF GlobalsNest
    <3> QED
      BY <1>7, <3>1, <3>2
  <2> QED
    BY <1>1, <1>3, <2>1, <2>2 DEF GlobalsNest
<1>14. CacheIsHonest'
  <2>1. \A k \in Keys : cache'[k] # None =>
          /\ modules'[cache'[k]].key = k
          /\ modules'[cache'[k]].filled <=> k \notin loading'
    <3> SUFFICES ASSUME NEW k \in Keys, cache'[k] # None
                 PROVE  /\ modules'[cache'[k]].key = k
                        /\ modules'[cache'[k]].filled <=> k \notin loading'
      OBVIOUS
    <3>1. CASE k = key
      BY <1>1, <1>2, <1>4, <3>1 DEF LoaderTypes
    <3>2. CASE k # key
      <4>1. cache'[k] = cache[k] /\ cache[k] \in DOMAIN modules
        BY <1>1, <3>2 DEF LoaderTypes, CachedIsAllocated
      <4> QED
        BY <1>1, <1>4, <3>2, <4>1 DEF CacheIsHonest
    <3> QED
      BY <3>1, <3>2
  <2>2. \A i \in DOMAIN loads' : cache'[loads'[i].key] = loads'[i].module
    BY <1>1, <1>2, <1>3, <1>6, <1>7, <1>9 DEF CacheIsHonest, LoaderTypes
  <2> QED
    BY <2>1, <2>2 DEF CacheIsHonest
<1>15. CachedIsAllocated'
  BY <1>1, <1>4, <1>5 DEF CachedIsAllocated, LoaderTypes
<1>16. FilledIsCached'
  <2> SUFFICES ASSUME NEW i \in DOMAIN modules', modules'[i].filled
               PROVE  cache'[modules'[i].key] = i
    BY DEF FilledIsCached
  <2>1. i \in DOMAIN modules /\ modules'[i] = modules[i]
    BY <1>4, <1>5
  <2>2. cache[modules[i].key] = i /\ i # None
    BY <1>4, <2>1 DEF FilledIsCached, None
  <2>3. modules[i].key # key
    BY <1>1, <2>2
  <2> QED
    BY <1>1, <2>1, <2>2, <2>3 DEF LoaderTypes
<1>17. SafeModeHolds'
  <2> SUFFICES ASSUME safe, NEW i \in DOMAIN modules'
               PROVE  \/ modules'[i].key \in {Files[StdlibDir][x] : x \in Names}
                      \/ modules'[i].key \in {EmbeddedPath(x) : x \in Embedded}
    BY <1>1 DEF SafeModeHolds
  <2>1. CASE i \in DOMAIN modules
    BY <1>4, <2>1 DEF SafeModeHolds
  <2>2. CASE i = new
    BY <1>2, <1>4, <2>2
  <2> QED
    BY <1>5, <2>1, <2>2
<1> QED
  BY <1>11, <1>12, <1>13, <1>14, <1>15, <1>16, <1>17

(* However a load ends, those below it are as before it began.             *)
LEMMA EndLoadKeeps ==
  ASSUME Inv, EndLoad
  PROVE  /\ loads # <<>> /\ Load \in {loads[i] : i \in DOMAIN loads}
         /\ DOMAIN loads' \subseteq DOMAIN loads
         /\ \A i \in DOMAIN loads' : loads'[i] = loads[i] /\ loads[i].key # Load.key
         /\ loading' = loading \ {Load.key} /\ Load.key \in loading
         /\ (\E S : loads' \in Seq(S))
         /\ LoadsAreTracked' /\ GlobalsNest'
<1> USE DEF Inv
<1> DEFINE n == Len(loads)
<1>1. /\ loads # <<>> /\ loads' = Front(loads) /\ loading' = loading \ {Load.key}
      /\ globals' = Load.saved
  BY DEF EndLoad, Restored
<1>2. n \in Nat \ {0} /\ DOMAIN loads = 1..n /\ Load = loads[n]
  BY <1>1, LoadsAre
<1>3. /\ \E S : loads' \in Seq(S)
      /\ Len(loads') = n - 1 /\ DOMAIN loads' = 1..(n - 1)
      /\ \A i \in DOMAIN loads' : loads'[i] = loads[i]
  BY <1>1, FrontIs
<1> HIDE DEF n
<1>4. /\ n \in DOMAIN loads /\ DOMAIN loads = DOMAIN loads' \cup {n} /\ n \notin DOMAIN loads'
  BY <1>2, <1>3
<1>5. \A i \in DOMAIN loads' : loads[i].key # Load.key
  BY <1>2, <1>4 DEF LoadsAreTracked
<1>6. LoadsAreTracked'
  <2>1. loading = {loads[i].key : i \in DOMAIN loads}
    BY DEF LoadsAreTracked, Loading
  <2>2. loading' = {loads'[i].key : i \in DOMAIN loads'}
    BY <1>1, <1>2, <1>3, <1>4, <1>5, <2>1
  <2>3. Len(loads') <= MaxImportDepth
    BY <1>2, <1>3, ConstantsAssumption DEF LoadsAreTracked, n
  <2>4. \A i, j \in DOMAIN loads' : i # j => loads'[i].key # loads'[j].key
    BY <1>3, <1>4 DEF LoadsAreTracked
  <2> QED
    BY <2>2, <2>3, <2>4 DEF LoadsAreTracked, Loading
<1>7. GlobalsNest'
  <2>1. globals' = IF n = 1 THEN Main ELSE loads[n - 1].module
    BY <1>1, <1>2, <1>4 DEF GlobalsNest
  <2>2. loads' = <<>> <=> n = 1
    BY <1>2, <1>3, EmptySeq
  <2>3. n # 1 => Load' = loads[n - 1]
    <3>1. n # 1 => n - 1 \in DOMAIN loads'
      BY <1>2, <1>3
    <3> QED
      BY <1>3, <3>1 DEF Load, Last
  <2>4. \A i \in DOMAIN loads' :
          loads'[i].saved = IF i = 1 THEN Main ELSE loads'[i - 1].module
    <3> SUFFICES ASSUME NEW i \in DOMAIN loads'
                 PROVE  loads'[i].saved = IF i = 1 THEN Main ELSE loads'[i - 1].module
      OBVIOUS
    <3>1. i # 1 => i - 1 \in DOMAIN loads'
      BY <1>2, <1>3
    <3> QED
      BY <1>3, <1>4, <3>1 DEF GlobalsNest
  <2> QED
    BY <2>1, <2>2, <2>3, <2>4 DEF GlobalsNest
<1>8. Load.key \in loading
  BY <1>2, <1>4 DEF LoadsAreTracked, Loading
<1> QED
  BY <1>1, <1>2, <1>3, <1>4, <1>5, <1>6, <1>7, <1>8

(* A load that succeeded has filled the module its file is cached as.      *)
LEMMA SucceedsKeepsInv ==
  ASSUME Inv, NEW fs, LoadSucceeds(fs)
  PROVE  Inv'
<1> USE DEF Inv
<1> DEFINE m == Load.module
           key == Load.key
<1>1. /\ EndLoad /\ modules' = [modules EXCEPT ![m].filled = TRUE]
      /\ UNCHANGED <<safe, libs, cache>>
  BY DEF LoadSucceeds, originVars
<1>2. /\ loads # <<>> /\ Load \in {loads[i] : i \in DOMAIN loads}
      /\ DOMAIN loads' \subseteq DOMAIN loads
      /\ \A i \in DOMAIN loads' : loads'[i] = loads[i] /\ loads[i].key # key
      /\ loading' = loading \ {key} /\ key \in loading
      /\ \E S : loads' \in Seq(S)
      /\ LoadsAreTracked' /\ GlobalsNest'
  BY <1>1, EndLoadKeeps
<1>3. key \in Keys /\ m \in Nat \ {None} /\ cache[key] = m
  BY <1>2 DEF LoaderTypes, CacheIsHonest
<1>4. m \in DOMAIN modules /\ modules[m].key = key
  BY <1>3 DEF CachedIsAllocated, CacheIsHonest
<1> HIDE DEF m, key
<1>5. /\ modules' \in Seq(Module) /\ DOMAIN modules' = DOMAIN modules
      /\ modules'[m].key = key /\ modules'[m].filled
      /\ \A i \in DOMAIN modules \ {m} : modules'[i] = modules[i]
  <2>1. modules \in Seq(Module)
    BY DEF LoaderTypes
  <2>2. modules[m] \in Module
    BY <1>4, <2>1, ElementOfSeq, LenProperties
  <2> DEFINE new == [modules[m] EXCEPT !.filled = TRUE]
  <2>3. new \in Module /\ new.key = key /\ new.filled
    BY <1>4, <2>2 DEF Module
  <2>4. modules' = [modules EXCEPT ![m] = new]
    BY <1>1
  <2> HIDE DEF new
  <2>5. modules' \in Seq(Module)
    BY <1>4, <2>1, <2>3, <2>4, ExceptSeq, LenProperties
  <2> QED
    BY <1>4, <2>1, <2>3, <2>4, <2>5
<1>6. LoaderTypes'
  BY <1>1, <1>2, <1>5 DEF LoaderTypes
<1>7. CacheIsHonest'
  <2>1. ASSUME NEW k \in Keys, cache[k] # None
        PROVE  /\ modules'[cache[k]].key = k
               /\ modules'[cache[k]].filled <=> k \notin loading'
    <3>1. cache[k] \in DOMAIN modules
      BY <2>1 DEF CachedIsAllocated
    <3>2. CASE k = key
      BY <1>2, <1>3, <1>5, <3>2
    <3>3. CASE k # key
      <4>1. cache[k] # m
        BY <1>4, <2>1, <3>3 DEF CacheIsHonest
      <4> QED
        BY <1>2, <1>5, <2>1, <3>1, <3>3, <4>1 DEF CacheIsHonest
    <3> QED
      BY <3>2, <3>3
  <2>2. \A i \in DOMAIN loads' : cache[loads'[i].key] = loads'[i].module
    BY <1>2 DEF CacheIsHonest
  <2> QED
    BY <1>1, <2>1, <2>2 DEF CacheIsHonest
<1>8. CachedIsAllocated'
  BY <1>1, <1>5 DEF CachedIsAllocated
<1>9. FilledIsCached'
  BY <1>1, <1>3, <1>5 DEF FilledIsCached
<1>10. SafeModeHolds'
  BY <1>1, <1>4, <1>5 DEF SafeModeHolds
<1> QED
  BY <1>2, <1>6, <1>7, <1>8, <1>9, <1>10

(* A load that failed has taken its module, which is not complete, out of  *)
(* the cache.                                                              *)
LEMMA FailsKeepsInv ==
  ASSUME Inv, LoadFails
  PROVE  Inv'
<1> USE DEF Inv
<1> DEFINE m == Load.module
           key == Load.key
<1>1. /\ EndLoad /\ cache' = [cache EXCEPT ![key] = None] /\ UNCHANGED <<safe, libs, modules>>
  BY DEF LoadFails, Uncached, originVars
<1>2. /\ loads # <<>> /\ Load \in {loads[i] : i \in DOMAIN loads}
      /\ DOMAIN loads' \subseteq DOMAIN loads
      /\ \A i \in DOMAIN loads' : loads'[i] = loads[i] /\ loads[i].key # key
      /\ loading' = loading \ {key} /\ key \in loading
      /\ \E S : loads' \in Seq(S)
      /\ LoadsAreTracked' /\ GlobalsNest'
  BY <1>1, EndLoadKeeps
<1>3. key \in Keys /\ m \in Nat \ {None} /\ cache[key] = m
  BY <1>2 DEF LoaderTypes, CacheIsHonest
<1> HIDE DEF m, key
<1>4. /\ cache' \in [Keys -> Nat] /\ cache'[key] = None
      /\ \A k \in Keys \ {key} : cache'[k] = cache[k]
  BY <1>1, <1>3 DEF LoaderTypes, None
<1>5. LoaderTypes'
  BY <1>1, <1>2, <1>4 DEF LoaderTypes
<1>6. CacheIsHonest'
  <2>1. \A k \in Keys : cache'[k] # None => k # key /\ cache'[k] = cache[k]
    BY <1>4
  <2>2. \A i \in DOMAIN loads' : cache'[loads'[i].key] = loads'[i].module
    BY <1>2, <1>4 DEF CacheIsHonest, LoaderTypes
  <2> QED
    BY <1>1, <1>2, <2>1, <2>2 DEF CacheIsHonest
<1>7. CachedIsAllocated'
  BY <1>1, <1>4 DEF CachedIsAllocated
<1>8. FilledIsCached'
  <2> SUFFICES ASSUME NEW i \in DOMAIN modules, modules[i].filled
               PROVE  cache'[modules[i].key] = i
    BY <1>1 DEF FilledIsCached
  <2>1. modules[i] \in Module
    BY ElementOfSeq, LenProperties DEF LoaderTypes
  <2>2. cache[modules[i].key] = i /\ modules[i].key \in Keys
    BY <2>1 DEF FilledIsCached, Module
  <2>3. modules[i].key # key
    <3>1. cache[key] # None /\ key \in loading => ~modules[cache[key]].filled
      BY <1>3 DEF CacheIsHonest
    <3> QED
      BY <1>2, <1>3, <2>2, <3>1
  <2> QED
    BY <1>4, <2>2, <2>3
<1>9. SafeModeHolds'
  BY <1>1 DEF SafeModeHolds
<1> QED
  BY <1>2, <1>5, <1>6, <1>7, <1>8, <1>9

-----------------------------------------------------------------------------
LEMMA NextKeepsInv == Inv /\ [Next]_vars => Inv'
<1> SUFFICES ASSUME Inv, [Next]_vars
             PROVE  Inv'
  OBVIOUS
<1>1. ASSUME NEW n \in Names, NEW std \in BOOLEAN, Import(n, std)
      PROVE  Inv'
  <2>1. CASE ImportKnown(n, std)
    BY <2>1, OthersKeepInv DEF ImportKnown, vars, originVars, loaderVars, resolverVars
  <2>2. CASE ImportNotFound(n, std)
    BY <2>2, OthersKeepInv DEF ImportNotFound
  <2>3. CASE ImportBroken(n, std)
    BY <2>3, BrokenKeepsInv
  <2>4. CASE ImportExecutes(n, std)
    BY <2>4, ExecutesKeepsInv
  <2>5. CASE ImportLibrary(n, std)
    BY <2>5, LibraryKeepsInv
  <2> QED
    BY <1>1, <2>1, <2>2, <2>3, <2>4, <2>5 DEF Import
<1>2. CASE LoadFails
  BY <1>2, FailsKeepsInv
<1>3. CASE Halt
  <2>1. ASSUME NEW fs, LoadSucceeds(fs)
        PROVE  Inv'
    BY <2>1, SucceedsKeepsInv
  <2> QED
    BY <1>3, <2>1, OthersKeepInv DEF Halt
<1>4. CASE AwaitInLoad
  BY <1>4, SucceedsKeepsInv DEF AwaitInLoad
<1>5. CASE PastEnd \/ EnterTry \/ ExitTry \/ Throw \/ Fail
  BY <1>5, OthersKeepInv DEF PastEnd, EnterTry, ExitTry, Throw, Fail
<1>6. ASSUME NEW m, Call(m)
      PROVE  Inv'
  BY <1>6, OthersKeepInv DEF Call
<1>7. CASE Return \/ ScriptFails \/ NextInput
  BY <1>7, OthersKeepInv DEF Return, ScriptFails, NextInput
<1>8. CASE UNCHANGED vars
  BY <1>8, OthersKeepInv DEF vars, originVars, loaderVars, resolverVars
<1> QED
  BY <1>1, <1>2, <1>3, <1>4, <1>5, <1>6, <1>7, <1>8 DEF Next

THEOREM LoaderInvariant == Spec => []Inv
  BY InitInv, NextKeepsInv, PTL DEF Spec

(* The set of loading files is what the load_modules on the Rust stack are *)
(* loading, each once and at most MAX_IMPORT_DEPTH of them.                *)
THEOREM LoadsAreTrackedAlways == Spec => []LoadsAreTracked
<1>1. Inv => LoadsAreTracked
  BY DEF Inv
<1> QED
  BY <1>1, LoaderInvariant, PTL

(* execute_module's exchange of the globals nests, however loads end.      *)
THEOREM GlobalsNestAlways == Spec => []GlobalsNest
<1>1. Inv => GlobalsNest
  BY DEF Inv
<1> QED
  BY <1>1, LoaderInvariant, PTL

(* The cache holds complete modules of their files and the shells of those *)
(* that are loading, and no other shell.                                   *)
THEOREM CacheIsHonestAlways == Spec => []CacheIsHonest
<1>1. Inv => CacheIsHonest
  BY DEF Inv
<1> QED
  BY <1>1, LoaderInvariant, PTL

(* A file never has two complete modules.                                  *)
THEOREM OneModulePerFileAlways == Spec => []OneModulePerFile
<1>1. Inv => OneModulePerFile
  BY DEF Inv, FilledIsCached, OneModulePerFile
<1> QED
  BY <1>1, LoaderInvariant, PTL

(* In safe mode what is executed is of the standard library or embedded,   *)
(* and libraries are loaded by imports with the prefix @std alone, of names*)
(* that are neither.                                                       *)
THEOREM SafeModeHoldsAlways == Spec => []SafeModeHolds
<1>1. Inv => SafeModeHolds
  BY DEF Inv
<1> QED
  BY <1>1, LoaderInvariant, PTL
=============================================================================
