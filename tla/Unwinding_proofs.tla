-------------------------- MODULE Unwinding_proofs --------------------------
(***************************************************************************)
(* The safety of unwinding, for any depth of calls, any nesting of         *)
(* statements and any number of defers and native callbacks.               *)
(***************************************************************************)
EXTENDS Unwinding, FiniteSetTheorems, SequenceTheorems, TLAPS

-----------------------------------------------------------------------------
(* The inductive invariant: the interpreter's stacks, without the bounds   *)
(* of the model.  The parts are stated of any stacks, so that an action    *)
(* can be followed through the values it goes through.                     *)
InlinedBlock == [part : {"inlined"}, level : Nat, rest : SUBSET Nat, keep : Int]
AnyBlock ==
  [part : {"loop"}, kind : {"loop"}]
    \cup [part : {"body", "dispatch", "except", "finally", "cleanup"}, kind : Kinds \ {"loop"}]
    \cup InlinedBlock
AnyFrame ==
  [blocks : Seq(AnyBlock), exc : BOOLEAN, flushing : BOOLEAN, base : Nat, leaving : BOOLEAN]
Handler == [frame : Nat \ {0}, level : Nat \ {0}]

\* defer_stack is divided by the bases of the frames
Sections(fs, ds) ==
  /\ \A i \in DOMAIN fs : fs[i].base <= Len(ds)
  /\ \A i, j \in DOMAIN fs : i <= j => fs[i].base <= fs[j].base
  /\ \A d \in DOMAIN ds :
       /\ ds[d] \in DOMAIN fs /\ d > fs[ds[d]].base
       /\ ds[d] < Len(fs) => d <= fs[ds[d] + 1].base

\* below block q there is, at p, a statement whose finally can be inlined
HasFinally(bs, q, p) ==
  p \in 1..(q - 1) /\ bs[p].part \in {"body", "except"} /\ bs[p].kind = "tryFinally"

\* an inlined finally belongs to a statement below it, and leaves no other
\* inlined finally
Nested(bs) ==
  \A q \in DOMAIN bs : bs[q].part = "inlined" =>
    /\ HasFinally(bs, q, bs[q].level) /\ (\A r \in bs[q].rest : HasFinally(bs, q, r))
    /\ bs[q].keep \in Returning..(q - 1)
    /\ \A p \in 1..(q - 1) : bs[p].part = "inlined" => p <= bs[q].keep

\* the handlers are the bodies that are being executed
Bodies(bs) == {p \in DOMAIN bs : bs[p].part = "body" /\ ~BeingLeft(bs, p)}
Match(hs, fs) ==
  /\ \A g, h \in DOMAIN hs : g < h => Inside(hs[h], hs[g])
  /\ \A d \in DOMAIN hs : hs[d].frame \in DOMAIN fs /\ hs[d].level \in Bodies(fs[hs[d].frame].blocks)
  /\ \A i \in DOMAIN fs : \A p \in Bodies(fs[i].blocks) :
       \E d \in DOMAIN hs : hs[d].frame = i /\ hs[d].level = p
WellFormed(fs) ==
  \A i \in DOMAIN fs : Nested(fs[i].blocks) /\ (fs[i].leaving => fs[i].blocks = <<>>)

Good(fs, hs, ds) ==
  /\ fs \in Seq(AnyFrame) /\ hs \in Seq(Handler) /\ ds \in Seq(Nat \ {0})
  /\ Sections(fs, ds) /\ Match(hs, fs) /\ WellFormed(fs)

StackInv == Good(frames, handlers, defers) /\ (mode = "failed" <=> frames = <<>>)

-----------------------------------------------------------------------------
(* The inductive invariant: native functions and their callbacks.          *)
AnyContext ==
  [what : {"native"}, home : Nat, prev : Nat]
    \cup [what : {"unwind"}, before : Nat, as : {"unwind", "resumed"}]
RustTypes ==
  /\ rust \in Seq(AnyContext) /\ boundary \in Nat
  /\ pending \in BOOLEAN /\ escaped \in BOOLEAN
  /\ mode \in {"run", "late", "native", "unwind", "resumed", "unwound",
               "ended", "uncaught", "failed"}

\* who runs when, seen from the Rust stack
ModeInv ==
  /\ mode \in {"run", "late"} => ~WaitsIn(rust)
  /\ mode = "unwound" => WaitsIn(rust)
  /\ mode = "native" => rust # <<>> /\ Last(rust).what = "native" /\ boundary = Last(rust).prev
  /\ mode \in {"ended", "uncaught", "failed"} => Natives = {}

\* the first native function was entered without a boundary, the others from
\* a callback; whenever no native function runs by itself, a callback does
FirstHasNone == \A n \in Natives : rust[n].prev = NoBoundary <=> \A k \in Natives : n <= k
BoundaryInv == FirstHasNone /\ (mode # "native" /\ Natives # {} => boundary # NoBoundary)

NativeInv == RustTypes /\ ModeInv /\ BoundaryInv /\ EscapedIsTaken

Inv == StackInv /\ NativeInv

-----------------------------------------------------------------------------
(* Sets of numbers, and sequences.                                         *)

LEMMA UpperSet ==
  ASSUME NEW N \in Nat, NEW J \in SUBSET (1..N), \A j \in J : \A d \in 1..N : j <= d => d \in J
  PROVE  /\ Cardinality(J) \in 0..N
         /\ \A d \in 1..N : d \in J <=> d > N - Cardinality(J)
<1>1. /\ IsFiniteSet(1..N) /\ Cardinality(1..N) = N
      /\ IsFiniteSet(J) /\ Cardinality(J) \in Nat /\ Cardinality(J) <= N
  <2>1. IsFiniteSet(1..N) /\ Cardinality(1..N) = N
    BY FS_Interval
  <2> QED
    BY <2>1, FS_Subset, FS_CardinalityType
<1>2. ASSUME NEW d \in J
      PROVE  d > N - Cardinality(J)
  <2>1. d..N \subseteq J
    OBVIOUS
  <2>2. Cardinality(d..N) = N - d + 1
    BY FS_Interval
  <2>3. Cardinality(d..N) <= Cardinality(J)
    BY <1>1, <2>1, FS_Subset
  <2> QED
    BY <1>1, <2>2, <2>3
<1>3. ASSUME NEW d \in 1..N, d \notin J
      PROVE  ~(d > N - Cardinality(J))
  <2>1. J \subseteq (d + 1)..N
    BY <1>3
  <2>2. IsFiniteSet((d + 1)..N) /\ Cardinality((d + 1)..N) = N - d
    BY FS_Interval
  <2>3. Cardinality(J) <= Cardinality((d + 1)..N)
    BY <2>1, <2>2, FS_Subset
  <2> QED
    BY <1>1, <2>2, <2>3
<1> QED
  BY <1>1, <1>2, <1>3

LEMMA MaxIs ==
  ASSUME NEW N \in Nat, NEW S \in SUBSET (0..N), S # {}
  PROVE  Max(S) \in S /\ \A y \in S : y <= Max(S)
<1> DEFINE U == {u \in 0..N : \E s \in S : u <= s}
           c == Cardinality(U)
<1>1. IsFiniteSet(U) /\ c \in Nat
  <2>1. IsFiniteSet(0..N)
    BY FS_Interval
  <2> QED
    BY <2>1, FS_Subset, FS_CardinalityType
<1>2. S \subseteq U
  OBVIOUS
<1>3. ASSUME NEW u \in U
      PROVE  u <= c - 1
  <2>1. 0..u \subseteq U
    OBVIOUS
  <2>2. Cardinality(0..u) = u + 1
    BY FS_Interval
  <2>3. Cardinality(0..u) <= c
    BY <1>1, <2>1, FS_Subset
  <2> QED
    BY <1>1, <2>2, <2>3
<1>4. \E x \in S : \A u \in U : u <= x
  <2>1. \E x \in S : c - 1 <= x
    <3> SUFFICES ASSUME \A x \in S : ~(c - 1 <= x)
                 PROVE  FALSE
      OBVIOUS
    <3>1. U \subseteq 0..(c - 2)
      BY <1>1
    <3>2. PICK z \in S : TRUE
      OBVIOUS
    <3>3. z \in Nat /\ ~(c - 1 <= z)
      BY <3>2
    <3> HIDE DEF U, c
    <3>4. c - 2 \in Nat
      BY <1>1, <3>3
    <3>5. IsFiniteSet(0..(c - 2)) /\ Cardinality(0..(c - 2)) = c - 2 - 0 + 1
      BY <3>4, FS_Interval
    <3>6. Cardinality(U) <= Cardinality(0..(c - 2))
      BY <3>1, <3>5, FS_Subset
    <3>7. c <= c - 2 - 0 + 1
      BY <3>5, <3>6 DEF c
    <3> QED
      BY <1>1, <3>7
  <2>2. PICK x \in S : c - 1 <= x
    BY <2>1
  <2> HIDE DEF U, c
  <2>3. \A u \in U : u <= x
    <3> SUFFICES ASSUME NEW u \in U
                 PROVE  u <= x
      OBVIOUS
    <3>1. u <= c - 1 /\ u \in Nat
      BY <1>3 DEF U
    <3> QED
      BY <1>1, <2>2, <3>1
  <2> QED
    BY <2>3
<1>5. \E x \in S : \A y \in S : x >= y
  <2>1. PICK x \in S : \A u \in U : u <= x
    BY <1>4
  <2>2. \A y \in S : y <= x
    BY <1>2, <2>1
  <2> QED
    BY <2>2
<1> QED
  BY <1>5 DEF Max

LEMMA MinIs ==
  ASSUME NEW N \in Nat, NEW S \in SUBSET (0..N), S # {}
  PROVE  Min(S) \in S /\ \A y \in S : Min(S) <= y
<1> DEFINE T == {N - x : x \in S}
<1>1. T \in SUBSET (0..N) /\ T # {}
  <2>1. \A x \in S : N - x \in 0..N
    OBVIOUS
  <2> QED
    BY <2>1
<1> HIDE DEF T
<1>2. Max(T) \in T /\ \A y \in T : y <= Max(T)
  BY <1>1, MaxIs
<1>3. \E x \in S : \A y \in S : x <= y
  <2>1. PICK x \in S : Max(T) = N - x
    BY <1>2 DEF T
  <2>2. \A y \in S : N - y \in T
    BY DEF T
  <2>3. \A y \in S : N - y <= N - x
    BY <1>2, <2>1, <2>2
  <2> QED
    BY <2>3
<1> QED
  BY <1>3 DEF Min

LEMMA PrefixIs ==
  ASSUME NEW S, NEW s \in Seq(S), NEW n \in 0..Len(s)
  PROVE  /\ SubSeq(s, 1, n) \in Seq(S) /\ Len(SubSeq(s, 1, n)) = n
         /\ DOMAIN SubSeq(s, 1, n) = 1..n
         /\ \A i \in 1..n : SubSeq(s, 1, n)[i] = s[i]
<1>1. Len(s) \in Nat
  BY LenProperties
<1>2. \A i \in 1..n : s[i] \in S
  BY <1>1, ElementOfSeq
<1>3. /\ SubSeq(s, 1, n) \in Seq(S)
      /\ Len(SubSeq(s, 1, n)) = IF 1 <= n THEN n - 1 + 1 ELSE 0
      /\ \A i \in 1..(n - 1 + 1) : SubSeq(s, 1, n)[i] = s[1 + i - 1]
  BY <1>1, <1>2, SubSeqProperties
<1> QED
  BY <1>1, <1>3, LenProperties

LEMMA FrontIs ==
  ASSUME NEW S, NEW s \in Seq(S), s # <<>>
  PROVE  /\ Len(s) \in Nat \ {0} /\ DOMAIN s = 1..Len(s) /\ Last(s) = s[Len(s)] /\ Last(s) \in S
         /\ Front(s) \in Seq(S) /\ Len(Front(s)) = Len(s) - 1 /\ DOMAIN Front(s) = 1..(Len(s) - 1)
         /\ \A i \in 1..(Len(s) - 1) : Front(s)[i] = s[i]
<1>1. Len(s) \in Nat \ {0} /\ DOMAIN s = 1..Len(s)
  BY EmptySeq, LenProperties
<1>2. Last(s) = s[Len(s)] /\ s[Len(s)] \in S
  BY <1>1, ElementOfSeq DEF Last
<1>3. Front(s) = SubSeq(s, 1, Len(s) - 1) /\ Len(s) - 1 \in 0..Len(s)
  BY <1>1 DEF Front
<1> QED
  BY <1>1, <1>2, <1>3, PrefixIs

LEMMA AppendIs ==
  ASSUME NEW S, NEW s \in Seq(S), NEW e \in S
  PROVE  /\ Append(s, e) \in Seq(S) /\ Append(s, e) # <<>> /\ Len(Append(s, e)) = Len(s) + 1
         /\ Len(s) \in Nat /\ DOMAIN s = 1..Len(s) /\ DOMAIN Append(s, e) = 1..(Len(s) + 1)
         /\ \A i \in 1..Len(s) : Append(s, e)[i] = s[i]
         /\ Append(s, e)[Len(s) + 1] = e /\ Last(Append(s, e)) = e /\ Front(Append(s, e)) = s
<1>1. /\ Append(s, e) \in Seq(S) /\ Append(s, e) # <<>> /\ Len(Append(s, e)) = Len(s) + 1
      /\ \A i \in 1..Len(s) : Append(s, e)[i] = s[i]
      /\ Append(s, e)[Len(s) + 1] = e
  BY AppendProperties
<1>2. Len(s) \in Nat /\ DOMAIN s = 1..Len(s) /\ DOMAIN Append(s, e) = 1..(Len(s) + 1)
  BY <1>1, LenProperties
<1>3. Last(Append(s, e)) = e
  BY <1>1 DEF Last
<1>4. Front(Append(s, e)) = s
  <2> DEFINE t == Append(s, e)
  <2>1. t \in Seq(S) /\ t # <<>> /\ Len(t) = Len(s) + 1 /\ \A i \in 1..Len(s) : t[i] = s[i]
    BY <1>1
  <2> HIDE DEF t
  <2>2. /\ Front(t) \in Seq(S) /\ Len(Front(t)) = Len(t) - 1
        /\ \A i \in 1..(Len(t) - 1) : Front(t)[i] = t[i]
    BY <2>1, FrontIs
  <2>3. Len(Front(t)) = Len(s) /\ \A i \in 1..Len(s) : Front(t)[i] = s[i]
    BY <1>2, <2>1, <2>2
  <2>4. Front(t) = s
    BY <2>2, <2>3, SeqEqual
  <2> QED
    BY <2>4 DEF t
<1> QED
  BY <1>1, <1>2, <1>3, <1>4
-----------------------------------------------------------------------------
(* Blocks.                                                                 *)

LEMMA BlockIs ==
  ASSUME NEW b \in AnyBlock
  PROVE  /\ b.part \in {"loop", "body", "dispatch", "except", "finally", "cleanup", "inlined"}
         /\ b.part = "inlined" => /\ b \in InlinedBlock /\ b.level \in Nat
                                  /\ b.rest \in SUBSET Nat /\ b.keep \in Int
         /\ b.part \notin {"inlined", "loop"} =>
              /\ b.kind \in Kinds \ {"loop"}
              /\ b.kind \in {"try", "tryFinally", "with"}
BY DEF AnyBlock, InlinedBlock, Kinds

LEMMA NoBlocks == Nested(<<>>) /\ Bodies(<<>>) = {}
<1>1. DOMAIN <<>> = {}
  OBVIOUS
<1> QED
  BY <1>1 DEF Nested, Bodies

LEMMA PrefixIsNested ==
  ASSUME NEW bs \in Seq(AnyBlock), Nested(bs), NEW n \in 0..Len(bs)
  PROVE  Nested(SubSeq(bs, 1, n))
<1> DEFINE cs == SubSeq(bs, 1, n)
<1>1. /\ cs \in Seq(AnyBlock) /\ DOMAIN cs = 1..n /\ \A i \in 1..n : cs[i] = bs[i]
  BY PrefixIs
<1>2. Len(bs) \in Nat /\ DOMAIN bs = 1..Len(bs)
  BY LenProperties
<1> HIDE DEF cs
<1>3. Nested(cs)
  <2> SUFFICES ASSUME NEW q \in 1..n, cs[q].part = "inlined"
               PROVE  /\ HasFinally(cs, q, cs[q].level)
                      /\ \A r \in cs[q].rest : HasFinally(cs, q, r)
                      /\ cs[q].keep \in Returning..(q - 1)
                      /\ \A p \in 1..(q - 1) : cs[p].part = "inlined" => p <= cs[q].keep
    BY <1>1 DEF Nested
  <2>1. q \in DOMAIN bs /\ bs[q] = cs[q]
    BY <1>1, <1>2
  <2>2. /\ HasFinally(bs, q, bs[q].level)
        /\ \A r \in bs[q].rest : HasFinally(bs, q, r)
        /\ bs[q].keep \in Returning..(q - 1)
        /\ \A p \in 1..(q - 1) : bs[p].part = "inlined" => p <= bs[q].keep
    BY <2>1 DEF Nested
  <2>3. \A p \in 1..(q - 1) : cs[p] = bs[p]
    BY <1>1
  <2>4. \A p : HasFinally(bs, q, p) => HasFinally(cs, q, p)
    BY <2>3 DEF HasFinally
  <2> QED
    BY <2>1, <2>2, <2>3, <2>4
<1> QED
  BY <1>3 DEF cs

LEMMA PrefixOfBlocks ==
  ASSUME NEW bs \in Seq(AnyBlock), Nested(bs), NEW n \in 0..Len(bs),
         \A q \in DOMAIN bs : q > n /\ bs[q].part = "inlined" => bs[q].keep >= n
  PROVE  /\ SubSeq(bs, 1, n) \in Seq(AnyBlock) /\ Nested(SubSeq(bs, 1, n))
         /\ Bodies(SubSeq(bs, 1, n)) = {p \in Bodies(bs) : p <= n}
<1> DEFINE cs == SubSeq(bs, 1, n)
<1>1. /\ cs \in Seq(AnyBlock) /\ DOMAIN cs = 1..n /\ \A i \in 1..n : cs[i] = bs[i]
  BY PrefixIs
<1>2. Len(bs) \in Nat /\ DOMAIN bs = 1..Len(bs)
  BY LenProperties
<1> HIDE DEF cs
<1>3. Nested(cs)
  BY PrefixIsNested DEF cs
<1>4. ASSUME NEW p \in 1..n
      PROVE  BeingLeft(cs, p) <=> BeingLeft(bs, p)
  <2>1. ASSUME NEW q \in DOMAIN bs, q > p, bs[q].part = "inlined", bs[q].keep < p
        PROVE  q \in DOMAIN cs /\ cs[q] = bs[q]
    <3>1. bs[q].keep \in Int
      BY <2>1, <1>2, BlockIs, ElementOfSeq
    <3>2. ~(q > n)
      BY <2>1, <3>1, <1>2
    <3> QED
      BY <1>1, <1>2, <3>2
  <2>2. ASSUME NEW q \in DOMAIN cs
        PROVE  q \in DOMAIN bs /\ cs[q] = bs[q]
    BY <1>1, <1>2
  <2> QED
    BY <2>1, <2>2 DEF BeingLeft
<1>5. Bodies(cs) = {p \in Bodies(bs) : p <= n}
  <2>1. ASSUME NEW p \in Bodies(cs)
        PROVE  p \in Bodies(bs) /\ p <= n
    BY <1>1, <1>2, <1>4 DEF Bodies
  <2>2. ASSUME NEW p \in Bodies(bs), p <= n
        PROVE  p \in Bodies(cs)
    BY <1>1, <1>2, <1>4, <2>2 DEF Bodies
  <2> QED
    BY <2>1, <2>2
<1> QED
  BY <1>1, <1>3, <1>5 DEF cs

LEMMA OneMoreBlock ==
  ASSUME NEW bs \in Seq(AnyBlock), Nested(bs), NEW b \in AnyBlock, b.part # "inlined"
  PROVE  /\ Append(bs, b) \in Seq(AnyBlock) /\ Nested(Append(bs, b))
         /\ Bodies(Append(bs, b)) =
              IF b.part = "body" THEN Bodies(bs) \cup {Len(bs) + 1} ELSE Bodies(bs)
<1> DEFINE cs == Append(bs, b)
           n == Len(bs)
<1>1. /\ cs \in Seq(AnyBlock) /\ n \in Nat /\ DOMAIN bs = 1..n /\ DOMAIN cs = 1..(n + 1)
      /\ (\A i \in 1..n : cs[i] = bs[i]) /\ cs[n + 1] = b
  BY AppendIs
<1> HIDE DEF cs, n
<1>2. Nested(cs)
  <2> SUFFICES ASSUME NEW q \in DOMAIN cs, cs[q].part = "inlined"
               PROVE  /\ HasFinally(cs, q, cs[q].level)
                      /\ \A r \in cs[q].rest : HasFinally(cs, q, r)
                      /\ cs[q].keep \in Returning..(q - 1)
                      /\ \A p \in 1..(q - 1) : cs[p].part = "inlined" => p <= cs[q].keep
    BY DEF Nested
  <2>1. q \in DOMAIN bs /\ bs[q] = cs[q]
    <3>1. q # n + 1
      BY <1>1
    <3> QED
      BY <1>1, <3>1
  <2>2. /\ HasFinally(bs, q, bs[q].level)
        /\ \A r \in bs[q].rest : HasFinally(bs, q, r)
        /\ bs[q].keep \in Returning..(q - 1)
        /\ \A p \in 1..(q - 1) : bs[p].part = "inlined" => p <= bs[q].keep
    BY <2>1 DEF Nested
  <2>3. \A p \in 1..(q - 1) : cs[p] = bs[p]
    BY <1>1, <2>1
  <2>4. \A p : HasFinally(bs, q, p) => HasFinally(cs, q, p)
    BY <2>3 DEF HasFinally
  <2> QED
    BY <2>1, <2>2, <2>3, <2>4
<1>3. ASSUME NEW p \in 1..n
      PROVE  BeingLeft(cs, p) <=> BeingLeft(bs, p)
  <2>1. ASSUME NEW q \in DOMAIN cs, cs[q].part = "inlined"
        PROVE  q \in DOMAIN bs /\ cs[q] = bs[q]
    BY <1>1, <2>1
  <2>2. ASSUME NEW q \in DOMAIN bs
        PROVE  q \in DOMAIN cs /\ cs[q] = bs[q]
    BY <1>1
  <2> QED
    BY <2>1, <2>2 DEF BeingLeft
<1>4. ~BeingLeft(cs, n + 1)
  BY <1>1 DEF BeingLeft
<1>5. Bodies(cs) = IF b.part = "body" THEN Bodies(bs) \cup {n + 1} ELSE Bodies(bs)
  <2>1. \A p \in 1..n : p \in Bodies(cs) <=> p \in Bodies(bs)
    BY <1>1, <1>3 DEF Bodies
  <2>2. n + 1 \in Bodies(cs) <=> b.part = "body"
    BY <1>1, <1>4 DEF Bodies
  <2>3. Bodies(bs) \subseteq 1..n /\ Bodies(cs) \subseteq 1..(n + 1)
    BY <1>1 DEF Bodies
  <2>4. \A p : p \in 1..(n + 1) <=> p \in 1..n \/ p = n + 1
    BY <1>1
  <2>5. CASE b.part = "body"
    <3>1. \A p : p \in Bodies(cs) <=> p \in Bodies(bs) \/ p = n + 1
      BY <2>1, <2>2, <2>3, <2>4, <2>5
    <3> QED
      BY <2>5, <3>1
  <2>6. CASE b.part # "body"
    <3>1. n + 1 \notin 1..n
      BY <1>1
    <3>2. \A p : p \in Bodies(cs) <=> p \in Bodies(bs)
      BY <2>1, <2>2, <2>3, <2>4, <2>6, <3>1
    <3> QED
      BY <2>6, <3>2
  <2> QED
    BY <2>5, <2>6
<1> QED
  BY <1>1, <1>2, <1>5 DEF cs, n

LEMMA OneMoreInlined ==
  ASSUME NEW bs \in Seq(AnyBlock), Nested(bs), NEW b \in InlinedBlock,
         HasFinally(bs, Len(bs) + 1, b.level),
         \A r \in b.rest : HasFinally(bs, Len(bs) + 1, r),
         b.keep \in Returning..Len(bs),
         \A p \in DOMAIN bs : bs[p].part = "inlined" => p <= b.keep
  PROVE  /\ Append(bs, b) \in Seq(AnyBlock) /\ Nested(Append(bs, b))
         /\ Bodies(Append(bs, b)) = {p \in Bodies(bs) : p <= b.keep}
<1> DEFINE cs == Append(bs, b)
           n == Len(bs)
<1>0. b \in AnyBlock /\ b.part = "inlined"
  BY DEF AnyBlock, InlinedBlock
<1>1. /\ cs \in Seq(AnyBlock) /\ n \in Nat /\ DOMAIN bs = 1..n /\ DOMAIN cs = 1..(n + 1)
      /\ (\A i \in 1..n : cs[i] = bs[i]) /\ cs[n + 1] = b
  BY <1>0, AppendIs
<1>2. /\ HasFinally(bs, n + 1, b.level) /\ b.keep \in Returning..n
      /\ \A r \in b.rest : HasFinally(bs, n + 1, r)
  OBVIOUS
<1> HIDE DEF cs, n
<1>3. Nested(cs)
  <2> SUFFICES ASSUME NEW q \in DOMAIN cs, cs[q].part = "inlined"
               PROVE  /\ HasFinally(cs, q, cs[q].level)
                      /\ \A r \in cs[q].rest : HasFinally(cs, q, r)
                      /\ cs[q].keep \in Returning..(q - 1)
                      /\ \A p \in 1..(q - 1) : cs[p].part = "inlined" => p <= cs[q].keep
    BY DEF Nested
  <2>1. CASE q = n + 1
    <3>1. \A p \in 1..(q - 1) : cs[p] = bs[p] /\ p \in DOMAIN bs
      BY <1>1, <2>1
    <3>2. \A p : HasFinally(bs, q, p) => HasFinally(cs, q, p)
      BY <3>1 DEF HasFinally
    <3>3. cs[q] = b /\ q - 1 = n
      BY <1>1, <2>1
    <3> QED
      BY <1>2, <2>1, <3>1, <3>2, <3>3
  <2>2. CASE q # n + 1
    <3>1. q \in DOMAIN bs /\ bs[q] = cs[q]
      BY <1>1, <2>2
    <3>2. /\ HasFinally(bs, q, bs[q].level)
          /\ \A r \in bs[q].rest : HasFinally(bs, q, r)
          /\ bs[q].keep \in Returning..(q - 1)
          /\ \A p \in 1..(q - 1) : bs[p].part = "inlined" => p <= bs[q].keep
      BY <3>1 DEF Nested
    <3>3. \A p \in 1..(q - 1) : cs[p] = bs[p]
      BY <1>1, <3>1
    <3>4. \A p : HasFinally(bs, q, p) => HasFinally(cs, q, p)
      BY <3>3 DEF HasFinally
    <3> QED
      BY <3>1, <3>2, <3>3, <3>4
  <2> QED
    BY <2>1, <2>2
<1>4. ASSUME NEW p \in 1..n
      PROVE  BeingLeft(cs, p) <=> BeingLeft(bs, p) \/ b.keep < p
  <2>1. \A q \in 1..n : q \in DOMAIN bs /\ q \in DOMAIN cs /\ cs[q] = bs[q]
    BY <1>1
  <2>2. n + 1 \in DOMAIN cs /\ cs[n + 1].part = "inlined" /\ cs[n + 1].keep = b.keep /\ n + 1 > p
    BY <1>0, <1>1
  <2>3. \A q \in DOMAIN cs : q \in 1..n \/ q = n + 1
    BY <1>1
  <2>4. DOMAIN bs = 1..n
    BY <1>1
  <2> QED
    BY <2>1, <2>2, <2>3, <2>4 DEF BeingLeft
<1>5. Bodies(cs) = {p \in Bodies(bs) : p <= b.keep}
  <2>1. \A p \in 1..n : p \in Bodies(cs) <=> p \in Bodies(bs) /\ p <= b.keep
    <3>1. b.keep \in Int
      BY <1>2 DEF Returning
    <3> QED
      BY <1>1, <1>4, <3>1 DEF Bodies
  <2>2. n + 1 \notin Bodies(cs)
    BY <1>0, <1>1 DEF Bodies
  <2>3. Bodies(bs) \subseteq 1..n /\ Bodies(cs) \subseteq 1..(n + 1)
    BY <1>1 DEF Bodies
  <2> QED
    BY <1>1, <2>1, <2>2, <2>3
<1> QED
  BY <1>1, <1>3, <1>5 DEF cs, n
-----------------------------------------------------------------------------
(* The stacks, one change at a time.                                       *)

\* gs has the frames of fs, but for the blocks of the top one and for what an
\* exception or a flush of defers notes in a frame
Edited(fs, gs, bs, lv) ==
  /\ gs \in Seq(AnyFrame) /\ Len(gs) = Len(fs) /\ Len(fs) # 0
  /\ \A i \in DOMAIN fs : gs[i].base = fs[i].base
  /\ \A i \in DOMAIN fs : i # Len(fs) => /\ gs[i].blocks = fs[i].blocks
                                         /\ gs[i].leaving = fs[i].leaving
  /\ gs[Len(fs)].blocks = bs /\ gs[Len(fs)].leaving = lv

LEMMA FrameIs ==
  ASSUME NEW f \in AnyFrame
  PROVE  /\ f.blocks \in Seq(AnyBlock) /\ f.base \in Nat
         /\ f.exc \in BOOLEAN /\ f.flushing \in BOOLEAN /\ f.leaving \in BOOLEAN
BY DEF AnyFrame

LEMMA TopIs ==
  ASSUME NEW fs \in Seq(AnyFrame), fs # <<>>
  PROVE  /\ Len(fs) \in Nat \ {0} /\ DOMAIN fs = 1..Len(fs) /\ Len(fs) \in DOMAIN fs
         /\ fs[Len(fs)] \in AnyFrame
<1>1. Len(fs) \in Nat \ {0} /\ DOMAIN fs = 1..Len(fs)
  BY EmptySeq, LenProperties
<1> QED
  BY <1>1, ElementOfSeq

LEMMA EditIs ==
  ASSUME NEW fs \in Seq(AnyFrame), fs # <<>>, NEW f \in AnyFrame, f.base = fs[Len(fs)].base
  PROVE  /\ Edited(fs, [fs EXCEPT ![Len(fs)] = f], f.blocks, f.leaving)
         /\ [fs EXCEPT ![Len(fs)] = f] # <<>>
         /\ Len([fs EXCEPT ![Len(fs)] = f]) = Len(fs)
         /\ [fs EXCEPT ![Len(fs)] = f][Len(fs)] = f
<1> DEFINE gs == [fs EXCEPT ![Len(fs)] = f]
<1>1. Len(fs) \in Nat \ {0} /\ DOMAIN fs = 1..Len(fs) /\ Len(fs) \in DOMAIN fs
  BY TopIs
<1>2. gs \in Seq(AnyFrame) /\ Len(gs) = Len(fs)
  BY <1>1, ExceptSeq
<1>3. gs[Len(fs)] = f /\ \A i \in DOMAIN fs : i # Len(fs) => gs[i] = fs[i]
  BY <1>1
<1> HIDE DEF gs
<1>4. \A i \in DOMAIN fs : gs[i].base = fs[i].base
  BY <1>3
<1>5. gs # <<>>
  BY <1>1, <1>2, EmptySeq
<1>6. Edited(fs, gs, f.blocks, f.leaving)
  BY <1>1, <1>2, <1>3, <1>4 DEF Edited
<1> QED
  BY <1>2, <1>3, <1>5, <1>6 DEF gs

LEMMA ThrowIs ==
  ASSUME NEW fs \in Seq(AnyFrame), fs # <<>>, Throws(fs)
  PROVE  /\ Edited(fs, frames', fs[Len(fs)].blocks, fs[Len(fs)].leaving)
         /\ frames' # <<>> /\ Len(frames') = Len(fs) /\ mode' = "unwind" /\ pending' = FALSE
<1> DEFINE top == fs[Len(fs)]
           f == [top EXCEPT !.exc = FALSE]
<1>1. top \in AnyFrame /\ Len(fs) \in DOMAIN fs
  BY TopIs
<1>2. f \in AnyFrame /\ f.base = top.base /\ f.blocks = top.blocks /\ f.leaving = top.leaving
  BY <1>1 DEF AnyFrame
<1>3. mode' = "unwind" /\ pending' = FALSE
  BY DEF Throws
<1>4. CASE pending
  <2>1. frames' = fs
    BY <1>4 DEF Throws
  <2>2. Edited(fs, fs, top.blocks, top.leaving)
    BY <1>1, TopIs DEF Edited
  <2> QED
    BY <1>3, <2>1, <2>2
<1>5. CASE ~pending
  <2>1. frames' = [fs EXCEPT ![Len(fs)].exc = FALSE]
    BY <1>5 DEF Throws
  <2>2. [fs EXCEPT ![Len(fs)].exc = FALSE] = [fs EXCEPT ![Len(fs)] = f]
    BY <1>1
  <2> HIDE DEF f
  <2>3. /\ Edited(fs, [fs EXCEPT ![Len(fs)] = f], f.blocks, f.leaving)
        /\ [fs EXCEPT ![Len(fs)] = f] # <<>> /\ Len([fs EXCEPT ![Len(fs)] = f]) = Len(fs)
    BY <1>2, EditIs
  <2> QED
    BY <1>2, <1>3, <2>1, <2>2, <2>3
<1> QED
  BY <1>4, <1>5

LEMMA SectionsOfEdited ==
  ASSUME NEW fs \in Seq(AnyFrame), NEW gs, NEW bs, NEW lv, Edited(fs, gs, bs, lv),
         NEW ds \in Seq(Nat \ {0}), Sections(fs, ds)
  PROVE  Sections(gs, ds)
<1>1. DOMAIN fs = 1..Len(fs) /\ DOMAIN gs = 1..Len(fs) /\ Len(gs) = Len(fs) /\ Len(fs) \in Nat
  BY LenProperties DEF Edited
<1>2. \A i \in 1..Len(fs) : gs[i].base = fs[i].base
  BY <1>1 DEF Edited
<1>3. DOMAIN ds = 1..Len(ds) /\ \A d \in DOMAIN ds : ds[d] \in Nat \ {0}
  BY LenProperties, ElementOfSeq
<1>4. \A d \in DOMAIN ds : ds[d] < Len(fs) => ds[d] + 1 \in 1..Len(fs)
  BY <1>1, <1>3
<1> QED
  BY SMTT(60), <1>1, <1>2, <1>3, <1>4 DEF Sections

\* an edit of the top frame's blocks that leaves those above level k, when
\* the handlers of the bodies among them are popped
LEMMA Cut ==
  ASSUME NEW fs, NEW hs, NEW ds, Good(fs, hs, ds),
         NEW gs, NEW bs, NEW lv, Edited(fs, gs, bs, lv), Nested(bs), lv => bs = <<>>,
         NEW k \in Int, Bodies(bs) = {p \in Bodies(fs[Len(fs)].blocks) : p <= k},
         NEW n \in 0..Len(hs),
         \A d \in 1..Len(hs) : d <= n <=> ~(hs[d].frame = Len(fs) /\ hs[d].level > k)
  PROVE  Good(gs, SubSeq(hs, 1, n), ds)
<1> DEFINE ks == SubSeq(hs, 1, n)
<1>0. fs \in Seq(AnyFrame) /\ hs \in Seq(Handler) /\ ds \in Seq(Nat \ {0})
  BY DEF Good
<1>1. /\ DOMAIN fs = 1..Len(fs) /\ DOMAIN gs = 1..Len(fs) /\ Len(gs) = Len(fs)
      /\ Len(fs) \in Nat /\ gs \in Seq(AnyFrame)
  BY <1>0, LenProperties DEF Edited
<1>2. /\ ks \in Seq(Handler) /\ DOMAIN ks = 1..n /\ \A d \in 1..n : ks[d] = hs[d]
  BY <1>0, PrefixIs
<1>3. Len(hs) \in Nat /\ DOMAIN hs = 1..Len(hs)
  BY <1>0, LenProperties
<1>4. \A d \in 1..Len(hs) : hs[d].frame \in Nat /\ hs[d].level \in Nat
  <2>1. \A d \in 1..Len(hs) : hs[d] \in Handler
    BY <1>0, <1>3, ElementOfSeq
  <2> QED
    BY <2>1 DEF Handler
<1> HIDE DEF ks
<1>5. \A i \in 1..Len(fs) : i # Len(fs) => gs[i].blocks = fs[i].blocks
  BY <1>1 DEF Edited
<1>6. gs[Len(fs)].blocks = bs /\ gs[Len(fs)].leaving = lv
  BY DEF Edited
<1>7. Match(hs, fs)
  BY DEF Good
<1>8. Match(ks, gs)
  <2>1. ASSUME NEW g \in DOMAIN ks, NEW h \in DOMAIN ks, g < h
        PROVE  Inside(ks[h], ks[g])
    BY <1>2, <1>3, <1>7, <2>1 DEF Match
  <2>2. ASSUME NEW d \in DOMAIN ks
        PROVE  ks[d].frame \in DOMAIN gs /\ ks[d].level \in Bodies(gs[ks[d].frame].blocks)
    <3>1. /\ d \in 1..Len(hs) /\ ks[d] = hs[d]
          /\ hs[d].frame \in 1..Len(fs) /\ hs[d].level \in Bodies(fs[hs[d].frame].blocks)
      BY <1>1, <1>2, <1>3, <1>7 DEF Match
    <3>2. CASE hs[d].frame = Len(fs)
      <4>1. hs[d].level <= k
        BY <1>2, <1>4, <3>1, <3>2
      <4>2. hs[d].level \in Bodies(bs)
        BY <3>1, <3>2, <4>1
      <4> QED
        BY <1>1, <1>6, <3>1, <3>2, <4>2
    <3>3. CASE hs[d].frame # Len(fs)
      BY <1>1, <1>5, <3>1, <3>3
    <3> QED
      BY <3>2, <3>3
  <2>3. ASSUME NEW i \in DOMAIN gs, NEW p \in Bodies(gs[i].blocks)
        PROVE  \E d \in DOMAIN ks : ks[d].frame = i /\ ks[d].level = p
    <3>1. p \in Bodies(fs[i].blocks) /\ (i = Len(fs) => p <= k)
      BY <1>1, <1>5, <1>6
    <3>2. PICK d \in 1..Len(hs) : hs[d].frame = i /\ hs[d].level = p
      <4>1. i \in DOMAIN fs
        BY <1>1
      <4>2. \E d \in DOMAIN hs : hs[d].frame = i /\ hs[d].level = p
        BY <1>7, <3>1, <4>1 DEF Match
      <4> QED
        BY <1>3, <4>2
    <3>3. d <= n
      BY <1>4, <3>1, <3>2
    <3> QED
      BY <1>2, <1>3, <3>2, <3>3
  <2> QED
    BY <2>1, <2>2, <2>3 DEF Match
<1>9. WellFormed(gs)
  <2> SUFFICES ASSUME NEW i \in 1..Len(fs)
               PROVE  Nested(gs[i].blocks) /\ (gs[i].leaving => gs[i].blocks = <<>>)
    BY <1>1 DEF WellFormed
  <2>1. CASE i = Len(fs)
    BY <1>6, <2>1
  <2>2. CASE i # Len(fs)
    <3>1. gs[i].blocks = fs[i].blocks /\ gs[i].leaving = fs[i].leaving
      BY <1>1, <2>2 DEF Edited
    <3>2. Nested(fs[i].blocks) /\ (fs[i].leaving => fs[i].blocks = <<>>)
      BY <1>1 DEF Good, WellFormed
    <3> QED
      BY <3>1, <3>2
  <2> QED
    BY <2>1, <2>2
<1>10. Sections(gs, ds)
  BY <1>0, SectionsOfEdited DEF Good
<1> QED
  BY <1>0, <1>1, <1>2, <1>8, <1>9, <1>10 DEF Good, ks

LEMMA Keeps ==
  ASSUME NEW fs, NEW hs, NEW ds, Good(fs, hs, ds),
         NEW gs, NEW bs, NEW lv, Edited(fs, gs, bs, lv), Nested(bs), lv => bs = <<>>,
         Bodies(bs) = Bodies(fs[Len(fs)].blocks)
  PROVE  Good(gs, hs, ds)
<1>0. fs \in Seq(AnyFrame) /\ hs \in Seq(Handler) /\ fs # <<>>
  <2>1. Len(<<>>) = 0
    OBVIOUS
  <2> QED
    BY <2>1 DEF Good, Edited
<1> DEFINE top == fs[Len(fs)].blocks
           k == Len(top)
<1>1. top \in Seq(AnyBlock) /\ k \in Nat /\ DOMAIN top = 1..k
  BY <1>0, TopIs, FrameIs, LenProperties
<1>2. Bodies(top) \subseteq 1..k
  BY <1>1 DEF Bodies
<1>3. Len(hs) \in Nat /\ DOMAIN hs = 1..Len(hs)
  BY <1>0, LenProperties
<1>4. \A d \in 1..Len(hs) : hs[d].frame = Len(fs) => hs[d].level \in Bodies(top)
  BY <1>3 DEF Good, Match
<1>5. Bodies(bs) = {p \in Bodies(top) : p <= k}
  BY <1>1, <1>2
<1>6. \A d \in 1..Len(hs) : d <= Len(hs) <=> ~(hs[d].frame = Len(fs) /\ hs[d].level > k)
  BY <1>1, <1>2, <1>3, <1>4
<1>7. k \in Int /\ Len(hs) \in 0..Len(hs)
  BY <1>1, <1>3
<1> HIDE DEF k
<1>8. Good(gs, SubSeq(hs, 1, Len(hs)), ds)
  BY <1>5, <1>6, <1>7, Cut
<1>9. SubSeq(hs, 1, Len(hs)) = hs
  BY <1>0, SubSeqFull
<1> QED
  BY <1>8, <1>9

LEMMA OpensTry ==
  ASSUME NEW fs, NEW hs, NEW ds, Good(fs, hs, ds),
         NEW gs, NEW bs, Edited(fs, gs, bs, FALSE), Nested(bs),
         NEW l \in Nat \ {0}, Bodies(bs) = Bodies(fs[Len(fs)].blocks) \cup {l},
         \A p \in Bodies(fs[Len(fs)].blocks) : p < l
  PROVE  Good(gs, Append(hs, [frame |-> Len(fs), level |-> l]), ds)
<1> DEFINE e == [frame |-> Len(fs), level |-> l]
           ks == Append(hs, e)
<1>0. fs \in Seq(AnyFrame) /\ hs \in Seq(Handler) /\ ds \in Seq(Nat \ {0})
  BY DEF Good
<1>1. /\ DOMAIN fs = 1..Len(fs) /\ DOMAIN gs = 1..Len(fs) /\ Len(gs) = Len(fs)
      /\ Len(fs) \in Nat \ {0} /\ gs \in Seq(AnyFrame)
  BY <1>0, LenProperties DEF Edited
<1>2. e \in Handler /\ e.frame = Len(fs) /\ e.level = l
  BY <1>1 DEF Handler
<1>3. /\ Len(hs) \in Nat /\ DOMAIN hs = 1..Len(hs) /\ \A d \in 1..Len(hs) : hs[d] \in Handler
  BY <1>0, LenProperties, ElementOfSeq
<1> HIDE DEF e
<1>4. /\ ks \in Seq(Handler) /\ DOMAIN ks = 1..(Len(hs) + 1)
      /\ (\A d \in 1..Len(hs) : ks[d] = hs[d]) /\ ks[Len(hs) + 1] = e
  BY <1>0, <1>2, AppendIs
<1> HIDE DEF ks
<1>5. \A i \in 1..Len(fs) : i # Len(fs) => gs[i].blocks = fs[i].blocks
  BY <1>1 DEF Edited
<1>6. gs[Len(fs)].blocks = bs /\ gs[Len(fs)].leaving = FALSE
  BY DEF Edited
<1>7. Match(hs, fs)
  BY DEF Good
<1>8. \A d \in 1..Len(hs) : /\ hs[d].frame \in 1..Len(fs)
                            /\ hs[d].level \in Bodies(fs[hs[d].frame].blocks)
                            /\ hs[d].frame \in Nat /\ hs[d].level \in Nat
  <2>1. \A d \in 1..Len(hs) : hs[d].frame \in 1..Len(fs) /\ hs[d].level \in Bodies(fs[hs[d].frame].blocks)
    BY <1>1, <1>3, <1>7 DEF Match
  <2> QED
    BY <1>3, <2>1 DEF Handler
<1>9. Match(ks, gs)
  <2>1. ASSUME NEW g \in DOMAIN ks, NEW h \in DOMAIN ks, g < h
        PROVE  Inside(ks[h], ks[g])
    <3>1. CASE h \in 1..Len(hs)
      <4>1. g \in DOMAIN hs /\ h \in DOMAIN hs /\ ks[g] = hs[g] /\ ks[h] = hs[h]
        BY <1>3, <1>4, <2>1, <3>1
      <4> QED
        BY <1>7, <2>1, <4>1 DEF Match
    <3>2. CASE h = Len(hs) + 1
      <4>1. g \in 1..Len(hs) /\ ks[g] = hs[g] /\ ks[h] = e
        BY <1>3, <1>4, <2>1, <3>2
      <4>2. CASE hs[g].frame = Len(fs)
        <5>1. hs[g].level \in Bodies(fs[Len(fs)].blocks)
          BY <1>8, <4>1, <4>2
        <5>2. hs[g].level < l
          BY <5>1
        <5> QED
          BY <1>2, <4>1, <4>2, <5>2 DEF Inside
      <4>3. CASE hs[g].frame # Len(fs)
        <5>1. hs[g].frame < Len(fs)
          BY <1>1, <1>8, <4>1, <4>3
        <5> QED
          BY <1>2, <4>1, <5>1 DEF Inside
      <4> QED
        BY <4>2, <4>3
    <3> QED
      BY <1>3, <1>4, <3>1, <3>2
  <2>2. ASSUME NEW d \in DOMAIN ks
        PROVE  ks[d].frame \in DOMAIN gs /\ ks[d].level \in Bodies(gs[ks[d].frame].blocks)
    <3>1. CASE d \in 1..Len(hs)
      <4>1. /\ ks[d] = hs[d] /\ hs[d].frame \in 1..Len(fs)
            /\ hs[d].level \in Bodies(fs[hs[d].frame].blocks)
        BY <1>4, <1>8, <3>1
      <4>2. hs[d].level \in Bodies(gs[hs[d].frame].blocks)
        <5>1. CASE hs[d].frame = Len(fs)
          BY <1>6, <4>1, <5>1
        <5>2. CASE hs[d].frame # Len(fs)
          BY <1>5, <4>1, <5>2
        <5> QED
          BY <5>1, <5>2
      <4> QED
        BY <1>1, <4>1, <4>2
    <3>2. CASE d = Len(hs) + 1
      BY <1>1, <1>2, <1>4, <1>6, <3>2
    <3> QED
      BY <1>3, <1>4, <3>1, <3>2
  <2>3. ASSUME NEW i \in DOMAIN gs, NEW p \in Bodies(gs[i].blocks)
        PROVE  \E d \in DOMAIN ks : ks[d].frame = i /\ ks[d].level = p
    <3>1. CASE i = Len(fs) /\ p = l
      BY <1>2, <1>3, <1>4, <3>1
    <3>2. CASE ~(i = Len(fs) /\ p = l)
      <4>1. i \in DOMAIN fs /\ p \in Bodies(fs[i].blocks)
        BY <1>1, <1>5, <1>6, <3>2
      <4>2. PICK d \in DOMAIN hs : hs[d].frame = i /\ hs[d].level = p
        BY <1>7, <4>1 DEF Match
      <4> QED
        BY <1>3, <1>4, <4>2
    <3> QED
      BY <3>1, <3>2
  <2> QED
    BY <2>1, <2>2, <2>3 DEF Match
<1>10. WellFormed(gs)
  <2> SUFFICES ASSUME NEW i \in 1..Len(fs)
               PROVE  Nested(gs[i].blocks) /\ (gs[i].leaving => gs[i].blocks = <<>>)
    BY <1>1 DEF WellFormed
  <2>1. CASE i = Len(fs)
    BY <1>6, <2>1
  <2>2. CASE i # Len(fs)
    <3>1. gs[i].blocks = fs[i].blocks /\ gs[i].leaving = fs[i].leaving
      BY <1>1, <2>2 DEF Edited
    <3>2. Nested(fs[i].blocks) /\ (fs[i].leaving => fs[i].blocks = <<>>)
      BY <1>1 DEF Good, WellFormed
    <3> QED
      BY <3>1, <3>2
  <2> QED
    BY <2>1, <2>2
<1>11. Sections(gs, ds)
  BY <1>0, SectionsOfEdited DEF Good
<1> QED
  BY <1>0, <1>1, <1>4, <1>9, <1>10, <1>11 DEF Good, ks, e

LEMMA NewFrameIs ==
  ASSUME NEW n \in Nat
  PROVE  /\ NewFrame(n) \in AnyFrame /\ NewFrame(n).base = n
         /\ NewFrame(n).blocks = <<>> /\ NewFrame(n).leaving = FALSE
<1>1. <<>> \in Seq(AnyBlock)
  OBVIOUS
<1> QED
  BY <1>1 DEF NewFrame, AnyFrame

\* a call
LEMMA Pushes ==
  ASSUME NEW fs, NEW hs, NEW ds, Good(fs, hs, ds)
  PROVE  /\ Good(Append(fs, NewFrame(Len(ds))), hs, ds)
         /\ Append(fs, NewFrame(Len(ds))) # <<>>
         /\ Len(Append(fs, NewFrame(Len(ds)))) = Len(fs) + 1
<1> DEFINE f == NewFrame(Len(ds))
           gs == Append(fs, f)
<1>0. fs \in Seq(AnyFrame) /\ hs \in Seq(Handler) /\ ds \in Seq(Nat \ {0})
  BY DEF Good
<1>1. /\ Len(fs) \in Nat /\ DOMAIN fs = 1..Len(fs) /\ Len(ds) \in Nat /\ DOMAIN ds = 1..Len(ds)
      /\ \A d \in 1..Len(ds) : ds[d] \in Nat \ {0}
  BY <1>0, LenProperties, ElementOfSeq
<1>2. f \in AnyFrame /\ f.base = Len(ds) /\ f.blocks = <<>> /\ f.leaving = FALSE
  BY <1>1, NewFrameIs
<1> HIDE DEF f
<1>3. /\ gs \in Seq(AnyFrame) /\ gs # <<>> /\ Len(gs) = Len(fs) + 1
      /\ DOMAIN gs = 1..(Len(fs) + 1)
      /\ (\A i \in 1..Len(fs) : gs[i] = fs[i]) /\ gs[Len(fs) + 1] = f
  BY <1>0, <1>2, AppendIs
<1> HIDE DEF gs
<1>4. \A i \in 1..(Len(fs) + 1) : i \in 1..Len(fs) \/ i = Len(fs) + 1
  BY <1>1
<1>5. Match(hs, gs)
  <2>1. \A d \in DOMAIN hs : hs[d].frame \in DOMAIN gs /\ hs[d].level \in Bodies(gs[hs[d].frame].blocks)
    <3> SUFFICES ASSUME NEW d \in DOMAIN hs
                 PROVE  hs[d].frame \in DOMAIN gs /\ hs[d].level \in Bodies(gs[hs[d].frame].blocks)
      OBVIOUS
    <3>1. hs[d].frame \in 1..Len(fs) /\ hs[d].level \in Bodies(fs[hs[d].frame].blocks)
      BY <1>1 DEF Good, Match
    <3>2. gs[hs[d].frame] = fs[hs[d].frame]
      BY <1>3, <3>1
    <3> QED
      BY <1>1, <1>3, <3>1, <3>2
  <2>2. ASSUME NEW i \in DOMAIN gs, NEW p \in Bodies(gs[i].blocks)
        PROVE  \E d \in DOMAIN hs : hs[d].frame = i /\ hs[d].level = p
    <3>1. i # Len(fs) + 1
      BY <1>2, <1>3, NoBlocks
    <3>2. i \in DOMAIN fs /\ gs[i] = fs[i]
      BY <1>1, <1>3, <1>4, <3>1
    <3> QED
      BY ZenonT(60), <3>2 DEF Good, Match
  <2>3. \A g, h \in DOMAIN hs : g < h => Inside(hs[h], hs[g])
    BY DEF Good, Match
  <2> QED
    BY <2>1, <2>2, <2>3 DEF Match
<1>6. WellFormed(gs)
  <2> SUFFICES ASSUME NEW i \in DOMAIN gs
               PROVE  Nested(gs[i].blocks) /\ (gs[i].leaving => gs[i].blocks = <<>>)
    BY DEF WellFormed
  <2>1. CASE i = Len(fs) + 1
    BY <1>2, <1>3, <2>1, NoBlocks
  <2>2. CASE i \in 1..Len(fs)
    <3>1. gs[i] = fs[i] /\ i \in DOMAIN fs
      BY <1>1, <1>3, <2>2
    <3> QED
      BY <3>1 DEF Good, WellFormed
  <2> QED
    BY <1>3, <1>4, <2>1, <2>2
<1>7. Sections(gs, ds)
  <2>0. /\ \A i \in 1..Len(fs) : fs[i].base <= Len(ds) /\ fs[i].base \in Nat
        /\ \A i, j \in 1..Len(fs) : i <= j => fs[i].base <= fs[j].base
        /\ \A d \in 1..Len(ds) : /\ ds[d] \in 1..Len(fs) /\ d > fs[ds[d]].base
                                 /\ ds[d] < Len(fs) => d <= fs[ds[d] + 1].base
    <3>1. \A i \in 1..Len(fs) : fs[i].base \in Nat
      BY <1>0, <1>1, ElementOfSeq, FrameIs
    <3> QED
      BY <1>1, <3>1 DEF Good, Sections
  <2>1. \A i \in DOMAIN gs : gs[i].base <= Len(ds)
    BY <1>1, <1>2, <1>3, <1>4, <2>0
  <2>2. ASSUME NEW i \in DOMAIN gs, NEW j \in DOMAIN gs, i <= j
        PROVE  gs[i].base <= gs[j].base
    <3>1. CASE j = Len(fs) + 1
      BY <1>2, <1>3, <2>1, <3>1
    <3>2. CASE j # Len(fs) + 1
      <4>1. i \in 1..Len(fs) /\ j \in 1..Len(fs)
        BY <1>1, <1>3, <2>2, <3>2
      <4> QED
        BY <1>3, <2>0, <2>2, <4>1
    <3> QED
      BY <3>1, <3>2
  <2>3. ASSUME NEW d \in 1..Len(ds)
        PROVE  /\ ds[d] \in DOMAIN gs /\ d > gs[ds[d]].base
               /\ ds[d] < Len(gs) => d <= gs[ds[d] + 1].base
    <3>1. /\ ds[d] \in 1..Len(fs) /\ d > fs[ds[d]].base
          /\ ds[d] < Len(fs) => d <= fs[ds[d] + 1].base
      BY <2>0
    <3>2. gs[ds[d]] = fs[ds[d]] /\ ds[d] \in DOMAIN gs
      BY <1>1, <1>3, <3>1
    <3>3. CASE ds[d] = Len(fs)
      BY <1>1, <1>2, <1>3, <3>1, <3>2, <3>3
    <3>4. CASE ds[d] # Len(fs)
      <4>1. ds[d] < Len(fs) /\ ds[d] + 1 \in 1..Len(fs)
        BY <1>1, <3>1, <3>4
      <4>2. gs[ds[d] + 1] = fs[ds[d] + 1]
        BY <1>3, <4>1
      <4> QED
        BY <3>1, <3>2, <4>1, <4>2
    <3> QED
      BY <3>3, <3>4
  <2> QED
    BY <1>1, <2>1, <2>2, <2>3 DEF Sections
<1> QED
  BY <1>0, <1>3, <1>5, <1>6, <1>7 DEF Good, gs, f

\* a return: of a frame that has run its defers and has no handler
LEMMA Pops ==
  ASSUME NEW fs, NEW hs, NEW ds, Good(fs, hs, ds), Len(fs) > 1,
         Len(ds) <= fs[Len(fs)].base, Bodies(fs[Len(fs)].blocks) = {}
  PROVE  /\ Good(Front(fs), hs, ds) /\ Front(fs) # <<>> /\ Len(Front(fs)) = Len(fs) - 1
<1> DEFINE gs == Front(fs)
           m == Len(fs) - 1
<1>0. fs \in Seq(AnyFrame) /\ hs \in Seq(Handler) /\ ds \in Seq(Nat \ {0}) /\ fs # <<>>
  <2>1. Len(<<>>) = 0
    OBVIOUS
  <2> QED
    BY <2>1 DEF Good
<1>1. /\ gs \in Seq(AnyFrame) /\ Len(gs) = m /\ DOMAIN gs = 1..m /\ m \in Nat \ {0}
      /\ DOMAIN fs = 1..Len(fs) /\ Len(fs) = m + 1
      /\ \A i \in 1..m : gs[i] = fs[i]
  <2>1. /\ Len(fs) \in Nat \ {0} /\ DOMAIN fs = 1..Len(fs)
        /\ gs \in Seq(AnyFrame) /\ Len(gs) = Len(fs) - 1 /\ DOMAIN gs = 1..(Len(fs) - 1)
        /\ \A i \in 1..(Len(fs) - 1) : gs[i] = fs[i]
    BY <1>0, FrontIs
  <2> HIDE DEF gs
  <2>2. m \in Nat \ {0} /\ Len(fs) = m + 1
    BY <2>1
  <2> QED
    BY <2>1, <2>2
<1>2. /\ Len(ds) \in Nat /\ DOMAIN ds = 1..Len(ds)
      /\ \A d \in 1..Len(ds) : ds[d] \in Nat \ {0}
  BY <1>0, LenProperties, ElementOfSeq
<1>3. /\ Len(ds) <= fs[m + 1].base /\ Bodies(fs[m + 1].blocks) = {}
  BY <1>1
<1>4. \A i \in 1..Len(fs) : fs[i].base \in Nat
  BY <1>0, <1>1, ElementOfSeq, FrameIs
<1> HIDE DEF gs, m
<1>5. \A i \in 1..m : i \in DOMAIN fs
  BY <1>1
<1>6. Match(hs, gs)
  <2>1. ASSUME NEW d \in DOMAIN hs
        PROVE  hs[d].frame \in DOMAIN gs /\ hs[d].level \in Bodies(gs[hs[d].frame].blocks)
    <3>1. hs[d].frame \in DOMAIN fs /\ hs[d].level \in Bodies(fs[hs[d].frame].blocks)
      BY DEF Good, Match
    <3>2. hs[d].frame # m + 1
      BY <1>3, <3>1
    <3>3. hs[d].frame \in 1..m
      BY <1>1, <3>1, <3>2
    <3> QED
      BY <1>1, <3>1, <3>3
  <2>2. ASSUME NEW i \in DOMAIN gs, NEW p \in Bodies(gs[i].blocks)
        PROVE  \E d \in DOMAIN hs : hs[d].frame = i /\ hs[d].level = p
    <3>1. i \in DOMAIN fs /\ gs[i] = fs[i]
      BY <1>1, <1>5
    <3> QED
      BY ZenonT(60), <3>1 DEF Good, Match
  <2>3. \A g, h \in DOMAIN hs : g < h => Inside(hs[h], hs[g])
    BY DEF Good, Match
  <2> QED
    BY <2>1, <2>2, <2>3 DEF Match
<1>7. WellFormed(gs)
  BY <1>1, <1>5 DEF Good, WellFormed
<1>8. Sections(gs, ds)
  <2>1. \A i \in DOMAIN gs : gs[i].base <= Len(ds)
    BY <1>1, <1>5 DEF Good, Sections
  <2>2. \A i, j \in DOMAIN gs : i <= j => gs[i].base <= gs[j].base
    BY <1>1, <1>5 DEF Good, Sections
  <2>3. ASSUME NEW d \in DOMAIN ds
        PROVE  /\ ds[d] \in DOMAIN gs /\ d > gs[ds[d]].base
               /\ ds[d] < Len(gs) => d <= gs[ds[d] + 1].base
    <3>1. /\ ds[d] \in DOMAIN fs /\ d > fs[ds[d]].base
          /\ ds[d] < Len(fs) => d <= fs[ds[d] + 1].base
      BY DEF Good, Sections
    <3>2. ds[d] # m + 1
      BY <1>1, <1>2, <1>3, <1>4, <3>1
    <3>3. ds[d] \in 1..m
      BY <1>1, <3>1, <3>2
    <3>4. ds[d] < m => gs[ds[d] + 1] = fs[ds[d] + 1]
      BY <1>1, <3>3
    <3> QED
      BY <1>1, <3>1, <3>3, <3>4
  <2> QED
    BY <2>1, <2>2, <2>3 DEF Sections
<1>9. gs # <<>>
  BY <1>1, EmptySeq
<1> QED
  BY <1>0, <1>1, <1>6, <1>7, <1>8, <1>9 DEF Good, gs, m

\* a defer of the top frame is taken off the stack, or put on it
LEMMA TakesDefer ==
  ASSUME NEW fs, NEW hs, NEW ds, Good(fs, hs, ds), fs # <<>>, Len(ds) > fs[Len(fs)].base
  PROVE  Good(fs, hs, Popped(ds, 1))
<1> DEFINE es == Popped(ds, 1)
<1>0. fs \in Seq(AnyFrame) /\ hs \in Seq(Handler) /\ ds \in Seq(Nat \ {0})
  BY DEF Good
<1>1. /\ Len(fs) \in Nat \ {0} /\ DOMAIN fs = 1..Len(fs)
      /\ \A i \in 1..Len(fs) : fs[i].base \in Nat
  BY <1>0, TopIs, ElementOfSeq, FrameIs
<1>2. Len(ds) \in Nat /\ DOMAIN ds = 1..Len(ds)
  BY <1>0, LenProperties
<1>3. Len(ds) - 1 \in 0..Len(ds)
  BY <1>1, <1>2
<1>4. /\ es \in Seq(Nat \ {0}) /\ Len(es) = Len(ds) - 1 /\ DOMAIN es = 1..(Len(ds) - 1)
      /\ \A d \in 1..(Len(ds) - 1) : es[d] = ds[d]
  BY <1>0, <1>3, PrefixIs DEF Popped
<1> HIDE DEF es
<1>5. Sections(fs, es)
  <2>1. \A i \in 1..Len(fs) : fs[i].base <= fs[Len(fs)].base
    <3>1. \A i \in DOMAIN fs : \A j \in DOMAIN fs : i <= j => fs[i].base <= fs[j].base
      BY DEF Good, Sections
    <3>2. \A i \in 1..Len(fs) : i <= Len(fs) /\ i \in DOMAIN fs /\ Len(fs) \in DOMAIN fs
      BY <1>1
    <3> QED
      BY <3>1, <3>2
  <2>2. \A i \in DOMAIN fs : fs[i].base <= Len(es)
    BY <1>1, <1>2, <1>4, <2>1
  <2>3. \A i, j \in DOMAIN fs : i <= j => fs[i].base <= fs[j].base
    BY DEF Good, Sections
  <2>4. ASSUME NEW d \in DOMAIN es
        PROVE  d \in DOMAIN ds /\ es[d] = ds[d]
    <3>1. d \in 1..(Len(ds) - 1)
      BY <1>4
    <3> QED
      BY <1>2, <1>4, <3>1
  <2>5. \A d \in DOMAIN es : /\ es[d] \in DOMAIN fs /\ d > fs[es[d]].base
                             /\ es[d] < Len(fs) => d <= fs[es[d] + 1].base
    BY <2>4 DEF Good, Sections
  <2> QED
    BY <2>2, <2>3, <2>5 DEF Sections
<1> QED
  BY <1>4, <1>5 DEF Good, es

LEMMA AddsDefer ==
  ASSUME NEW fs, NEW hs, NEW ds, Good(fs, hs, ds), fs # <<>>
  PROVE  Good(fs, hs, Append(ds, Len(fs)))
<1> DEFINE es == Append(ds, Len(fs))
<1>0. fs \in Seq(AnyFrame) /\ hs \in Seq(Handler) /\ ds \in Seq(Nat \ {0})
  BY DEF Good
<1>1. /\ Len(fs) \in Nat \ {0} /\ DOMAIN fs = 1..Len(fs)
      /\ \A i \in 1..Len(fs) : fs[i].base \in Nat
  BY <1>0, TopIs, ElementOfSeq, FrameIs
<1>2. /\ es \in Seq(Nat \ {0}) /\ Len(es) = Len(ds) + 1 /\ DOMAIN es = 1..(Len(ds) + 1)
      /\ Len(ds) \in Nat /\ DOMAIN ds = 1..Len(ds)
      /\ (\A d \in 1..Len(ds) : es[d] = ds[d]) /\ es[Len(ds) + 1] = Len(fs)
  BY <1>0, <1>1, AppendIs
<1> HIDE DEF es
<1>3. Sections(fs, es)
  <2>1. \A i \in DOMAIN fs : fs[i].base <= Len(ds)
    BY DEF Good, Sections
  <2>2. \A i \in DOMAIN fs : fs[i].base <= Len(es)
    BY <1>1, <1>2, <2>1
  <2>3. \A i, j \in DOMAIN fs : i <= j => fs[i].base <= fs[j].base
    BY DEF Good, Sections
  <2>4. ASSUME NEW d \in DOMAIN es
        PROVE  /\ es[d] \in DOMAIN fs /\ d > fs[es[d]].base
               /\ es[d] < Len(fs) => d <= fs[es[d] + 1].base
    <3>1. CASE d = Len(ds) + 1
      <4>1. es[d] = Len(fs) /\ fs[Len(fs)].base <= Len(ds) /\ fs[Len(fs)].base \in Nat
        BY <1>1, <1>2, <2>1, <3>1
      <4> QED
        BY <1>1, <1>2, <3>1, <4>1
    <3>2. CASE d \in 1..Len(ds)
      <4>1. d \in DOMAIN ds /\ es[d] = ds[d]
        BY <1>2, <3>2
      <4> QED
        BY <4>1 DEF Good, Sections
    <3> QED
      BY <1>2, <3>1, <3>2
  <2> QED
    BY <2>2, <2>3, <2>4 DEF Sections
<1> QED
  BY <1>2, <1>3 DEF Good, es

LEMMA Starts == Good(<<>>, <<>>, <<>>) /\ Good(<<NewFrame(0)>>, <<>>, <<>>)
<1>1. Good(<<>>, <<>>, <<>>)
  BY DEF Good, Sections, Match, WellFormed
<1> DEFINE e == Append(<<>>, NewFrame(Len(<<>>)))
<1>2. Good(e, <<>>, <<>>)
  BY <1>1, Pushes
<1>3. e = <<NewFrame(0)>>
  OBVIOUS
<1> QED
  BY <1>1, <1>2, <1>3
-----------------------------------------------------------------------------
(* What a handler of the top frame stands for.                             *)

LEMMA HandlersAre ==
  ASSUME NEW fs, NEW hs, NEW ds, Good(fs, hs, ds), fs # <<>>
  PROVE  /\ Len(hs) \in Nat /\ DOMAIN hs = 1..Len(hs)
         /\ \A d \in 1..Len(hs) :
              /\ hs[d].frame \in 1..Len(fs) /\ hs[d].level \in Nat \ {0}
              /\ hs[d].frame = Len(fs) => hs[d].level \in Bodies(fs[Len(fs)].blocks)
         /\ \A g, h \in 1..Len(hs) : g < h => Inside(hs[h], hs[g])
         /\ \A p \in Bodies(fs[Len(fs)].blocks) :
              \E d \in 1..Len(hs) : hs[d].frame = Len(fs) /\ hs[d].level = p
<1>0. fs \in Seq(AnyFrame) /\ hs \in Seq(Handler) /\ Match(hs, fs)
  BY DEF Good
<1>1. /\ Len(hs) \in Nat /\ DOMAIN hs = 1..Len(hs) /\ \A d \in 1..Len(hs) : hs[d] \in Handler
  BY <1>0, LenProperties, ElementOfSeq
<1>2. Len(fs) \in Nat \ {0} /\ DOMAIN fs = 1..Len(fs) /\ Len(fs) \in DOMAIN fs
  BY <1>0, TopIs
<1>3. \A d \in 1..Len(hs) : hs[d].level \in Nat \ {0}
  BY <1>1 DEF Handler
<1>4. \A d \in 1..Len(hs) : hs[d].frame \in 1..Len(fs) /\ hs[d].level \in Bodies(fs[hs[d].frame].blocks)
  BY <1>0, <1>1, <1>2 DEF Match
<1>5. \A g, h \in 1..Len(hs) : g < h => Inside(hs[h], hs[g])
  BY <1>0, <1>1 DEF Match
<1>6. ASSUME NEW p \in Bodies(fs[Len(fs)].blocks)
      PROVE  \E d \in 1..Len(hs) : hs[d].frame = Len(fs) /\ hs[d].level = p
  <2>1. \E d \in DOMAIN hs : hs[d].frame = Len(fs) /\ hs[d].level = p
    BY <1>0, <1>2 DEF Match
  <2> QED
    BY <1>1, <2>1
<1> QED
  BY <1>1, <1>3, <1>4, <1>5, <1>6

\* the handlers of the top frame's blocks above level k are the last ones, as
\* many as there are such bodies
LEMMA Counts ==
  ASSUME NEW fs, NEW hs, NEW ds, Good(fs, hs, ds), fs # <<>>, NEW k \in Int,
         NEW S, S = {p \in Bodies(fs[Len(fs)].blocks) : p > k}
  PROVE  /\ Cardinality(S) \in 0..Len(hs)
         /\ \A d \in 1..Len(hs) :
              d <= Len(hs) - Cardinality(S) <=> ~(hs[d].frame = Len(fs) /\ hs[d].level > k)
<1> DEFINE N == Len(hs)
           J == {d \in 1..N : hs[d].frame = Len(fs) /\ hs[d].level > k}
           f == [d \in J |-> hs[d].level]
<1>1. /\ N \in Nat
      /\ \A d \in 1..N :
           /\ hs[d].frame \in 1..Len(fs) /\ hs[d].level \in Nat \ {0}
           /\ hs[d].frame = Len(fs) => hs[d].level \in Bodies(fs[Len(fs)].blocks)
      /\ \A g, h \in 1..N : g < h => Inside(hs[h], hs[g])
      /\ \A p \in Bodies(fs[Len(fs)].blocks) :
           \E d \in 1..N : hs[d].frame = Len(fs) /\ hs[d].level = p
  <2> HIDE DEF N, J, f
  <2>1. Len(hs) \in Nat
    BY HandlersAre
  <2>2. \A d \in 1..Len(hs) :
          /\ hs[d].frame \in 1..Len(fs) /\ hs[d].level \in Nat \ {0}
          /\ hs[d].frame = Len(fs) => hs[d].level \in Bodies(fs[Len(fs)].blocks)
    BY HandlersAre
  <2>3. \A g, h \in 1..Len(hs) : g < h => Inside(hs[h], hs[g])
    BY HandlersAre
  <2>4. \A p \in Bodies(fs[Len(fs)].blocks) :
          \E d \in 1..Len(hs) : hs[d].frame = Len(fs) /\ hs[d].level = p
    BY HandlersAre
  <2> QED
    BY <2>1, <2>2, <2>3, <2>4 DEF N
<1>2. Len(fs) \in Nat \ {0}
  BY TopIs DEF Good
<1> HIDE DEF N
<1>3. \A j \in J : \A d \in 1..N : j <= d => d \in J
  <2> SUFFICES ASSUME NEW j \in J, NEW d \in 1..N, j <= d, j # d
               PROVE  d \in J
    OBVIOUS
  <2>1. Inside(hs[d], hs[j])
    <3>1. j \in 1..N /\ j < d
      BY <1>1
    <3> QED
      BY <1>1, <3>1
  <2>2. /\ hs[j].frame = Len(fs) /\ hs[j].level > k
        /\ hs[d].frame \in 1..Len(fs) /\ hs[d].level \in Nat /\ hs[j].level \in Nat
    BY <1>1
  <2>3. hs[d].frame = Len(fs) /\ hs[d].level > k
    BY <1>2, <2>1, <2>2 DEF Inside
  <2> QED
    BY <2>3
<1>4. J \in SUBSET (1..N)
  OBVIOUS
<1>5. f \in [J -> S]
  BY <1>1
<1>6. \A a, b \in J : f[a] = f[b] => a = b
  <2>1. ASSUME NEW a \in J, NEW b \in J, a < b
        PROVE  f[a] # f[b]
    <3>1. Inside(hs[b], hs[a])
      BY <1>1, <2>1
    <3>2. /\ hs[a].frame = hs[b].frame /\ hs[a].level \in Nat /\ hs[b].level \in Nat
          /\ hs[a].frame \in Nat
      BY <1>1, <1>2
    <3>3. hs[b].level > hs[a].level
      BY <3>1, <3>2 DEF Inside
    <3> QED
      BY <3>2, <3>3
  <2>2. ASSUME NEW a \in J, NEW b \in J
        PROVE  a < b \/ b < a \/ a = b
    <3>1. a \in Nat /\ b \in Nat
      BY <1>1
    <3> QED
      BY <3>1
  <2> HIDE DEF f, J
  <2> QED
    BY <2>1, <2>2
<1>7. \A p \in S : \E d \in J : f[d] = p
  <2> SUFFICES ASSUME NEW p \in S
               PROVE  \E d \in J : f[d] = p
    OBVIOUS
  <2>1. PICK d \in 1..N : hs[d].frame = Len(fs) /\ hs[d].level = p
    BY <1>1
  <2>2. d \in J
    BY <2>1
  <2> QED
    BY <2>1, <2>2
<1> HIDE DEF f
<1>8. ExistsBijection(J, S)
  <2> HIDE DEF J
  <2>1. f \in Bijection(J, S)
    BY <1>5, <1>6, <1>7 DEF Bijection, Injection, Surjection, IsInjective
  <2> QED
    BY <2>1 DEF ExistsBijection
<1>9. IsFiniteSet(J)
  <2>1. IsFiniteSet(1..N)
    BY <1>1, FS_Interval
  <2> QED
    BY <1>4, <2>1, FS_Subset
<1>10. Cardinality(S) = Cardinality(J)
  BY <1>8, <1>9, FS_Bijection
<1> HIDE DEF J
<1>11. /\ Cardinality(J) \in 0..N
       /\ \A d \in 1..N : d \in J <=> d > N - Cardinality(J)
  BY <1>1, <1>3, <1>4, UpperSet
<1>12. \A d \in 1..N : d \in J <=> hs[d].frame = Len(fs) /\ hs[d].level > k
  BY DEF J
<1>13. \A d \in 1..N : d <= N - Cardinality(J) <=> ~(d > N - Cardinality(J))
  BY <1>1, <1>11
<1>14. \A d \in 1..N : d <= N - Cardinality(J) <=> ~(hs[d].frame = Len(fs) /\ hs[d].level > k)
  BY <1>11, <1>12, <1>13
<1> QED
  BY <1>10, <1>11, <1>14 DEF N

\* no handler belongs to a frame that is gone
LEMMA KeptIs ==
  ASSUME Good(frames, handlers, defers), frames # <<>>
  PROVE  Kept = Len(handlers)
<1> DEFINE S == {0} \cup {h \in DOMAIN handlers : handlers[h].frame <= Depth}
           N == Len(handlers)
<1>1. /\ N \in Nat /\ DOMAIN handlers = 1..N
      /\ \A d \in 1..N : handlers[d].frame \in 1..Depth
  BY HandlersAre DEF Depth
<1>2. Depth \in Nat
  BY LenProperties DEF Good, Depth
<1> HIDE DEF N
<1>3. N \in S /\ S \in SUBSET (0..N) /\ S # {}
  BY <1>1, <1>2
<1>4. Kept = Max(S)
  BY DEF Kept
<1> HIDE DEF S
<1>5. Max(S) \in S /\ \A y \in S : y <= Max(S)
  BY <1>1, <1>3, MaxIs
<1>6. Max(S) \in 0..N /\ N <= Max(S)
  BY <1>3, <1>5
<1>7. Max(S) = N
  BY <1>1, <1>6
<1> QED
  BY <1>4, <1>7 DEF N
-----------------------------------------------------------------------------
(* Statements and their ends.                                              *)

LEMMA HereIs ==
  ASSUME StackInv, mode # "failed"
  PROVE  /\ Good(frames, handlers, defers) /\ frames # <<>>
         /\ frames \in Seq(AnyFrame) /\ Depth \in Nat \ {0} /\ Top \in AnyFrame
         /\ Blocks \in Seq(AnyBlock) /\ Len(Blocks) \in Nat /\ DOMAIN Blocks = 1..Len(Blocks)
         /\ \A p \in 1..Len(Blocks) : Blocks[p] \in AnyBlock
         /\ Nested(Blocks) /\ (Top.leaving => Blocks = <<>>)
<1>1. Good(frames, handlers, defers) /\ frames # <<>> /\ frames \in Seq(AnyFrame)
  BY DEF StackInv, Good
<1>2. Depth \in Nat \ {0} /\ Depth \in DOMAIN frames /\ Top \in AnyFrame
  BY <1>1, TopIs DEF Depth, Top
<1>3. Blocks \in Seq(AnyBlock)
  BY <1>2, FrameIs DEF Blocks
<1>4. /\ Len(Blocks) \in Nat /\ DOMAIN Blocks = 1..Len(Blocks)
      /\ \A p \in 1..Len(Blocks) : Blocks[p] \in AnyBlock
  BY <1>3, LenProperties, ElementOfSeq
<1>5. Nested(Blocks) /\ (Top.leaving => Blocks = <<>>)
  BY <1>1, <1>2 DEF Good, WellFormed, Top, Blocks
<1> QED
  BY <1>1, <1>2, <1>3, <1>4, <1>5

LEMMA Replaces ==
  ASSUME NEW fs, NEW hs, NEW ds, Good(fs, hs, ds), fs # <<>>,
         NEW f \in AnyFrame, f.base = fs[Len(fs)].base,
         Nested(f.blocks), f.leaving => f.blocks = <<>>,
         Bodies(f.blocks) = Bodies(fs[Len(fs)].blocks)
  PROVE  /\ Good([fs EXCEPT ![Len(fs)] = f], hs, ds)
         /\ [fs EXCEPT ![Len(fs)] = f] # <<>> /\ Len([fs EXCEPT ![Len(fs)] = f]) = Len(fs)
         /\ [fs EXCEPT ![Len(fs)] = f][Len(fs)] = f
<1>0. fs \in Seq(AnyFrame)
  BY DEF Good
<1> DEFINE gs == [fs EXCEPT ![Len(fs)] = f]
<1>1. Edited(fs, gs, f.blocks, f.leaving) /\ gs # <<>> /\ Len(gs) = Len(fs) /\ gs[Len(fs)] = f
  BY <1>0, EditIs
<1> HIDE DEF gs
<1>2. Good(gs, hs, ds)
  BY <1>1, Keeps
<1> QED
  BY <1>1, <1>2 DEF gs

LEMMA ThrowKeeps ==
  ASSUME NEW fs, NEW hs, NEW ds, Good(fs, hs, ds), fs # <<>>, Throws(fs)
  PROVE  /\ Good(frames', hs, ds) /\ frames' # <<>> /\ Len(frames') = Len(fs)
         /\ mode' = "unwind" /\ pending' = FALSE
<1>0. fs \in Seq(AnyFrame)
  BY DEF Good
<1> DEFINE bs == fs[Len(fs)].blocks
           lv == fs[Len(fs)].leaving
<1>1. /\ Edited(fs, frames', bs, lv) /\ frames' # <<>> /\ Len(frames') = Len(fs)
      /\ mode' = "unwind" /\ pending' = FALSE
  BY <1>0, ThrowIs
<1>2. Nested(bs) /\ (lv => bs = <<>>)
  BY <1>0, TopIs DEF Good, WellFormed
<1>3. Bodies(bs) = Bodies(fs[Len(fs)].blocks)
  OBVIOUS
<1> HIDE DEF bs, lv
<1>4. Good(frames', hs, ds)
  BY <1>1, <1>2, <1>3, Keeps
<1> QED
  BY <1>1, <1>4

\* the top frame with other blocks, and with its exception or without it
LEMMA BlocksReplaced ==
  ASSUME StackInv, mode # "failed", ~Top.leaving,
         NEW bs \in Seq(AnyBlock), Nested(bs), Bodies(bs) = Bodies(Blocks)
  PROVE  /\ Good(WithBlocks(bs), handlers, defers) /\ WithBlocks(bs) # <<>>
         /\ Good(WithTop([Top EXCEPT !.blocks = bs, !.exc = FALSE]), handlers, defers)
         /\ WithTop([Top EXCEPT !.blocks = bs, !.exc = FALSE]) # <<>>
<1>1. Good(frames, handlers, defers) /\ frames # <<>> /\ Top \in AnyFrame
  BY HereIs
<1> DEFINE f == [Top EXCEPT !.blocks = bs]
           g == [Top EXCEPT !.blocks = bs, !.exc = FALSE]
<1>2. /\ f \in AnyFrame /\ f.base = Top.base /\ f.blocks = bs /\ f.leaving = Top.leaving
      /\ g \in AnyFrame /\ g.base = Top.base /\ g.blocks = bs /\ g.leaving = Top.leaving
  BY <1>1 DEF AnyFrame
<1>3. WithBlocks(bs) = [frames EXCEPT ![Len(frames)] = f]
  BY DEF WithBlocks, WithTop, Depth
<1>4. WithTop(g) = [frames EXCEPT ![Len(frames)] = g]
  BY DEF WithTop, Depth
<1> HIDE DEF f, g
<1>5. Good([frames EXCEPT ![Len(frames)] = f], handlers, defers)
      /\ [frames EXCEPT ![Len(frames)] = f] # <<>>
  BY <1>1, <1>2, Replaces DEF Top, Blocks, Depth
<1>6. Good([frames EXCEPT ![Len(frames)] = g], handlers, defers)
      /\ [frames EXCEPT ![Len(frames)] = g] # <<>>
  BY <1>1, <1>2, Replaces DEF Top, Blocks, Depth
<1> QED
  BY <1>3, <1>4, <1>5, <1>6 DEF g

\* what can become of a block that is not an inlined finally
LEMMA EndOfBlock ==
  ASSUME StackInv, mode # "failed", Blocks # <<>>, Last(Blocks).part # "inlined"
  PROVE  /\ Front(Blocks) \in Seq(AnyBlock) /\ Nested(Front(Blocks))
         /\ Bodies(Front(Blocks)) = {p \in Bodies(Blocks) : p <= Len(Blocks) - 1}
         /\ \A part \in {"dispatch", "except", "finally", "cleanup"} :
              Last(Blocks).part # "loop" =>
                /\ GoesTo(part) \in Seq(AnyBlock) /\ Nested(GoesTo(part))
                /\ Bodies(GoesTo(part)) = {p \in Bodies(Blocks) : p <= Len(Blocks) - 1}
<1>1. /\ Blocks \in Seq(AnyBlock) /\ Nested(Blocks)
      /\ Len(Blocks) \in Nat \ {0} /\ DOMAIN Blocks = 1..Len(Blocks)
      /\ Last(Blocks) = Blocks[Len(Blocks)] /\ Last(Blocks) \in AnyBlock
      /\ Front(Blocks) \in Seq(AnyBlock) /\ Len(Front(Blocks)) = Len(Blocks) - 1
      /\ \A i \in 1..(Len(Blocks) - 1) : Front(Blocks)[i] = Blocks[i]
  <2>1. Blocks \in Seq(AnyBlock) /\ Nested(Blocks)
    BY HereIs
  <2> QED
    BY <2>1, FrontIs
<1> DEFINE n == Len(Blocks) - 1
<1>2. n \in 0..Len(Blocks) /\ Front(Blocks) = SubSeq(Blocks, 1, n) /\ Len(Blocks) = n + 1
  BY <1>1 DEF Front
<1>3. \A q \in DOMAIN Blocks : q > n /\ Blocks[q].part = "inlined" => Blocks[q].keep >= n
  <2>1. \A q \in DOMAIN Blocks : q > n => q = Len(Blocks)
    BY <1>1
  <2> QED
    BY <1>1, <2>1
<1> HIDE DEF n
<1>4. Nested(Front(Blocks)) /\ Bodies(Front(Blocks)) = {p \in Bodies(Blocks) : p <= n}
  BY <1>1, <1>2, <1>3, PrefixOfBlocks
<1>5. ASSUME NEW part \in {"dispatch", "except", "finally", "cleanup"},
             Last(Blocks).part # "loop"
      PROVE  /\ GoesTo(part) \in Seq(AnyBlock) /\ Nested(GoesTo(part))
             /\ Bodies(GoesTo(part)) = {p \in Bodies(Blocks) : p <= n}
  <2> DEFINE b == [Last(Blocks) EXCEPT !.part = part]
             cs == Append(Front(Blocks), b)
  <2>1. b \in AnyBlock /\ b.part = part
    <3>1. Last(Blocks) \in [part : {"body", "dispatch", "except", "finally", "cleanup"},
                            kind : Kinds \ {"loop"}]
      BY <1>1, <1>5 DEF AnyBlock, InlinedBlock
    <3>2. b \in [part : {"body", "dispatch", "except", "finally", "cleanup"},
                 kind : Kinds \ {"loop"}]
      BY <3>1
    <3> QED
      BY <3>1, <3>2 DEF AnyBlock
  <2>2. /\ cs \in Seq(AnyBlock) /\ Nested(cs) /\ Bodies(cs) = Bodies(Front(Blocks))
    <3> HIDE DEF b
    <3>1. b.part # "inlined" /\ b.part # "body"
      BY <2>1
    <3> QED
      BY <1>1, <1>4, <2>1, <3>1, OneMoreBlock
  <2>3. GoesTo(part) = cs
    <3>1. /\ GoesTo(part) \in Seq(AnyBlock) /\ Len(GoesTo(part)) = Len(Blocks)
          /\ GoesTo(part)[Len(Blocks)] = b
          /\ \A i \in 1..n : GoesTo(part)[i] = Blocks[i]
      <4>1. GoesTo(part) = [Blocks EXCEPT ![Len(Blocks)] = b]
        BY <1>1 DEF GoesTo
      <4> HIDE DEF b
      <4>2. Len(Blocks) \in 1..Len(Blocks)
        BY <1>1
      <4>3. [Blocks EXCEPT ![Len(Blocks)] = b] \in Seq(AnyBlock)
            /\ Len([Blocks EXCEPT ![Len(Blocks)] = b]) = Len(Blocks)
        BY <1>1, <2>1, <4>2, ExceptSeq
      <4> QED
        BY <1>1, <1>2, <4>1, <4>2, <4>3
    <3>2. /\ Len(cs) = Len(Blocks) /\ cs[Len(Blocks)] = b
          /\ \A i \in 1..n : cs[i] = Blocks[i]
      <4> HIDE DEF b
      <4>1. /\ Len(cs) = Len(Front(Blocks)) + 1 /\ cs[Len(Front(Blocks)) + 1] = b
            /\ \A i \in 1..Len(Front(Blocks)) : cs[i] = Front(Blocks)[i]
        <5> DEFINE front == Front(Blocks)
        <5>1. front \in Seq(AnyBlock)
          BY <1>1
        <5> HIDE DEF front
        <5>2. /\ Len(Append(front, b)) = Len(front) + 1 /\ Append(front, b)[Len(front) + 1] = b
              /\ \A i \in 1..Len(front) : Append(front, b)[i] = front[i]
          BY <2>1, <5>1, AppendIs
        <5> QED
          BY <5>2 DEF front
      <4>2. Len(Front(Blocks)) = n
        BY <1>1, <1>2
      <4> HIDE DEF cs
      <4> QED
        BY <1>1, <1>2, <4>1, <4>2
    <3> HIDE DEF cs, b
    <3>3. \A i \in 1..Len(Blocks) : GoesTo(part)[i] = cs[i]
      <4>1. \A i \in 1..Len(Blocks) : i \in 1..n \/ i = Len(Blocks)
        BY <1>1, <1>2
      <4> QED
        BY <3>1, <3>2, <4>1
    <3> QED
      BY <2>2, <3>1, <3>2, <3>3, SeqEqual
  <2> HIDE DEF cs
  <2> QED
    BY <1>4, <2>2, <2>3
<1> QED
  BY <1>1, <1>4, <1>5 DEF n

LEMMA InStatementIs ==
  ASSUME InStatement \/ (Instruction /\ Part \in {"dispatch", "cleanup"}), StackInv
  PROVE  mode \in {"run", "late"} /\ ~Top.leaving
<1>1. mode \in {"run", "late"}
  BY DEF InStatement, Instruction
<1>2. CASE InStatement
  BY <1>1, <1>2 DEF InStatement
<1>3. CASE Part \in {"dispatch", "cleanup"}
  <2>1. Blocks # <<>>
    BY <1>3 DEF Part
  <2> QED
    BY <1>1, <2>1, HereIs
<1> QED
  BY <1>2, <1>3

LEMMA LoopSteps ==
  ASSUME StackInv, EnterLoop \/ EndLoop
  PROVE  StackInv'
<1>1. mode \in {"run", "late"} /\ ~Top.leaving
  BY InStatementIs DEF EnterLoop, EndLoop, Enters, Statement
<1>2. /\ Blocks \in Seq(AnyBlock) /\ Nested(Blocks)
  BY <1>1, HereIs
<1>3. CASE EnterLoop
  <2> DEFINE b == [part |-> "loop", kind |-> "loop"]
             cs == Append(Blocks, b)
  <2>1. b \in AnyBlock /\ b.part = "loop"
    BY DEF AnyBlock
  <2>2. cs \in Seq(AnyBlock) /\ Nested(cs) /\ Bodies(cs) = Bodies(Blocks)
    <3> HIDE DEF b
    <3>1. b.part # "inlined" /\ b.part # "body"
      BY <2>1
    <3> QED
      BY <1>2, <2>1, <3>1, OneMoreBlock
  <2>3. frames' = WithBlocks(cs) /\ OnlyFrames
    BY <1>3 DEF EnterLoop, Enters
  <2> HIDE DEF cs
  <2>4. Good(WithBlocks(cs), handlers, defers) /\ WithBlocks(cs) # <<>>
    BY <1>1, <2>2, BlocksReplaced
  <2> QED
    BY <2>3, <2>4 DEF StackInv, OnlyFrames
<1>4. CASE EndLoop
  <2> DEFINE cs == Front(Blocks)
  <2>1. Blocks # <<>> /\ Last(Blocks).part = "loop"
    BY <1>4 DEF EndLoop, Part
  <2>2. frames' = WithBlocks(cs) /\ OnlyFrames
    BY <1>4 DEF EndLoop
  <2>3. /\ cs \in Seq(AnyBlock) /\ Nested(cs)
        /\ Bodies(cs) = {p \in Bodies(Blocks) : p <= Len(Blocks) - 1}
    BY <1>1, <2>1, EndOfBlock
  <2>4. Bodies(cs) = Bodies(Blocks)
    <3>1. /\ Len(Blocks) \in Nat /\ DOMAIN Blocks = 1..Len(Blocks)
          /\ Blocks[Len(Blocks)].part = "loop"
      BY <1>1, <2>1, HereIs DEF Last
    <3>2. \A p \in Bodies(Blocks) : p \in 1..Len(Blocks) /\ p # Len(Blocks)
      BY <3>1 DEF Bodies
    <3>3. \A p \in Bodies(Blocks) : p <= Len(Blocks) - 1
      BY <3>1, <3>2
    <3> QED
      BY <2>3, <3>3
  <2> HIDE DEF cs
  <2>5. Good(WithBlocks(cs), handlers, defers) /\ WithBlocks(cs) # <<>>
    BY <1>1, <2>3, <2>4, BlocksReplaced
  <2> QED
    BY <2>2, <2>5 DEF StackInv, OnlyFrames
<1> QED
  BY <1>3, <1>4

LEMMA EnterTryStep ==
  ASSUME StackInv, NEW kind \in Kinds \ {"loop"}, EnterTry(kind)
  PROVE  StackInv'
<1>1. mode \in {"run", "late"} /\ ~Top.leaving /\ mode' = mode /\ defers' = defers
  BY InStatementIs DEF EnterTry, Enters, Statement
<1>2. /\ Good(frames, handlers, defers) /\ frames # <<>> /\ frames \in Seq(AnyFrame)
      /\ Top \in AnyFrame /\ Blocks \in Seq(AnyBlock) /\ Nested(Blocks)
      /\ Len(Blocks) \in Nat /\ DOMAIN Blocks = 1..Len(Blocks)
  BY <1>1, HereIs
<1> DEFINE b == [part |-> "body", kind |-> kind]
           cs == Append(Blocks, b)
           l == Len(Blocks) + 1
           f == [Top EXCEPT !.blocks = cs]
           gs == [frames EXCEPT ![Len(frames)] = f]
<1>3. b \in AnyBlock /\ b.part = "body"
  BY DEF AnyBlock
<1>4. /\ frames' = gs
      /\ handlers' = Append(handlers, [frame |-> Len(frames), level |-> l])
  BY DEF EnterTry, Enters, WithBlocks, WithTop, Depth
<1> HIDE DEF b
<1>5. cs \in Seq(AnyBlock) /\ Nested(cs) /\ Bodies(cs) = Bodies(Blocks) \cup {l}
  <2>1. b.part # "inlined" /\ b.part = "body"
    BY <1>3
  <2> QED
    BY <1>2, <1>3, <2>1, OneMoreBlock
<1> HIDE DEF cs
<1>6. f \in AnyFrame /\ f.base = Top.base /\ f.blocks = cs /\ f.leaving = FALSE
  BY <1>1, <1>2, <1>5 DEF AnyFrame
<1> HIDE DEF f
<1>7. Edited(frames, gs, cs, FALSE) /\ gs # <<>>
  BY ZenonT(60), <1>2, <1>6, EditIs DEF Top, Depth
<1>8. \A p \in Bodies(Blocks) : p < l
  BY <1>2 DEF Bodies
<1>9. l \in Nat \ {0}
  BY <1>2
<1> HIDE DEF gs, l
<1>10. /\ Bodies(cs) = Bodies(frames[Len(frames)].blocks) \cup {l}
       /\ \A p \in Bodies(frames[Len(frames)].blocks) : p < l
  BY <1>5, <1>8 DEF Blocks, Top, Depth
<1>11. Good(gs, Append(handlers, [frame |-> Len(frames), level |-> l]), defers)
  BY <1>2, <1>5, <1>7, <1>9, <1>10, OpensTry
<1> QED
  BY <1>1, <1>4, <1>7, <1>11 DEF StackInv

\* a try or an except clause is over
LEMMA AfterTryIs ==
  ASSUME StackInv, Instruction, Part \in {"body", "except"}
  PROVE  /\ Blocks # <<>> /\ Last(Blocks).part = Part
         /\ AfterTry \in Seq(AnyBlock) /\ Nested(AfterTry)
         /\ Bodies(AfterTry) = {p \in Bodies(Blocks) : p <= Len(Blocks) - 1}
<1>1. mode # "failed" /\ Blocks # <<>> /\ Last(Blocks).part = Part
  BY DEF Part, Instruction
<1>2. Last(Blocks) \in AnyBlock
  BY <1>1, HereIs, FrontIs
<1>3. Last(Blocks).kind \in {"try", "tryFinally", "with"}
  BY <1>1, <1>2, BlockIs
<1>4. Last(Blocks).part # "inlined" /\ Last(Blocks).part # "loop"
  BY <1>1
<1>5. AfterTry = Front(Blocks) \/ AfterTry = GoesTo("finally") \/ AfterTry = GoesTo("cleanup")
  BY <1>3 DEF AfterTry
<1>6. \A cs : cs = Front(Blocks) \/ cs = GoesTo("finally") \/ cs = GoesTo("cleanup") =>
        /\ cs \in Seq(AnyBlock) /\ Nested(cs)
        /\ Bodies(cs) = {p \in Bodies(Blocks) : p <= Len(Blocks) - 1}
  BY <1>1, <1>4, EndOfBlock
<1> QED
  BY <1>1, <1>5, <1>6

LEMMA EndBodyStep ==
  ASSUME StackInv, EndBody
  PROVE  StackInv'
<1>1. /\ Instruction /\ mode \in {"run", "late"} /\ ~Top.leaving /\ Part = "body"
      /\ mode' = mode /\ defers' = defers
  BY InStatementIs DEF EndBody, Statement, InStatement
<1>2. /\ Good(frames, handlers, defers) /\ frames # <<>> /\ frames \in Seq(AnyFrame)
      /\ Top \in AnyFrame /\ Blocks \in Seq(AnyBlock)
      /\ Len(Blocks) \in Nat /\ DOMAIN Blocks = 1..Len(Blocks)
  BY <1>1, HereIs
<1> DEFINE cs == AfterTry
           k == Len(Blocks) - 1
           f == [Top EXCEPT !.blocks = cs]
           gs == [frames EXCEPT ![Len(frames)] = f]
           S == {p \in Bodies(frames[Len(frames)].blocks) : p > k}
<1>3. /\ frames' = gs /\ handlers' = SubSeq(handlers, 1, Len(handlers) - 1)
  BY DEF EndBody, WithBlocks, WithTop, Depth, Popped
<1>4. /\ Blocks # <<>> /\ Last(Blocks).part = "body"
      /\ cs \in Seq(AnyBlock) /\ Nested(cs) /\ Bodies(cs) = {p \in Bodies(Blocks) : p <= k}
  BY <1>1, AfterTryIs
<1> HIDE DEF cs
<1>5. f \in AnyFrame /\ f.base = Top.base /\ f.blocks = cs /\ f.leaving = FALSE
  BY <1>1, <1>2, <1>4 DEF AnyFrame
<1> HIDE DEF f
<1>6. Edited(frames, gs, cs, FALSE) /\ gs # <<>>
  BY ZenonT(60), <1>2, <1>5, EditIs DEF Top, Depth
<1> HIDE DEF gs
<1>7. S = {Len(Blocks)}
  <2>1. Len(Blocks) \in 1..Len(Blocks) /\ Blocks[Len(Blocks)].part = "body"
    BY <1>2, <1>4, EmptySeq DEF Last
  <2>2. ~BeingLeft(Blocks, Len(Blocks))
    BY <1>2 DEF BeingLeft
  <2>3. Len(Blocks) \in Bodies(Blocks)
    BY <1>2, <2>1, <2>2 DEF Bodies
  <2>4. \A p \in Bodies(Blocks) : p \in 1..Len(Blocks)
    BY <1>2 DEF Bodies
  <2>5. S = {p \in Bodies(Blocks) : p > k}
    BY DEF Blocks, Top, Depth
  <2>6. \A p : p \in S <=> p = Len(Blocks)
    BY <1>2, <2>3, <2>4, <2>5
  <2> QED
    BY <2>6
<1>8. k \in Int
  BY <1>2
<1>9. Bodies(cs) = {p \in Bodies(frames[Len(frames)].blocks) : p <= k}
  BY <1>4 DEF Blocks, Top, Depth
<1>10. Cardinality(S) = 1
  BY <1>7, FS_Singleton
<1> HIDE DEF k
<1>11. /\ Cardinality(S) \in 0..Len(handlers)
       /\ \A d \in 1..Len(handlers) :
            d <= Len(handlers) - Cardinality(S)
              <=> ~(handlers[d].frame = Len(frames) /\ handlers[d].level > k)
  BY <1>2, <1>8, Counts
<1> HIDE DEF S
<1>12. /\ Len(handlers) - 1 \in 0..Len(handlers)
       /\ \A d \in 1..Len(handlers) :
            d <= Len(handlers) - 1
              <=> ~(handlers[d].frame = Len(frames) /\ handlers[d].level > k)
  <2>1. Len(handlers) \in Nat
    BY <1>2, LenProperties DEF Good
  <2> QED
    BY <1>10, <1>11, <2>1
<1>13. Good(gs, SubSeq(handlers, 1, Len(handlers) - 1), defers)
  <2> DEFINE n == Len(handlers) - 1
  <2> HIDE DEF n
  <2>1. /\ n \in 0..Len(handlers)
        /\ \A d \in 1..Len(handlers) :
             d <= n <=> ~(handlers[d].frame = Len(frames) /\ handlers[d].level > k)
    BY <1>12 DEF n
  <2>2. Good(gs, SubSeq(handlers, 1, n), defers)
    BY <1>2, <1>4, <1>6, <1>8, <1>9, <2>1, Cut
  <2> QED
    BY <2>2 DEF n
<1> QED
  BY <1>1, <1>3, <1>6, <1>13 DEF StackInv

\* a block without a handler is over, or becomes another one
LEMMA EndSteps ==
  ASSUME StackInv, EndExcept \/ Dispatch \/ EndFinally \/ EndCleanup
  PROVE  StackInv'
<1>1. Instruction /\ Part \in {"except", "dispatch", "finally", "cleanup"}
  BY DEF EndExcept, Dispatch, EndFinally, EndCleanup, Statement, InStatement
<1>2. mode \in {"run", "late"} /\ ~Top.leaving
  BY InStatementIs DEF EndExcept, Dispatch, EndFinally, EndCleanup, Statement
<1>3. /\ Blocks # <<>> /\ Last(Blocks).part = Part
  BY <1>1 DEF Part
<1>4. /\ Good(frames, handlers, defers) /\ Blocks \in Seq(AnyBlock)
      /\ Len(Blocks) \in Nat /\ DOMAIN Blocks = 1..Len(Blocks)
  BY <1>2, HereIs
<1>5. {p \in Bodies(Blocks) : p <= Len(Blocks) - 1} = Bodies(Blocks)
  <2>1. Blocks[Len(Blocks)].part # "body"
    BY <1>1, <1>3 DEF Last
  <2>2. \A p \in Bodies(Blocks) : p \in 1..Len(Blocks) /\ p # Len(Blocks)
    BY <1>4, <2>1 DEF Bodies
  <2>3. \A p \in Bodies(Blocks) : p <= Len(Blocks) - 1
    BY <1>4, <2>2
  <2> QED
    BY <2>3
<1> DEFINE Ends(cs) == cs = Front(Blocks) \/ cs = GoesTo("except")
                         \/ cs = GoesTo("finally") \/ cs = GoesTo("cleanup")
<1>6. ASSUME NEW cs, Ends(cs)
      PROVE  cs \in Seq(AnyBlock) /\ Nested(cs) /\ Bodies(cs) = Bodies(Blocks)
  <2>1. Last(Blocks).part # "inlined" /\ Last(Blocks).part # "loop"
    BY <1>1, <1>3
  <2> QED
    BY <1>2, <1>3, <1>5, <1>6, <2>1, EndOfBlock
<1>7. ASSUME NEW cs, Ends(cs)
      PROVE  /\ Good(WithBlocks(cs), handlers, defers) /\ WithBlocks(cs) # <<>>
             /\ Good(WithTop([Top EXCEPT !.blocks = cs, !.exc = FALSE]), handlers, defers)
             /\ WithTop([Top EXCEPT !.blocks = cs, !.exc = FALSE]) # <<>>
  BY <1>2, <1>6, <1>7, BlocksReplaced
<1>8. ASSUME NEW fs, Good(fs, handlers, defers), fs # <<>>, frames' = fs, OnlyFrames
      PROVE  StackInv'
  BY <1>8 DEF StackInv, OnlyFrames
<1>9. ASSUME NEW fs, Good(fs, handlers, defers), fs # <<>>, Throws(fs),
             UNCHANGED <<handlers, defers, rustVars>>
      PROVE  StackInv'
  BY <1>9, ThrowKeeps DEF StackInv
<1>10. CASE EndExcept
  <2> DEFINE cs == AfterTry
  <2>1. Ends(cs)
    <3>1. Last(Blocks).kind \in {"try", "tryFinally", "with"}
      <4>1. Last(Blocks).part = "except"
        BY <1>3, <1>10 DEF EndExcept
      <4>2. Last(Blocks) \in AnyBlock
        BY <1>3, <1>4, FrontIs
      <4> QED
        BY <4>1, <4>2, BlockIs
    <3> QED
      BY <3>1 DEF AfterTry
  <2>2. frames' = WithTop([Top EXCEPT !.blocks = cs, !.exc = FALSE]) /\ OnlyFrames
    BY <1>10 DEF EndExcept
  <2> HIDE DEF cs
  <2> QED
    BY <1>7, <1>8, <2>1, <2>2
<1>11. CASE Dispatch
  <2>1. CASE frames' = WithBlocks(GoesTo("except")) /\ OnlyFrames
    BY <1>7, <1>8, <2>1
  <2>2. CASE frames' = WithBlocks(GoesTo("finally")) /\ OnlyFrames
    BY <1>7, <1>8, <2>2
  <2>3. CASE Throws(WithBlocks(Front(Blocks))) /\ UNCHANGED <<handlers, defers, rustVars>>
    BY <1>7, <1>9, <2>3
  <2> QED
    BY <1>11, <2>1, <2>2, <2>3 DEF Dispatch
<1>12. CASE EndFinally
  <2> DEFINE over == WithTop([Top EXCEPT !.blocks = Front(Blocks), !.exc = FALSE])
  <2>1. Good(over, handlers, defers) /\ over # <<>>
    BY <1>7
  <2>2. \/ Throws(over) /\ UNCHANGED <<handlers, defers, rustVars>>
        \/ frames' = over /\ OnlyFrames
    BY <1>12 DEF EndFinally
  <2> HIDE DEF over
  <2> QED
    BY <1>8, <1>9, <2>1, <2>2
<1>13. CASE EndCleanup
  <2>1. CASE frames' = WithTop([Top EXCEPT !.blocks = Front(Blocks), !.exc = FALSE]) /\ OnlyFrames
    BY <1>7, <1>8, <2>1
  <2>2. CASE Throws(WithBlocks(Front(Blocks))) /\ UNCHANGED <<handlers, defers, rustVars>>
    BY <1>7, <1>9, <2>2
  <2> QED
    BY <1>13, <2>1, <2>2 DEF EndCleanup
<1> QED
  BY <1>10, <1>11, <1>12, <1>13

LEMMA ThrowStep ==
  ASSUME StackInv, Throw \/ Passes
  PROVE  StackInv'
<1>1. mode \in {"run", "late"}
  BY DEF Throw, Passes, InStatement, Instruction
<1>2. Good(frames, handlers, defers) /\ frames # <<>>
  BY <1>1, HereIs
<1>3. CASE Throw
  <2>1. Throws(frames) /\ handlers' = handlers /\ defers' = defers
    BY <1>3 DEF Throw
  <2> QED
    BY <1>2, <2>1, ThrowKeeps DEF StackInv
<1>4. CASE Passes
  BY <1>2, <1>4 DEF Passes, OnlyFrames, StackInv
<1> QED
  BY <1>3, <1>4
-----------------------------------------------------------------------------
(* Early exits.                                                            *)

\* the next inlined finally or the jump leaves the bodies above keep
LEMMA ExitsAre ==
  ASSUME NEW bs \in Seq(AnyBlock), Nested(bs), NEW rest \in SUBSET Nat,
         NEW keep \in Returning..Len(bs), Top \in AnyFrame, ~Top.leaving,
         \A r \in rest : HasFinally(bs, Len(bs) + 1, r),
         \A p \in DOMAIN bs : bs[p].part = "inlined" => p <= keep,
         NEW f, f = Exits(bs, rest, keep)
  PROVE  /\ f \in AnyFrame /\ f.base = Top.base
         /\ Nested(f.blocks) /\ (f.leaving => f.blocks = <<>>)
         /\ Bodies(f.blocks) = {p \in Bodies(bs) : p <= keep}
<1>1. Len(bs) \in Nat /\ DOMAIN bs = 1..Len(bs)
  BY LenProperties
<1>2. keep \in Int /\ (keep = Returning \/ keep \in 0..Len(bs))
  BY <1>1 DEF Returning
<1>3. ASSUME NEW cs \in Seq(AnyBlock), f = [Top EXCEPT !.blocks = cs]
      PROVE  f \in AnyFrame /\ f.base = Top.base /\ f.blocks = cs /\ f.leaving = FALSE
  BY <1>3 DEF AnyFrame
<1>4. CASE rest # {}
  <2>1. rest \in SUBSET (0..Len(bs))
    BY <1>1 DEF HasFinally
  <2>2. Max(rest) \in rest
    BY <1>1, <1>4, <2>1, MaxIs
  <2> DEFINE m == Max(rest)
             b == [part |-> "inlined", level |-> m, rest |-> rest \ {m}, keep |-> keep]
             cs == Append(bs, b)
  <2>3. Exits(bs, rest, keep) = [Top EXCEPT !.blocks = cs]
    BY <1>4 DEF Exits
  <2> HIDE DEF m
  <2>4. m \in rest /\ m \in Nat
    BY <2>2 DEF m
  <2>5. b \in InlinedBlock /\ b.level = m /\ b.rest = rest \ {m} /\ b.keep = keep
    BY <1>2, <2>4 DEF InlinedBlock
  <2> HIDE DEF b
  <2>6. /\ HasFinally(bs, Len(bs) + 1, b.level)
        /\ \A r \in b.rest : HasFinally(bs, Len(bs) + 1, r)
        /\ b.keep \in Returning..Len(bs)
        /\ \A p \in DOMAIN bs : bs[p].part = "inlined" => p <= b.keep
    BY <2>4, <2>5
  <2>7. cs \in Seq(AnyBlock) /\ Nested(cs) /\ Bodies(cs) = {p \in Bodies(bs) : p <= b.keep}
    BY <2>5, <2>6, OneMoreInlined
  <2> HIDE DEF cs
  <2>8. f \in AnyFrame /\ f.base = Top.base /\ f.blocks = cs /\ f.leaving = FALSE
    BY <1>3, <2>3, <2>7
  <2> QED
    BY <2>5, <2>7, <2>8
<1>5. CASE rest = {} /\ keep = Returning
  <2>1. Exits(bs, rest, keep) = [Top EXCEPT !.blocks = <<>>, !.leaving = TRUE]
    BY <1>5 DEF Exits
  <2>2. <<>> \in Seq(AnyBlock)
    OBVIOUS
  <2>3. {p \in Bodies(bs) : p <= keep} = {}
    BY <1>1, <1>5 DEF Bodies, Returning
  <2>4. f \in AnyFrame /\ f.base = Top.base /\ f.blocks = <<>>
    BY <2>1, <2>2 DEF AnyFrame
  <2> QED
    BY <2>3, <2>4, NoBlocks
<1>6. CASE rest = {} /\ keep # Returning
  <2> DEFINE cs == SubSeq(bs, 1, keep)
  <2>1. Exits(bs, rest, keep) = [Top EXCEPT !.blocks = cs]
    BY <1>6 DEF Exits
  <2>2. keep \in 0..Len(bs)
    BY <1>2, <1>6
  <2>3. \A q \in DOMAIN bs : q > keep /\ bs[q].part = "inlined" => bs[q].keep >= keep
    BY <1>1, <2>2
  <2>4. cs \in Seq(AnyBlock) /\ Nested(cs) /\ Bodies(cs) = {p \in Bodies(bs) : p <= keep}
    BY <2>2, <2>3, PrefixOfBlocks
  <2> HIDE DEF cs
  <2>5. f \in AnyFrame /\ f.base = Top.base /\ f.blocks = cs /\ f.leaving = FALSE
    BY <1>3, <2>1, <2>4
  <2> QED
    BY <2>4, <2>5
<1> QED
  BY <1>4, <1>5, <1>6

LEMMA EarlyExitStep ==
  ASSUME StackInv, NEW tries, NEW levels \in SUBSET Nat, NEW keep \in Returning..Len(Blocks),
         EarlyExit(tries, levels, keep),
         \A r \in levels : HasFinally(Blocks, Len(Blocks) + 1, r),
         \A p \in DOMAIN Blocks : Blocks[p].part = "inlined" => p <= keep,
         tries = Cardinality({p \in Bodies(Blocks) : p > keep})
  PROVE  StackInv'
<1>1. mode \in {"run", "late"} /\ ~Top.leaving /\ mode' = "run" /\ defers' = defers
  BY InStatementIs DEF EarlyExit
<1>2. /\ Good(frames, handlers, defers) /\ frames # <<>> /\ frames \in Seq(AnyFrame)
      /\ Top \in AnyFrame /\ Blocks \in Seq(AnyBlock) /\ Nested(Blocks)
      /\ Len(Blocks) \in Nat /\ DOMAIN Blocks = 1..Len(Blocks)
  BY <1>1, HereIs
<1> DEFINE f == Exits(Blocks, levels, keep)
           cs == f.blocks
           lv == f.leaving
           gs == [frames EXCEPT ![Len(frames)] = f]
           S == {p \in Bodies(frames[Len(frames)].blocks) : p > keep}
           n == Len(handlers) - tries
<1>3. /\ f \in AnyFrame /\ f.base = Top.base /\ Nested(cs) /\ (lv => cs = <<>>)
      /\ Bodies(cs) = {p \in Bodies(Blocks) : p <= keep}
  BY <1>1, <1>2, ExitsAre
<1>4. frames' = gs /\ handlers' = SubSeq(handlers, 1, n)
  BY DEF EarlyExit, WithTop, Depth, Popped
<1>5. tries = Cardinality(S)
  BY DEF Blocks, Top, Depth
<1>6. keep \in Int
  BY DEF Returning
<1> HIDE DEF f
<1>7. Edited(frames, gs, cs, lv) /\ gs # <<>>
  BY <1>2, <1>3, EditIs DEF Top, Depth
<1>8. Bodies(cs) = {p \in Bodies(frames[Len(frames)].blocks) : p <= keep}
  BY <1>3 DEF Blocks, Top, Depth
<1> HIDE DEF cs, lv, gs
<1>9. /\ Cardinality(S) \in 0..Len(handlers)
      /\ \A d \in 1..Len(handlers) :
           d <= Len(handlers) - Cardinality(S)
             <=> ~(handlers[d].frame = Len(frames) /\ handlers[d].level > keep)
  BY <1>2, <1>6, Counts
<1> HIDE DEF S
<1>10. /\ n \in 0..Len(handlers)
       /\ \A d \in 1..Len(handlers) :
            d <= n <=> ~(handlers[d].frame = Len(frames) /\ handlers[d].level > keep)
  <2>1. Len(handlers) \in Nat
    BY <1>2, LenProperties DEF Good
  <2>2. n = Len(handlers) - Cardinality(S)
    BY <1>5
  <2> HIDE DEF n
  <2>3. n \in 0..Len(handlers)
    BY <1>9, <2>1, <2>2
  <2> QED
    BY <1>9, <2>2, <2>3
<1> HIDE DEF n
<1>11. Good(gs, SubSeq(handlers, 1, n), defers)
  BY <1>2, <1>3, <1>6, <1>7, <1>8, <1>10, Cut
<1> QED
  BY <1>1, <1>4, <1>7, <1>11 DEF StackInv

LEMMA ReturnStep ==
  ASSUME StackInv, Return
  PROVE  StackInv'
<1>1. mode \in {"run", "late"}
  BY InStatementIs DEF Return, EarlyExit
<1>2. /\ Nested(Blocks) /\ Len(Blocks) \in Nat /\ DOMAIN Blocks = 1..Len(Blocks)
  BY <1>1, HereIs
<1>3. \A r \in FinallyStack(Blocks) : HasFinally(Blocks, Len(Blocks) + 1, r) /\ r \in Nat
  BY <1>2 DEF FinallyStack, HasFinally
<1>4. \A q \in DOMAIN Blocks : Blocks[q].part # "inlined"
  <2> SUFFICES ASSUME NEW q \in DOMAIN Blocks, Blocks[q].part = "inlined"
               PROVE  FALSE
    OBVIOUS
  <2>1. HasFinally(Blocks, q, Blocks[q].level)
    BY <1>2 DEF Nested
  <2>2. Blocks[q].level \in FinallyStack(Blocks)
    BY <1>2, <2>1 DEF HasFinally, FinallyStack
  <2>3. Blocks[q].level \notin FinallyStack(Blocks)
    BY DEF Return, EarlyExit, Compiles
  <2> QED
    BY <2>2, <2>3
<1>5. {p \in DOMAIN Blocks : Blocks[p].part = "body"} = {p \in Bodies(Blocks) : p > Returning}
  BY <1>2, <1>4 DEF Bodies, BeingLeft, Returning
<1>6. TryDepth(Blocks) = Cardinality({p \in Bodies(Blocks) : p > Returning})
  BY <1>5 DEF TryDepth
<1>7. Returning \in Returning..Len(Blocks)
  BY <1>2 DEF Returning
<1>8. FinallyStack(Blocks) \in SUBSET Nat
  BY <1>3
<1>9. EarlyExit(TryDepth(Blocks), FinallyStack(Blocks), Returning)
  BY DEF Return
<1>10. \A p \in DOMAIN Blocks : Blocks[p].part = "inlined" => p <= Returning
  BY <1>4
<1>11. \A r \in FinallyStack(Blocks) : HasFinally(Blocks, Len(Blocks) + 1, r)
  BY <1>3
<1> DEFINE levels == FinallyStack(Blocks)
           tries == TryDepth(Blocks)
<1> HIDE DEF levels, tries
<1>12. /\ levels \in SUBSET Nat /\ EarlyExit(tries, levels, Returning)
       /\ tries = Cardinality({p \in Bodies(Blocks) : p > Returning})
       /\ \A r \in levels : HasFinally(Blocks, Len(Blocks) + 1, r)
  BY <1>6, <1>8, <1>9, <1>11 DEF levels, tries
<1> QED
  BY <1>7, <1>10, <1>12, EarlyExitStep

\* the try bodies an exit from a loop leaves
LEMMA LoopIs ==
  ASSUME StackInv, mode # "failed", Loops # {}
  PROVE  /\ Max(Loops) \in 1..Len(Blocks) /\ Max(Loops) \in Loops
         /\ \A p \in DOMAIN Blocks : Blocks[p].part = "inlined" => p <= Max(Loops) - 1
         /\ FinallysIn(Max(Loops)) \in SUBSET Nat
         /\ \A r \in FinallysIn(Max(Loops)) : HasFinally(Blocks, Len(Blocks) + 1, r)
         /\ TriesIn(Max(Loops)) = Cardinality({p \in Bodies(Blocks) : p > Max(Loops)})
         /\ TriesIn(Max(Loops)) = Cardinality({p \in Bodies(Blocks) : p > Max(Loops) - 1})
<1>1. /\ Blocks \in Seq(AnyBlock) /\ Len(Blocks) \in Nat /\ DOMAIN Blocks = 1..Len(Blocks)
  BY HereIs
<1> DEFINE l == Max(Loops)
<1>2. Loops \in SUBSET (0..Len(Blocks))
  BY <1>1 DEF Loops
<1>3. l \in Loops
  BY <1>1, <1>2, MaxIs
<1> HIDE DEF l
<1>4. /\ l \in 1..Len(Blocks) /\ Blocks[l].part = "loop"
      /\ \A q \in l..Len(Blocks) : Blocks[q].part # "inlined"
  BY <1>1, <1>3 DEF Loops
<1>5. \A p \in DOMAIN Blocks : Blocks[p].part = "inlined" => p <= l - 1
  <2> SUFFICES ASSUME NEW p \in 1..Len(Blocks), ~(p <= l - 1)
               PROVE  Blocks[p].part # "inlined"
    BY <1>1
  <2>1. p \in l..Len(Blocks)
    BY <1>1, <1>4
  <2> QED
    BY <1>4, <2>1
<1>6. \A r \in FinallysIn(l) : HasFinally(Blocks, Len(Blocks) + 1, r) /\ r \in Nat
  BY <1>1 DEF FinallysIn, FinallyStack, HasFinally
<1> DEFINE A == {p \in DOMAIN Blocks : Blocks[p].part = "body"}
           B == {p \in DOMAIN SubSeq(Blocks, 1, l) : SubSeq(Blocks, 1, l)[p].part = "body"}
<1>7. /\ DOMAIN SubSeq(Blocks, 1, l) = 1..l
      /\ \A p \in 1..l : SubSeq(Blocks, 1, l)[p] = Blocks[p]
  <2>1. l \in 0..Len(Blocks)
    BY <1>1, <1>4
  <2> QED
    BY <1>1, <2>1, PrefixIs
<1>8. A \cap B = B
  BY <1>1, <1>4, <1>7
<1>9. A \ B = {p \in A : p > l}
  BY <1>1, <1>4, <1>7
<1>10. IsFiniteSet(A) /\ IsFiniteSet(B)
  <2>1. IsFiniteSet(1..Len(Blocks))
    BY <1>1, FS_Interval
  <2>2. A \subseteq 1..Len(Blocks)
    BY <1>1
  <2>3. B \subseteq A
    BY <1>8
  <2> HIDE DEF A, B
  <2>4. IsFiniteSet(A)
    BY <2>1, <2>2, FS_Subset
  <2> QED
    BY <2>3, <2>4, FS_Subset
<1>11. {p \in A : p > l} = {p \in Bodies(Blocks) : p > l}
  <2>1. ASSUME NEW p \in 1..Len(Blocks), p > l
        PROVE  ~BeingLeft(Blocks, p)
    <3> SUFFICES ASSUME NEW q \in 1..Len(Blocks), q > p
                 PROVE  Blocks[q].part # "inlined"
      BY <1>1 DEF BeingLeft
    <3>1. q \in l..Len(Blocks)
      BY <1>1, <1>4, <2>1
    <3> QED
      BY <1>4, <3>1
  <2> QED
    BY <1>1, <2>1 DEF Bodies
<1>12. {p \in Bodies(Blocks) : p > l} = {p \in Bodies(Blocks) : p > l - 1}
  <2>1. \A p \in Bodies(Blocks) : p \in 1..Len(Blocks) /\ p # l
    BY <1>1, <1>4 DEF Bodies
  <2>2. \A p \in Bodies(Blocks) : p > l <=> p > l - 1
    BY <1>1, <1>4, <2>1
  <2> QED
    BY <2>2
<1>13. TriesIn(l) = Cardinality(A) - Cardinality(B)
  BY DEF TriesIn, TryDepth
<1> HIDE DEF A, B
<1>14. Cardinality(A \ B) = Cardinality(A) - Cardinality(A \cap B)
  BY <1>10, FS_Difference
<1>15. TriesIn(l) = Cardinality({p \in Bodies(Blocks) : p > l})
  BY <1>8, <1>9, <1>11, <1>13, <1>14
<1> QED
  BY <1>3, <1>4, <1>5, <1>6, <1>12, <1>15 DEF l

LEMMA JumpSteps ==
  ASSUME StackInv, Break \/ Continue
  PROVE  StackInv'
<1>1. mode \in {"run", "late"} /\ Loops # {}
  BY InStatementIs DEF Break, Continue, Statement
<1>2. Len(Blocks) \in Nat /\ DOMAIN Blocks = 1..Len(Blocks)
  BY <1>1, HereIs
<1> DEFINE l == Max(Loops)
           levels == FinallysIn(l)
           tries == TriesIn(l)
<1>3. /\ l \in 1..Len(Blocks)
      /\ \A p \in DOMAIN Blocks : Blocks[p].part = "inlined" => p <= l - 1
      /\ levels \in SUBSET Nat /\ \A r \in levels : HasFinally(Blocks, Len(Blocks) + 1, r)
      /\ tries = Cardinality({p \in Bodies(Blocks) : p > l})
      /\ tries = Cardinality({p \in Bodies(Blocks) : p > l - 1})
  BY <1>1, LoopIs
<1>4. EarlyExit(tries, levels, l - 1) \/ EarlyExit(tries, levels, l)
  BY DEF Break, Continue
<1> HIDE DEF l, levels, tries
<1>5. l \in Returning..Len(Blocks) /\ l - 1 \in Returning..Len(Blocks)
  BY <1>2, <1>3 DEF Returning
<1>6. \A p \in DOMAIN Blocks : Blocks[p].part = "inlined" => p <= l
  BY <1>2, <1>3
<1>7. CASE EarlyExit(tries, levels, l - 1)
  <2> DEFINE k == l - 1
  <2>1. /\ k \in Returning..Len(Blocks) /\ EarlyExit(tries, levels, k)
        /\ \A p \in DOMAIN Blocks : Blocks[p].part = "inlined" => p <= k
        /\ tries = Cardinality({p \in Bodies(Blocks) : p > k})
    BY <1>3, <1>5, <1>7
  <2> HIDE DEF k
  <2> QED
    BY <1>3, <2>1, EarlyExitStep
<1>8. CASE EarlyExit(tries, levels, l)
  BY <1>3, <1>5, <1>6, <1>8, EarlyExitStep
<1> QED
  BY <1>4, <1>7, <1>8

LEMMA EndInlinedStep ==
  ASSUME StackInv, EndInlined
  PROVE  StackInv'
<1>1. mode \in {"run", "late"} /\ ~Top.leaving
  BY InStatementIs DEF EndInlined, Statement
<1>2. /\ Good(frames, handlers, defers) /\ frames # <<>> /\ frames \in Seq(AnyFrame)
      /\ Top \in AnyFrame /\ Blocks \in Seq(AnyBlock) /\ Nested(Blocks)
  BY <1>1, HereIs
<1>3. Blocks # <<>> /\ Last(Blocks).part = "inlined"
  BY DEF EndInlined, Part
<1> DEFINE n == Len(Blocks)
           bs == Front(Blocks)
           b == Last(Blocks)
           f == Exits(bs, b.rest, b.keep)
<1>4. /\ n \in Nat \ {0} /\ DOMAIN Blocks = 1..n /\ b = Blocks[n] /\ b \in AnyBlock
      /\ bs \in Seq(AnyBlock) /\ Len(bs) = n - 1 /\ DOMAIN bs = 1..(n - 1)
      /\ \A i \in 1..(n - 1) : bs[i] = Blocks[i]
  BY <1>2, <1>3, FrontIs
<1>5. frames' = [frames EXCEPT ![Len(frames)] = f] /\ OnlyFrames
  BY DEF EndInlined, WithTop, Depth
<1>6. b.rest \in SUBSET Nat /\ b.keep \in Int /\ b.part = "inlined"
  BY <1>3, <1>4, BlockIs
<1> HIDE DEF b
<1>7. /\ HasFinally(Blocks, n, b.level) /\ \A r \in b.rest : HasFinally(Blocks, n, r)
      /\ b.keep \in Returning..(n - 1)
      /\ \A p \in 1..(n - 1) : Blocks[p].part = "inlined" => p <= b.keep
  <2>1. n \in DOMAIN Blocks
    BY <1>4
  <2> HIDE DEF n, bs
  <2> QED
    BY <1>2, <1>4, <1>6, <2>1 DEF Nested
<1> HIDE DEF n
<1>8. /\ HasFinally(bs, Len(bs) + 1, b.level)
      /\ \A r \in b.rest : HasFinally(bs, Len(bs) + 1, r)
      /\ b.keep \in Returning..Len(bs)
      /\ \A p \in DOMAIN bs : bs[p].part = "inlined" => p <= b.keep
  <2>1. Len(bs) + 1 = n /\ Len(bs) = n - 1
    BY <1>4
  <2>2. \A r : HasFinally(Blocks, n, r) => HasFinally(bs, n, r)
    BY <1>4 DEF HasFinally
  <2>3. /\ HasFinally(bs, n, b.level) /\ \A r \in b.rest : HasFinally(bs, n, r)
        /\ b.keep \in Returning..Len(bs)
    BY <1>7, <2>1, <2>2
  <2>4. \A p \in DOMAIN bs : bs[p].part = "inlined" => p <= b.keep
    BY <1>4, <1>7
  <2> HIDE DEF bs
  <2> QED
    BY <2>1, <2>3, <2>4
<1>9. Nested(bs)
  <2>1. n - 1 \in 0..Len(Blocks) /\ bs = SubSeq(Blocks, 1, n - 1)
    BY <1>4 DEF Front, n
  <2> DEFINE m == n - 1
  <2>2. m \in 0..Len(Blocks) /\ bs = SubSeq(Blocks, 1, m)
    BY <2>1
  <2> HIDE DEF m, bs
  <2> QED
    BY <1>2, <2>2, PrefixIsNested
<1>10. Append(bs, b) = Blocks
  <2> DEFINE cs == Append(bs, b)
  <2> HIDE DEF bs
  <2>1. /\ cs \in Seq(AnyBlock) /\ Len(cs) = Len(bs) + 1
        /\ (\A i \in 1..Len(bs) : cs[i] = bs[i]) /\ cs[Len(bs) + 1] = b
    BY <1>4, AppendIs
  <2> HIDE DEF cs
  <2>2. Len(cs) = n /\ Len(Blocks) = n /\ cs[n] = b /\ \A i \in 1..(n - 1) : cs[i] = Blocks[i]
    BY <1>4, <2>1 DEF n
  <2>3. \A i \in 1..n : i \in 1..(n - 1) \/ i = n
    BY <1>4
  <2>4. \A i \in 1..n : cs[i] = Blocks[i]
    BY <1>4, <2>2, <2>3
  <2>5. cs = Blocks
    BY <1>2, <2>1, <2>2, <2>4, SeqEqual
  <2> QED
    BY <2>5 DEF cs
<1> HIDE DEF bs
<1>11. b \in InlinedBlock
  BY <1>4, <1>6, BlockIs
<1>12. Bodies(Append(bs, b)) = {p \in Bodies(bs) : p <= b.keep}
  BY <1>4, <1>8, <1>9, <1>11, OneMoreInlined
<1> DEFINE rest == b.rest
           keep == b.keep
<1>13. /\ rest \in SUBSET Nat /\ keep \in Returning..Len(bs)
       /\ \A r \in rest : HasFinally(bs, Len(bs) + 1, r)
       /\ \A p \in DOMAIN bs : bs[p].part = "inlined" => p <= keep
       /\ f = Exits(bs, rest, keep)
  BY <1>6, <1>8
<1> HIDE DEF rest, keep
<1>14. /\ f \in AnyFrame /\ f.base = Top.base
       /\ Nested(f.blocks) /\ (f.leaving => f.blocks = <<>>)
       /\ Bodies(f.blocks) = {p \in Bodies(bs) : p <= keep}
  <2> HIDE DEF f
  <2> QED
    BY SMTT(60), <1>1, <1>2, <1>4, <1>9, <1>13, ExitsAre
<1> HIDE DEF f
<1>15. Bodies(f.blocks) = Bodies(frames[Len(frames)].blocks)
  <2>1. Bodies(f.blocks) = Bodies(Blocks)
    BY <1>10, <1>12, <1>14 DEF keep
  <2> QED
    BY <2>1 DEF Blocks, Top, Depth
<1>16. f.base = frames[Len(frames)].base
  BY <1>14 DEF Top, Depth
<1>17. Good([frames EXCEPT ![Len(frames)] = f], handlers, defers)
       /\ [frames EXCEPT ![Len(frames)] = f] # <<>>
  BY <1>2, <1>14, <1>15, <1>16, Replaces
<1> QED
  BY <1>5, <1>17 DEF StackInv, OnlyFrames
-----------------------------------------------------------------------------
(* Calls, defers and the unwinding of frames, as the interpreter's stacks  *)
(* see them.                                                               *)

\* what an exception or a flush of defers notes in the top frame
LEMMA Noted ==
  ASSUME StackInv, mode # "failed",
         NEW f \in AnyFrame, f.base = Top.base, f.blocks = Blocks, f.leaving = Top.leaving
  PROVE  /\ Good(WithTop(f), handlers, defers) /\ WithTop(f) # <<>> /\ Len(WithTop(f)) = Depth
         /\ WithTop(f)[Len(WithTop(f))] = f
<1>1. /\ Good(frames, handlers, defers) /\ frames # <<>> /\ Nested(Blocks)
      /\ (Top.leaving => Blocks = <<>>)
  BY HereIs
<1>2. f.base = frames[Len(frames)].base /\ Bodies(f.blocks) = Bodies(frames[Len(frames)].blocks)
  BY DEF Top, Blocks, Depth
<1>3. Nested(f.blocks) /\ (f.leaving => f.blocks = <<>>)
  BY <1>1
<1>4. /\ Good([frames EXCEPT ![Len(frames)] = f], handlers, defers)
      /\ [frames EXCEPT ![Len(frames)] = f] # <<>>
      /\ Len([frames EXCEPT ![Len(frames)] = f]) = Len(frames)
      /\ [frames EXCEPT ![Len(frames)] = f][Len(frames)] = f
  BY <1>1, <1>2, <1>3, Replaces
<1> QED
  BY <1>4 DEF WithTop, Depth

LEMMA FailsKeeps ==
  ASSUME NEW fs, NEW ds, Good(fs, handlers, ds), fs # <<>>, Fails(fs, ds)
  PROVE  StackInv'
<1>1. CASE escaped /\ Natives # {}
  <2>1. Throws(fs) /\ defers' = ds /\ handlers' = handlers
    BY <1>1 DEF Fails
  <2> QED
    BY <2>1, ThrowKeeps DEF StackInv
<1>2. CASE ~(escaped /\ Natives # {})
  <2>1. frames' = <<>> /\ handlers' = <<>> /\ defers' = <<>> /\ mode' = "failed"
    BY <1>2 DEF Fails
  <2> QED
    BY <2>1, Starts DEF StackInv
<1> QED
  BY <1>1, <1>2

LEMMA PushKeeps ==
  ASSUME NEW fs, NEW ds, Good(fs, handlers, ds), PushesFrame(fs, ds)
  PROVE  Good(frames', handlers, ds) /\ frames' # <<>> /\ Len(frames') = Len(fs) + 1
BY Pushes DEF PushesFrame

LEMMA CallSteps ==
  ASSUME StackInv, Defer \/ Call \/ Fail \/ NativeCallsBack \/ CallbackReturns \/ Resume \/ Escape
  PROVE  StackInv'
<1>1. mode # "failed"
  BY DEF Defer, Call, Fail, NativeCallsBack, CallbackReturns, Resume, Escape, Statement,
         InStatement, Instruction, Driving
<1>2. Good(frames, handlers, defers) /\ frames # <<>>
  BY <1>1, HereIs
<1>3. CASE Defer
  BY <1>1, <1>2, <1>3, AddsDefer DEF Defer, StackInv, Depth
<1>4. CASE Call
  <2>1. CASE PushesFrame(frames, defers) /\ mode' = "run"
    BY <1>2, <1>4, <2>1, PushKeeps DEF Call, StackInv
  <2>2. CASE EntersNative(rust) /\ UNCHANGED frames
    BY <1>2, <1>4, <2>2 DEF Call, StackInv, EntersNative
  <2> QED
    BY <1>4, <2>1, <2>2 DEF Call
<1>5. CASE Fail
  BY <1>2, <1>5, FailsKeeps DEF Fail
<1>6. CASE NativeCallsBack
  BY <1>2, <1>6, PushKeeps DEF NativeCallsBack, StackInv
<1>7. CASE CallbackReturns
  BY <1>2, <1>7 DEF CallbackReturns, StackInv
<1>8. CASE Resume
  BY <1>2, <1>8 DEF Resume, StackInv
<1>9. CASE Escape
  <2>1. mode' # "failed"
    BY <1>9 DEF Escape, Returns
  <2> QED
    BY <1>2, <1>9, <2>1 DEF Escape, StackInv
<1> QED
  BY <1>3, <1>4, <1>5, <1>6, <1>7, <1>8, <1>9

\* the frame that runs one of its defers
LEMMA FlushingIs ==
  ASSUME StackInv, mode # "failed", HasDefers, NEW fs,
         \/ fs = Flushing
         \/ fs = WithTop([Top EXCEPT !.exc = FALSE, !.flushing = TRUE])
  PROVE  Good(fs, handlers, Rest) /\ fs # <<>> /\ Len(fs) = Depth
<1>1. Top \in AnyFrame
  BY HereIs
<1> DEFINE f == [Top EXCEPT !.flushing = TRUE]
           g == [Top EXCEPT !.exc = FALSE, !.flushing = TRUE]
<1>2. /\ f \in AnyFrame /\ f.base = Top.base /\ f.blocks = Blocks /\ f.leaving = Top.leaving
      /\ g \in AnyFrame /\ g.base = Top.base /\ g.blocks = Blocks /\ g.leaving = Top.leaving
  BY <1>1 DEF AnyFrame, Blocks
<1>3. fs = WithTop(f) \/ fs = WithTop(g)
  BY DEF Flushing
<1> HIDE DEF f, g
<1>4. PICK h \in {f, g} : fs = WithTop(h)
  BY <1>3
<1>5. h \in AnyFrame /\ h.base = Top.base /\ h.blocks = Blocks /\ h.leaving = Top.leaving
  BY <1>2
<1>6. /\ Good(fs, handlers, defers) /\ fs # <<>> /\ Len(fs) = Depth
      /\ fs[Len(fs)] = h
  BY <1>4, <1>5, Noted
<1>7. Len(defers) > fs[Len(fs)].base
  BY <1>5, <1>6 DEF HasDefers
<1>8. Good(fs, handlers, Popped(defers, 1))
  BY <1>6, <1>7, TakesDefer
<1> QED
  BY <1>6, <1>8 DEF Rest

LEMMA DeferSteps ==
  ASSUME StackInv, ExecDefer \/ DefersAreDone \/ FlushDefer
  PROVE  StackInv'
<1>1. mode # "failed"
  BY DEF ExecDefer, DefersAreDone, FlushDefer, Instruction, Driving
<1>2. Top \in AnyFrame
  BY <1>1, HereIs
<1>3. CASE ExecDefer
  <2> DEFINE fs == Flushing
             ds == Rest
  <2>1. Good(fs, handlers, ds) /\ fs # <<>>
    BY <1>1, <1>3, FlushingIs DEF ExecDefer
  <2>2. \/ PushesFrame(fs, ds) /\ mode' = "run" /\ defers' = ds /\ UNCHANGED handlers
        \/ frames' = fs /\ mode' = "run" /\ defers' = ds /\ UNCHANGED handlers
        \/ frames' = fs /\ mode' = "native" /\ defers' = ds /\ UNCHANGED handlers
        \/ Fails(fs, ds)
    BY <1>3 DEF ExecDefer, EntersNative
  <2> HIDE DEF fs, ds
  <2> QED
    BY <2>1, <2>2, PushKeeps, FailsKeeps DEF StackInv
<1>4. CASE DefersAreDone
  <2> DEFINE f == [Top EXCEPT !.flushing = FALSE]
  <2>1. f \in AnyFrame /\ f.base = Top.base /\ f.blocks = Blocks /\ f.leaving = Top.leaving
    BY <1>2 DEF AnyFrame, Blocks
  <2>2. frames' = WithTop(f) /\ OnlyFrames
    BY <1>4 DEF DefersAreDone
  <2> HIDE DEF f
  <2>3. Good(WithTop(f), handlers, defers) /\ WithTop(f) # <<>>
    BY <1>1, <2>1, Noted
  <2> QED
    BY <2>2, <2>3 DEF OnlyFrames, StackInv
<1>5. CASE FlushDefer
  <2> DEFINE fs == WithTop([Top EXCEPT !.exc = FALSE, !.flushing = TRUE])
             ds == Rest
  <2>1. Good(fs, handlers, ds) /\ fs # <<>>
    BY <1>1, <1>5, FlushingIs DEF FlushDefer
  <2>2. \/ PushesFrame(fs, ds) /\ mode' # "failed" /\ defers' = ds /\ UNCHANGED handlers
        \/ frames' = fs /\ mode' = mode /\ defers' = ds /\ UNCHANGED handlers
        \/ frames' = fs /\ mode' = "native" /\ defers' = ds /\ UNCHANGED handlers
        \/ Fails(fs, ds)
    <3>1. Returns(rust, mode) => mode' # "failed"
      BY DEF Returns
    <3> HIDE DEF fs, ds
    <3> QED
      BY <1>5, <3>1 DEF FlushDefer, EntersNative, fs, ds
  <2> HIDE DEF fs, ds
  <2> QED
    BY <1>1, <2>1, <2>2, PushKeeps, FailsKeeps DEF StackInv
<1> QED
  BY <1>3, <1>4, <1>5

LEMMA ReturnFromFrameStep ==
  ASSUME StackInv, ReturnFromFrame
  PROVE  StackInv'
<1>1. mode # "failed"
  BY DEF ReturnFromFrame, Instruction
<1>2. /\ Good(frames, handlers, defers) /\ frames # <<>> /\ Top \in AnyFrame
      /\ Depth \in Nat \ {0} /\ (Top.leaving => Blocks = <<>>)
  BY <1>1, HereIs
<1>3. CASE Depth > 1
  <2>1. Bodies(frames[Len(frames)].blocks) = {}
    BY <1>2, NoBlocks DEF ReturnFromFrame, Blocks, Top, Depth
  <2>2. Len(defers) <= frames[Len(frames)].base
    <3>1. Len(defers) \in Nat /\ Top.base \in Nat
      BY <1>2, LenProperties, FrameIs DEF Good
    <3> QED
      BY <3>1 DEF ReturnFromFrame, HasDefers, Top, Depth
  <2>3. Len(frames) > 1
    BY <1>3 DEF Depth
  <2>4. Good(Front(frames), handlers, defers) /\ Front(frames) # <<>>
    BY <1>2, <2>1, <2>2, <2>3, Pops
  <2> QED
    BY <1>3, <2>4 DEF ReturnFromFrame, StackInv
<1>4. CASE ~(Depth > 1)
  BY <1>2, <1>4 DEF ReturnFromFrame, StackInv
<1> QED
  BY <1>3, <1>4

LEMMA CatchStep ==
  ASSUME StackInv, Catch
  PROVE  StackInv'
<1>1. mode # "failed"
  BY DEF Catch, Flushed, Driving
<1>2. /\ Good(frames, handlers, defers) /\ frames # <<>> /\ frames \in Seq(AnyFrame)
      /\ Top \in AnyFrame /\ Blocks \in Seq(AnyBlock) /\ Nested(Blocks)
      /\ Len(Blocks) \in Nat /\ DOMAIN Blocks = 1..Len(Blocks)
      /\ Depth \in Nat \ {0} /\ (Top.leaving => Blocks = <<>>)
      /\ \A p \in 1..Len(Blocks) : Blocks[p] \in AnyBlock
  BY <1>1, HereIs
<1> DEFINE N == Len(handlers)
           level == handlers[Kept].level
           kind == Blocks[level].kind
           entry == [part |-> IF kind = "with" THEN "cleanup" ELSE "dispatch", kind |-> kind]
           below == SubSeq(Blocks, 1, level - 1)
           cs == Append(below, entry)
           f == [Top EXCEPT !.exc = TRUE, !.flushing = FALSE, !.blocks = cs]
           gs == [frames EXCEPT ![Len(frames)] = f]
<1>3. Kept = N
  BY <1>2, KeptIs
<1>4. /\ N \in Nat
      /\ \A d \in 1..N :
           /\ handlers[d].frame \in 1..Len(frames) /\ handlers[d].level \in Nat \ {0}
           /\ handlers[d].frame = Len(frames) => handlers[d].level \in Bodies(frames[Len(frames)].blocks)
      /\ \A g, h \in 1..N : g < h => Inside(handlers[h], handlers[g])
  <2> HIDE DEF N
  <2>1. Len(handlers) \in Nat
    BY <1>2, HandlersAre
  <2>2. \A d \in 1..Len(handlers) :
          /\ handlers[d].frame \in 1..Len(frames) /\ handlers[d].level \in Nat \ {0}
          /\ handlers[d].frame = Len(frames) => handlers[d].level \in Bodies(frames[Len(frames)].blocks)
    BY <1>2, HandlersAre
  <2>3. \A g, h \in 1..Len(handlers) : g < h => Inside(handlers[h], handlers[g])
    BY <1>2, HandlersAre
  <2> QED
    BY <2>1, <2>2, <2>3 DEF N
<1>5. N \in 1..N /\ handlers[N].frame = Len(frames) /\ level = handlers[N].level
  BY <1>3, <1>4 DEF Catch, Handled, Depth
<1>6. level \in Bodies(Blocks) /\ level \in 1..Len(Blocks) /\ Blocks[level].part = "body"
  <2>1. level \in Bodies(Blocks)
    BY <1>4, <1>5 DEF Blocks, Top, Depth
  <2> QED
    BY <1>2, <2>1 DEF Bodies
<1>7. /\ handlers' = SubSeq(handlers, 1, N - 1) /\ frames' = gs
      /\ Returns(rust, mode) /\ defers' = defers
  BY <1>3 DEF Catch, WithTop, Depth
<1> HIDE DEF N, level
<1>8. ~Top.leaving
  BY <1>2, <1>6
<1>9. kind \in Kinds \ {"loop"}
  BY <1>2, <1>6, BlockIs
<1> HIDE DEF kind
<1>10. entry \in AnyBlock /\ entry.part \in {"cleanup", "dispatch"}
  BY <1>9 DEF AnyBlock
<1> HIDE DEF entry
<1>11. /\ below \in Seq(AnyBlock) /\ Nested(below)
       /\ Bodies(below) = {p \in Bodies(Blocks) : p <= level - 1}
  <2>1. \A q \in DOMAIN Blocks : q > level - 1 /\ Blocks[q].part = "inlined" => Blocks[q].keep >= level - 1
    <3> SUFFICES ASSUME NEW q \in 1..Len(Blocks), q > level - 1, Blocks[q].part = "inlined"
                 PROVE  Blocks[q].keep >= level - 1
      BY <1>2
    <3>1. q # level
      BY <1>6
    <3>2. Blocks[q].keep \in Int
      BY <1>2, BlockIs
    <3>3. ~(Blocks[q].keep < level)
      BY <1>2, <1>6, <3>1 DEF Bodies, BeingLeft
    <3> QED
      BY <1>6, <3>2, <3>3
  <2> DEFINE n == level - 1
  <2>2. n \in 0..Len(Blocks)
    BY <1>2, <1>6
  <2>3. \A q \in DOMAIN Blocks : q > n /\ Blocks[q].part = "inlined" => Blocks[q].keep >= n
    BY <2>1
  <2>4. below = SubSeq(Blocks, 1, n)
    OBVIOUS
  <2> HIDE DEF n, below
  <2>5. /\ below \in Seq(AnyBlock) /\ Nested(below)
        /\ Bodies(below) = {p \in Bodies(Blocks) : p <= n}
    BY <1>2, <2>2, <2>3, <2>4, PrefixOfBlocks
  <2> QED
    BY <2>5 DEF n
<1> HIDE DEF below
<1>12. cs \in Seq(AnyBlock) /\ Nested(cs) /\ Bodies(cs) = {p \in Bodies(Blocks) : p <= level - 1}
  <2>1. entry.part # "inlined" /\ entry.part # "body"
    BY <1>10
  <2>2. cs \in Seq(AnyBlock) /\ Nested(cs) /\ Bodies(cs) = Bodies(below)
    BY <1>10, <1>11, <2>1, OneMoreBlock
  <2> QED
    BY <1>11, <2>2
<1> HIDE DEF cs
<1>13. f \in AnyFrame /\ f.base = Top.base /\ f.blocks = cs /\ f.leaving = FALSE
  BY <1>2, <1>8, <1>12 DEF AnyFrame
<1> HIDE DEF f
<1>14. Edited(frames, gs, cs, FALSE) /\ gs # <<>>
  BY ZenonT(60), <1>2, <1>13, EditIs DEF Top, Depth
<1> HIDE DEF gs
<1> DEFINE k == level - 1
           n == N - 1
<1>15. k \in Int /\ Bodies(cs) = {p \in Bodies(frames[Len(frames)].blocks) : p <= k}
  BY <1>2, <1>6, <1>12 DEF Blocks, Top, Depth
<1>16. n \in 0..Len(handlers)
  BY <1>4, <1>5 DEF N
<1>17. \A d \in 1..Len(handlers) :
         d <= n <=> ~(handlers[d].frame = Len(frames) /\ handlers[d].level > k)
  <2> SUFFICES ASSUME NEW d \in 1..N
               PROVE  d <= n <=> ~(handlers[d].frame = Len(frames) /\ handlers[d].level > k)
    BY DEF N
  <2>1. handlers[d].frame \in 1..Len(frames) /\ handlers[d].level \in Nat /\ level \in Nat
    BY <1>4, <1>6
  <2>2. CASE d = N
    <3>1. handlers[d].level > k
      BY <1>5, <2>1, <2>2
    <3> QED
      BY <1>4, <1>5, <2>2, <3>1
  <2>3. CASE d # N
    <3>1. d < N /\ d <= n
      BY <1>4, <2>3
    <3>2. Inside(handlers[N], handlers[d])
      BY <1>4, <1>5, <3>1
    <3>3. ~(handlers[d].frame = Len(frames) /\ handlers[d].level > k)
      BY <1>2, <1>5, <2>1, <3>2 DEF Inside, Depth
    <3> QED
      BY <3>1, <3>3
  <2> QED
    BY <2>2, <2>3
<1>18. handlers' = SubSeq(handlers, 1, n)
  BY <1>7
<1> HIDE DEF k, n
<1>19. Good(gs, SubSeq(handlers, 1, n), defers)
  BY <1>2, <1>12, <1>14, <1>15, <1>16, <1>17, Cut
<1>20. mode' # "failed"
  BY <1>7 DEF Returns
<1> QED
  BY <1>7, <1>14, <1>18, <1>19, <1>20 DEF StackInv

LEMMA PopFrameStep ==
  ASSUME StackInv, PopFrame
  PROVE  StackInv'
<1>1. mode # "failed"
  BY DEF PopFrame, Flushed, Driving
<1>2. /\ Good(frames, handlers, defers) /\ frames # <<>> /\ Top \in AnyFrame
      /\ Depth \in Nat \ {0}
  BY <1>1, HereIs
<1> DEFINE N == Len(handlers)
<1>3. Kept = N
  BY <1>2, KeptIs
<1>4. N \in Nat
  BY <1>2, HandlersAre
<1>5. \A d \in 1..N : handlers[d].frame \in 1..Len(frames)
  BY <1>2, HandlersAre
<1>6. \A g, h \in 1..N : g < h => Inside(handlers[h], handlers[g])
  BY <1>2, HandlersAre
<1>7. \A p \in Bodies(frames[Len(frames)].blocks) :
        \E d \in 1..N : handlers[d].frame = Len(frames) /\ handlers[d].level = p
  BY <1>2, HandlersAre
<1>8. handlers' = handlers /\ defers' = defers
  <2>1. handlers \in Seq(Handler)
    BY <1>2 DEF Good
  <2>2. SubSeq(handlers, 1, Len(handlers)) = handlers
    BY <2>1, SubSeqFull
  <2> QED
    BY <1>3, <2>2 DEF PopFrame
<1> HIDE DEF N
<1>9. CASE Depth > 1
  <2>1. Bodies(frames[Len(frames)].blocks) = {}
    <3> SUFFICES ASSUME NEW p \in Bodies(frames[Len(frames)].blocks)
                 PROVE  FALSE
      OBVIOUS
    <3>1. PICK d \in 1..N : handlers[d].frame = Len(frames)
      BY <1>7
    <3>2. N \in 1..N
      BY <1>4
    <3>3. handlers[N].frame = Len(frames)
      <4>1. CASE d = N
        BY <3>1, <4>1
      <4>2. CASE d # N
        <5>1. Inside(handlers[N], handlers[d])
          BY <1>4, <1>6, <3>2, <4>2
        <5>2. handlers[N].frame \in 1..Len(frames) /\ Len(frames) \in Nat
          BY <1>2, <1>5, <3>2 DEF Depth
        <5> QED
          BY <3>1, <5>1, <5>2 DEF Inside
      <4> QED
        BY <4>1, <4>2
    <3>4. Handled
      BY <1>3, <1>4, <3>2, <3>3 DEF Handled, Depth
    <3> QED
      BY <3>4 DEF PopFrame
  <2>2. Len(defers) <= frames[Len(frames)].base
    <3>1. Len(defers) \in Nat /\ Top.base \in Nat
      BY <1>2, LenProperties, FrameIs DEF Good
    <3> QED
      BY <3>1 DEF PopFrame, Flushed, HasDefers, Top, Depth
  <2>3. Len(frames) > 1
    BY <1>9 DEF Depth
  <2>4. Good(Front(frames), handlers, defers) /\ Front(frames) # <<>>
    BY <1>2, <2>1, <2>2, <2>3, Pops
  <2> QED
    BY <1>1, <1>8, <1>9, <2>4 DEF PopFrame, StackInv
<1>10. CASE ~(Depth > 1)
  <2> DEFINE f == [Top EXCEPT !.exc = FALSE, !.flushing = FALSE]
  <2>1. f \in AnyFrame /\ f.base = Top.base /\ f.blocks = Blocks /\ f.leaving = Top.leaving
    BY <1>2 DEF AnyFrame, Blocks
  <2>2. frames' = WithTop(f) /\ mode' = "uncaught"
    BY <1>10 DEF PopFrame
  <2> HIDE DEF f
  <2>3. Good(WithTop(f), handlers, defers) /\ WithTop(f) # <<>>
    BY <1>1, <2>1, Noted
  <2> QED
    BY <1>8, <2>2, <2>3 DEF StackInv
<1> QED
  BY <1>9, <1>10
-----------------------------------------------------------------------------
(* Native functions and their callbacks.                                   *)

LEMMA ContextIs ==
  ASSUME NEW c \in AnyContext
  PROVE  /\ c.what \in {"native", "unwind"}
         /\ c.what = "native" => c.prev \in Nat
         /\ c.what = "unwind" => c.as \in {"unwind", "resumed"}
BY DEF AnyContext

LEMMA RustIs ==
  ASSUME RustTypes
  PROVE  /\ Len(rust) \in Nat /\ DOMAIN rust = 1..Len(rust)
         /\ \A i \in 1..Len(rust) : rust[i] \in AnyContext
         /\ Natives \in SUBSET (1..Len(rust))
         /\ rust # <<>> => /\ Last(rust) = rust[Len(rust)] /\ Len(rust) \in 1..Len(rust)
                           /\ Last(rust).what = "native" <=> Len(rust) \in Natives
                           /\ Last(rust).what = "native" \/ WaitsIn(rust)
<1>1. /\ Len(rust) \in Nat /\ DOMAIN rust = 1..Len(rust)
      /\ \A i \in 1..Len(rust) : rust[i] \in AnyContext
  BY LenProperties, ElementOfSeq DEF RustTypes
<1>2. Natives \in SUBSET (1..Len(rust))
  BY <1>1 DEF Natives
<1>3. ASSUME rust # <<>>
      PROVE  /\ Last(rust) = rust[Len(rust)] /\ Len(rust) \in 1..Len(rust)
             /\ Last(rust).what = "native" <=> Len(rust) \in Natives
             /\ Last(rust).what = "native" \/ WaitsIn(rust)
  <2>1. Len(rust) \in 1..Len(rust)
    BY <1>1, <1>3, EmptySeq DEF RustTypes
  <2>2. Last(rust) = rust[Len(rust)]
    BY DEF Last
  <2>3. Last(rust).what \in {"native", "unwind"}
    BY <1>1, <2>1, <2>2, ContextIs
  <2> QED
    BY <1>1, <1>3, <2>1, <2>2, <2>3 DEF Natives, WaitsIn
<1> QED
  BY <1>1, <1>2, <1>3

\* the Rust stack stays as it is, and so do the boundary and what escaped
LEMMA Quiet ==
  ASSUME NativeInv, mode # "native", rust' = rust, boundary' = boundary, escaped' = escaped,
         pending' \in BOOLEAN, mode' \in {"run", "late", "unwind", "resumed", "unwound"},
         mode' \in {"run", "late"} => ~WaitsIn(rust), mode' = "unwound" => WaitsIn(rust)
  PROVE  NativeInv'
<1>1. Natives' = Natives
  BY DEF Natives
<1>2. RustTypes'
  BY DEF NativeInv, RustTypes
<1>3. ModeInv'
  BY DEF ModeInv
<1>4. BoundaryInv' /\ EscapedIsTaken'
  BY <1>1 DEF NativeInv, BoundaryInv, FirstHasNone, EscapedIsTaken
<1> QED
  BY <1>2, <1>3, <1>4 DEF NativeInv

\* a native function takes over
LEMMA EnterIs ==
  ASSUME NativeInv, mode # "native", NEW below, EntersNative(below),
         \/ below = rust
         \/ /\ mode \in {"unwind", "resumed"} /\ Depth \in Nat
            /\ below = Append(rust, [what |-> "unwind", before |-> Depth, as |-> mode]),
         boundary' = boundary, escaped' = escaped, pending' = pending, Depth \in Nat
  PROVE  NativeInv'
<1> DEFINE c == Native
           k == Len(below) + 1
<1>0. RustTypes /\ boundary \in Nat
  BY DEF NativeInv, RustTypes
<1>1. c \in AnyContext /\ c.what = "native" /\ c.prev = boundary
  BY <1>0 DEF AnyContext, Native
<1>2. below \in Seq(AnyContext) /\ \A i : i \in DOMAIN below /\ below[i].what = "native" <=> i \in Natives
  <2>1. CASE below = rust
    BY <2>1, <1>0 DEF RustTypes, Natives
  <2>2. CASE below # rust
    <3> DEFINE u == [what |-> "unwind", before |-> Depth, as |-> mode]
    <3>1. u \in AnyContext /\ u.what = "unwind" /\ below = Append(rust, u)
      BY <2>2 DEF AnyContext
    <3> HIDE DEF u
    <3>2. /\ below \in Seq(AnyContext) /\ Len(rust) \in Nat /\ DOMAIN rust = 1..Len(rust)
          /\ DOMAIN below = 1..(Len(rust) + 1)
          /\ (\A i \in 1..Len(rust) : below[i] = rust[i]) /\ below[Len(rust) + 1] = u
      BY <1>0, <3>1, AppendIs DEF RustTypes
    <3>3. \A i : i \in 1..(Len(rust) + 1) <=> i \in 1..Len(rust) \/ i = Len(rust) + 1
      BY <3>2
    <3> QED
      BY <3>1, <3>2, <3>3 DEF Natives
  <2> QED
    BY <2>1, <2>2
<1>3. rust' = Append(below, c) /\ mode' = "native"
  BY DEF EntersNative
<1> HIDE DEF c
<1>4. /\ rust' \in Seq(AnyContext) /\ rust' # <<>> /\ DOMAIN rust' = 1..k /\ k \in Nat \ {0}
      /\ DOMAIN below = 1..(k - 1) /\ (\A i \in 1..(k - 1) : rust'[i] = below[i]) /\ rust'[k] = c
      /\ Last(rust') = c
  <2>1. /\ Append(below, c) \in Seq(AnyContext) /\ Append(below, c) # <<>>
        /\ Len(below) \in Nat /\ DOMAIN below = 1..Len(below)
        /\ DOMAIN Append(below, c) = 1..(Len(below) + 1)
        /\ \A i \in 1..Len(below) : Append(below, c)[i] = below[i]
        /\ Append(below, c)[Len(below) + 1] = c /\ Last(Append(below, c)) = c
    BY <1>1, <1>2, AppendIs
  <2>2. k \in Nat \ {0} /\ k - 1 = Len(below) /\ k = Len(below) + 1
    <3>1. Len(below) \in Nat
      BY <1>2, LenProperties
    <3> QED
      BY <3>1
  <2> DEFINE len == Len(below)
             cs == Append(below, c)
  <2>3. /\ cs \in Seq(AnyContext) /\ cs # <<>> /\ DOMAIN below = 1..len /\ DOMAIN cs = 1..k
        /\ (\A i \in 1..len : cs[i] = below[i]) /\ cs[k] = c /\ Last(cs) = c
        /\ rust' = cs /\ k - 1 = len
    BY <1>3, <2>1, <2>2
  <2> HIDE DEF len, cs, k
  <2>4. 1..(k - 1) = 1..len
    BY <2>3
  <2> QED
    BY <2>2, <2>3, <2>4
<1> HIDE DEF k
<1>5. /\ \A i : i \in Natives' <=> i \in Natives \/ i = k
      /\ \A i \in Natives : i \in 1..(k - 1) /\ rust'[i] = below[i] /\ rust[i].prev = rust'[i].prev
  <2>1. \A i : i \in 1..k <=> i \in 1..(k - 1) \/ i = k
    BY <1>4
  <2>2. k \notin 1..(k - 1)
    BY <1>4
  <2>3. \A i \in Natives : i \in 1..(k - 1) /\ rust'[i] = below[i]
    BY <1>2, <1>4
  <2>4. \A i : i \in Natives' <=> i \in Natives \/ i = k
    <3>1. \A i : i \in Natives' <=> i \in DOMAIN rust' /\ rust'[i].what = "native"
      BY DEF Natives
    <3> QED
      BY <1>1, <1>2, <1>4, <2>1, <3>1
  <2>5. ASSUME NEW i \in Natives
        PROVE  below[i] = rust[i]
    <3>1. CASE below = rust
      BY <3>1
    <3>2. CASE below # rust
      <4> DEFINE u == [what |-> "unwind", before |-> Depth, as |-> mode]
      <4>1. u \in AnyContext /\ below = Append(rust, u)
        BY <3>2 DEF AnyContext
      <4> HIDE DEF u
      <4>2. \A j \in 1..Len(rust) : below[j] = rust[j]
        BY <1>0, <4>1, AppendIs DEF RustTypes
      <4>3. i \in 1..Len(rust)
        BY <1>0, RustIs
      <4> QED
        BY <4>2, <4>3
    <3> QED
      BY <3>1, <3>2
  <2> QED
    BY <2>3, <2>4, <2>5
<1>6. boundary = NoBoundary <=> Natives = {}
  BY DEF NativeInv, BoundaryInv, EscapedIsTaken
<1>7. FirstHasNone'
  <2> SUFFICES ASSUME NEW n \in Natives'
               PROVE  rust'[n].prev = NoBoundary <=> \A i \in Natives' : n <= i
    BY DEF FirstHasNone
  <2>1. CASE n \in Natives
    <3>1. rust[n].prev = NoBoundary <=> \A i \in Natives : n <= i
      BY <2>1 DEF NativeInv, BoundaryInv, FirstHasNone
    <3>2. n <= k /\ rust'[n].prev = rust[n].prev
      BY <1>4, <1>5, <2>1
    <3> QED
      BY <1>5, <3>1, <3>2
  <2>2. CASE n \notin Natives
    <3>1. n = k /\ rust'[n].prev = boundary
      BY <1>1, <1>4, <1>5, <2>2
    <3>2. CASE Natives = {}
      BY <1>4, <1>5, <1>6, <3>1, <3>2
    <3>3. CASE Natives # {}
      <4>1. PICK i \in Natives : TRUE
        BY <3>3
      <4>2. i \in Natives' /\ ~(k <= i)
        BY <1>4, <1>5, <4>1
      <4> QED
        BY <1>6, <3>1, <3>3, <4>2
    <3> QED
      BY <3>2, <3>3
  <2> QED
    BY <2>1, <2>2
<1>8. RustTypes'
  BY <1>0, <1>3, <1>4 DEF RustTypes
<1>9. ModeInv'
  BY <1>1, <1>3, <1>4 DEF ModeInv
<1>10. BoundaryInv' /\ EscapedIsTaken'
  <2>1. Natives' # {}
    BY <1>5
  <2> QED
    BY <1>3, <1>7, <2>1 DEF BoundaryInv, EscapedIsTaken
<1> QED
  BY <1>8, <1>9, <1>10 DEF NativeInv

\* the Rust stack is cut to its first n entries, and with them to some of the
\* native functions
LEMMA CutRust ==
  ASSUME RustTypes, NEW n \in 0..Len(rust), rust' = SubSeq(rust, 1, n)
  PROVE  /\ rust' \in Seq(AnyContext)
         /\ \A i : i \in Natives' <=> i \in Natives /\ i <= n
         /\ \A i \in Natives' : rust'[i] = rust[i]
         /\ n # 0 => rust' # <<>> /\ Last(rust') = rust[n]
         /\ n = 0 => rust' = <<>>
<1>1. /\ Len(rust) \in Nat /\ DOMAIN rust = 1..Len(rust) /\ rust \in Seq(AnyContext)
  BY RustIs DEF RustTypes
<1>2. /\ rust' \in Seq(AnyContext) /\ Len(rust') = n /\ DOMAIN rust' = 1..n
      /\ \A i \in 1..n : rust'[i] = rust[i]
  BY <1>1, PrefixIs
<1>3. \A i : i \in Natives' <=> i \in Natives /\ i <= n
  <2>1. \A i : i \in Natives' <=> i \in 1..n /\ rust'[i].what = "native"
    BY <1>2 DEF Natives
  <2>2. \A i : i \in Natives <=> i \in 1..Len(rust) /\ rust[i].what = "native"
    BY <1>1 DEF Natives
  <2>3. \A i : i \in 1..n <=> i \in 1..Len(rust) /\ i <= n
    BY <1>1
  <2> QED
    BY <1>2, <2>1, <2>2, <2>3
<1>4. \A i \in Natives' : rust'[i] = rust[i]
  BY <1>2 DEF Natives
<1>5. n # 0 => rust' # <<>> /\ Last(rust') = rust[n]
  BY <1>1, <1>2, EmptySeq DEF Last
<1>6. n = 0 => rust' = <<>>
  BY <1>2, EmptySeq
<1> QED
  BY <1>2, <1>3, <1>4, <1>5, <1>6

\* the native function that was entered last is gone, and the boundary is
\* what it was before it
LEMMA NativeEnds ==
  ASSUME NativeInv, NEW n \in 0..Len(rust), rust' = SubSeq(rust, 1, n),
         NEW m \in Natives, \A i \in Natives : i <= m /\ (i <= n <=> i # m),
         boundary' = rust[m].prev, escaped' = FALSE, pending' \in BOOLEAN,
         mode' \in {"run", "unwind", "resumed"}, mode' = "run" => ~WaitsIn(rust')
  PROVE  NativeInv'
<1>0. RustTypes
  BY DEF NativeInv
<1>1. /\ rust' \in Seq(AnyContext)
      /\ \A i : i \in Natives' <=> i \in Natives /\ i <= n
      /\ \A i \in Natives' : rust'[i] = rust[i]
  BY <1>0, CutRust
<1>2. \A i : i \in Natives' <=> i \in Natives /\ i # m
  BY <1>1
<1>3. \A i \in Natives : i \in Nat
  BY <1>0, RustIs
<1>4. \A i \in Natives : rust[i].prev = NoBoundary <=> \A k \in Natives : i <= k
  BY DEF NativeInv, BoundaryInv, FirstHasNone
<1>5. boundary' \in Nat
  <2>1. rust[m] \in AnyContext /\ rust[m].what = "native"
    BY <1>0, RustIs DEF Natives
  <2> QED
    BY <2>1, ContextIs
<1>6. FirstHasNone'
  <2> SUFFICES ASSUME NEW i \in Natives'
               PROVE  rust'[i].prev = NoBoundary <=> \A k \in Natives' : i <= k
    BY DEF FirstHasNone
  <2>1. i \in Natives /\ i # m /\ i <= m /\ rust'[i] = rust[i]
    BY <1>1, <1>2
  <2>2. (\A k \in Natives' : i <= k) <=> \A k \in Natives : i <= k
    BY <1>2, <2>1
  <2> QED
    BY <1>4, <2>1, <2>2
<1>7. boundary' = NoBoundary <=> Natives' = {}
  <2>1. CASE Natives' = {}
    <3>1. \A k \in Natives : m <= k
      BY <1>2, <1>3, <2>1
    <3> QED
      BY <1>4, <2>1, <3>1
  <2>2. CASE Natives' # {}
    <3>1. PICK k \in Natives' : TRUE
      BY <2>2
    <3>2. k \in Natives /\ k # m /\ k <= m /\ k \in Nat /\ m \in Nat
      BY <1>2, <1>3, <3>1
    <3>3. ~(m <= k)
      BY <3>2
    <3> QED
      BY <1>4, <2>2, <3>2, <3>3
  <2> QED
    BY <2>1, <2>2
<1>8. RustTypes'
  BY <1>1, <1>5 DEF RustTypes
<1>9. ModeInv'
  BY DEF ModeInv
<1>10. BoundaryInv' /\ EscapedIsTaken'
  BY <1>6, <1>7 DEF BoundaryInv, EscapedIsTaken
<1> QED
  BY <1>8, <1>9, <1>10 DEF NativeInv

LEMMA NothingRuns ==
  /\ rust = <<>> => Natives = {}
  /\ rust' = <<>> => Natives' = {}
<1>1. \A f : f = <<>> => {i \in DOMAIN f : f[i].what = "native"} = {}
  <2> SUFFICES ASSUME NEW f, f = <<>>, NEW i \in DOMAIN f
               PROVE  FALSE
    OBVIOUS
  <2>1. f \in Seq({}) /\ Len(f) = 0
    BY EmptySeq
  <2>2. DOMAIN f = 1..0
    BY <2>1, LenProperties
  <2> QED
    BY <2>2
<1>2. rust = <<>> => {i \in DOMAIN rust : rust[i].what = "native"} = {}
  BY <1>1
<1>3. rust' = <<>> => {i \in DOMAIN (rust') : rust'[i].what = "native"} = {}
  BY <1>1
<1> QED
  BY <1>2, <1>3 DEF Natives

LEMMA FailsNative ==
  ASSUME NativeInv, NEW fs, NEW ds, Fails(fs, ds)
  PROVE  NativeInv'
<1>1. RustTypes /\ EscapedIsTaken
  BY DEF NativeInv
<1>2. /\ Len(rust) \in Nat /\ Natives \in SUBSET (0..Len(rust))
      /\ \A i \in Natives : i \in 1..Len(rust) /\ rust[i] \in AnyContext
  <2>1. Len(rust) \in Nat
    BY <1>1, RustIs
  <2>2. Natives \in SUBSET (1..Len(rust)) /\ \A i \in 1..Len(rust) : rust[i] \in AnyContext
    BY <1>1, RustIs
  <2> QED
    BY <2>1, <2>2
<1>3. CASE escaped /\ Natives # {}
  <2> DEFINE m == Max(Natives)
             n == m - 1
  <2>1. m \in Natives /\ \A i \in Natives : i <= m
    BY <1>2, <1>3, MaxIs
  <2>2. /\ rust' = SubSeq(rust, 1, n) /\ boundary' = rust[m].prev /\ escaped' = FALSE
        /\ mode' = "unwind" /\ pending' = FALSE
    BY <1>3 DEF Fails, Throws
  <2> HIDE DEF m
  <2>3. n \in 0..Len(rust) /\ \A i \in Natives : i <= m /\ (i <= n <=> i # m)
    BY <1>2, <2>1
  <2> HIDE DEF n
  <2> QED
    BY <2>1, <2>2, <2>3, NativeEnds
<1>4. CASE ~(escaped /\ Natives # {})
  <2>1. /\ rust' = <<>> /\ pending' = FALSE /\ mode' = "failed" /\ escaped' = escaped
        /\ boundary' = IF Natives = {} THEN boundary ELSE rust[Min(Natives)].prev
    BY <1>4 DEF Fails
  <2>2. escaped' = FALSE
    BY <1>1, <1>4, <2>1 DEF EscapedIsTaken, RustTypes
  <2>3. boundary' = NoBoundary
    <3>1. CASE Natives = {}
      BY <1>1, <2>1, <3>1 DEF EscapedIsTaken
    <3>2. CASE Natives # {}
      <4> DEFINE m == Min(Natives)
      <4>1. m \in Natives /\ \A i \in Natives : m <= i
        BY <1>2, <3>2, MinIs
      <4>2. boundary' = rust[m].prev
        BY <2>1, <3>2
      <4> HIDE DEF m
      <4> QED
        BY <4>1, <4>2 DEF NativeInv, BoundaryInv, FirstHasNone
    <3> QED
      BY <3>1, <3>2
  <2>4. Natives' = {}
    BY <2>1, NothingRuns
  <2>5. RustTypes'
    <3>1. rust' \in Seq(AnyContext)
      BY <2>1, EmptySeq
    <3>2. pending' = FALSE /\ mode' = "failed"
      BY <2>1
    <3>3. boundary' = 0
      BY <2>3 DEF NoBoundary
    <3> QED
      BY <2>2, <3>1, <3>2, <3>3 DEF RustTypes
  <2>6. ModeInv' /\ BoundaryInv' /\ EscapedIsTaken'
    BY <2>1, <2>2, <2>3, <2>4 DEF ModeInv, BoundaryInv, FirstHasNone, EscapedIsTaken
  <2> QED
    BY <2>5, <2>6 DEF NativeInv
<1> QED
  BY <1>3, <1>4

LEMMA StatementsAreQuiet ==
  ASSUME NativeInv,
         \/ EnterLoop \/ EndLoop \/ \E kind \in Kinds \ {"loop"} : EnterTry(kind)
         \/ EndBody \/ EndExcept \/ Dispatch \/ EndFinally \/ EndCleanup \/ Throw \/ Passes
         \/ Return \/ Break \/ Continue \/ EndInlined \/ Defer \/ DefersAreDone
  PROVE  NativeInv'
<1>1. pending \in BOOLEAN /\ (mode \in {"run", "late"} => ~WaitsIn(rust))
  BY DEF NativeInv, RustTypes, ModeInv
<1>2. mode \in {"run", "late"}
  BY DEF EnterLoop, EndLoop, EnterTry, Enters, EndBody, EndExcept, Dispatch, EndFinally,
         EndCleanup, Throw, Passes, Return, Break, Continue, EndInlined, EarlyExit, Defer,
         DefersAreDone, Statement, InStatement, Instruction
<1>3. UNCHANGED rustVars
  BY DEF EnterLoop, EndLoop, EnterTry, EndBody, EndExcept, Dispatch, EndFinally,
         EndCleanup, Throw, Passes, Return, Break, Continue, EndInlined, EarlyExit, Defer,
         DefersAreDone, OnlyFrames
<1>4. pending' \in {pending, FALSE} /\ mode' \in {mode, "run", "unwind"}
  BY DEF EnterLoop, EndLoop, EnterTry, EndBody, EndExcept, Dispatch, EndFinally,
         EndCleanup, Throw, Throws, Passes, Return, Break, Continue, EndInlined, EarlyExit, Defer,
         DefersAreDone, OnlyFrames
<1> QED
  BY <1>1, <1>2, <1>3, <1>4, Quiet DEF rustVars

LEMMA NativeSteps ==
  ASSUME StackInv, NativeInv,
         Call \/ Fail \/ NativeCallsBack \/ CallbackReturns \/ NativeReturns
  PROVE  NativeInv'
<1>1. RustTypes /\ ModeInv /\ BoundaryInv /\ EscapedIsTaken
  BY DEF NativeInv
<1>2. mode # "failed"
  BY DEF Call, Fail, NativeCallsBack, CallbackReturns, NativeReturns, Instruction
<1>3. Depth \in Nat \ {0}
  BY <1>2, HereIs
<1>4. /\ Len(rust) \in Nat /\ DOMAIN rust = 1..Len(rust) /\ Natives \in SUBSET (1..Len(rust))
      /\ \A i \in 1..Len(rust) : rust[i] \in AnyContext
  BY <1>1, RustIs
<1>5. rust # <<>> => /\ Last(rust) = rust[Len(rust)] /\ Len(rust) \in 1..Len(rust)
                     /\ Last(rust).what = "native" <=> Len(rust) \in Natives
                     /\ Last(rust).what = "native" \/ WaitsIn(rust)
  BY <1>1, RustIs
<1>6. CASE Call
  <2>1. mode \in {"run", "late"} /\ UNCHANGED <<boundary, escaped, pending>>
    BY <1>6 DEF Call, Instruction
  <2>2. CASE mode' = "run" /\ UNCHANGED rust
    BY <1>1, <2>1, <2>2, Quiet DEF RustTypes, ModeInv
  <2>3. CASE EntersNative(rust)
    <3>1. mode # "native" /\ Depth \in Nat
      BY <1>3, <2>1
    <3> QED
      BY <2>1, <2>3, <3>1, EnterIs
  <2> QED
    BY <1>6, <2>2, <2>3 DEF Call
<1>7. CASE Fail
  BY <1>7, FailsNative DEF Fail
<1>8. CASE NativeCallsBack
  <2>1. /\ mode = "native" /\ rust' = rust /\ boundary' = Depth /\ mode' = "run"
        /\ escaped' = escaped /\ pending' = pending
    BY <1>8 DEF NativeCallsBack
  <2>2. rust # <<>> /\ Last(rust).what = "native"
    BY <1>1, <2>1 DEF ModeInv
  <2>3. ~WaitsIn(rust)
    BY <2>2 DEF WaitsIn
  <2>4. Natives' = Natives /\ Natives # {}
    BY <1>5, <2>1, <2>2 DEF Natives
  <2>5. RustTypes' /\ ModeInv'
    BY <1>1, <1>3, <2>1, <2>3 DEF RustTypes, ModeInv
  <2>6. BoundaryInv' /\ EscapedIsTaken'
    BY <1>1, <1>3, <2>1, <2>4 DEF BoundaryInv, FirstHasNone, EscapedIsTaken, NoBoundary
  <2> QED
    BY <2>5, <2>6 DEF NativeInv
<1>9. CASE CallbackReturns
  <2>1. /\ mode = "run" /\ Depth <= boundary /\ rust' = rust /\ boundary' = Last(rust).prev
        /\ mode' = "native" /\ escaped' = escaped /\ pending' = pending
    BY <1>9 DEF CallbackReturns, CallbackIsOver
  <2>2. boundary # NoBoundary
    BY <1>1, <1>3, <2>1 DEF RustTypes, NoBoundary
  <2>3. Natives # {} /\ rust # <<>>
    <3>1. Natives # {}
      BY <1>1, <2>2 DEF EscapedIsTaken
    <3>2. rust # <<>>
      BY <3>1 DEF Natives
    <3> QED
      BY <3>1, <3>2
  <2>4. Last(rust).what = "native"
    BY <1>1, <1>5, <2>1, <2>3 DEF ModeInv
  <2>5. Last(rust).prev \in Nat
    BY <1>4, <1>5, <2>3, <2>4, ContextIs
  <2>6. Natives' = Natives
    BY <2>1 DEF Natives
  <2>7. RustTypes' /\ ModeInv'
    BY <1>1, <2>1, <2>3, <2>4, <2>5 DEF RustTypes, ModeInv
  <2>8. BoundaryInv' /\ EscapedIsTaken'
    BY <1>1, <2>1, <2>3, <2>6 DEF BoundaryInv, FirstHasNone, EscapedIsTaken
  <2> QED
    BY <2>7, <2>8 DEF NativeInv
<1>10. CASE NativeReturns
  <2> DEFINE m == Len(rust)
             below == Front(rust)
  <2>1. mode = "native" /\ boundary' = boundary
    BY <1>10 DEF NativeReturns
  <2>2. rust # <<>> /\ Last(rust).what = "native" /\ boundary = Last(rust).prev
    BY <1>1, <2>1 DEF ModeInv
  <2>3. /\ m \in Natives /\ m \in Nat \ {0} /\ boundary' = rust[m].prev
        /\ \A i \in Natives : i \in 1..m
    <3>1. /\ Last(rust) = rust[m] /\ m \in 1..m /\ m \in Natives
      BY <1>5, <2>2
    <3>2. m \in Nat /\ Natives \in SUBSET (1..m)
      BY <1>4
    <3> HIDE DEF m
    <3>3. m \in Nat \ {0}
      BY <3>1, <3>2
    <3> QED
      BY <2>1, <2>2, <3>1, <3>2, <3>3
  <2>4. /\ below = SubSeq(rust, 1, m - 1) /\ Len(below) = m - 1
        /\ \A i \in 1..(m - 1) : below[i] = rust[i]
        /\ below \in Seq(AnyContext)
    BY <1>1, <2>2, FrontIs DEF Front, RustTypes
  <2>8. m - 1 \in 0..m /\ \A i \in Natives : i <= m /\ (i <= m - 1 <=> i # m)
    <3> HIDE DEF m
    <3> QED
      BY <2>3
  <2>5. CASE escaped
    <3>1. rust' = below /\ escaped' = FALSE /\ mode' = "unwind" /\ pending' = FALSE
      BY <1>10, <2>5 DEF NativeReturns, Throws
    <3> DEFINE n == m - 1
    <3>2. /\ n \in 0..Len(rust) /\ rust' = SubSeq(rust, 1, n)
          /\ \A i \in Natives : i <= m /\ (i <= n <=> i # m)
      BY <2>8, <2>4, <3>1
    <3> HIDE DEF n, m, below
    <3> QED
      BY <2>3, <3>1, <3>2, NativeEnds
  <2>6. CASE ~escaped /\ ~WaitsIn(below)
    <3>1. rust' = below /\ escaped' = FALSE /\ mode' = "run" /\ pending' = pending
      BY <1>1, <1>10, <2>6 DEF NativeReturns, RustTypes
    <3> DEFINE n == m - 1
    <3>2. /\ n \in 0..Len(rust) /\ rust' = SubSeq(rust, 1, n)
          /\ \A i \in Natives : i <= m /\ (i <= n <=> i # m)
      BY <2>8, <2>4, <3>1
    <3>3. ~WaitsIn(rust') /\ pending' \in BOOLEAN
      BY <1>1, <2>6, <3>1 DEF RustTypes
    <3> HIDE DEF n, m, below
    <3> QED
      BY <2>3, <3>1, <3>2, <3>3, NativeEnds
  <2>7. CASE ~escaped /\ WaitsIn(below)
    <3>1. rust' = Front(below) /\ escaped' = FALSE /\ mode' = Last(below).as /\ pending' = pending
      BY <1>1, <1>10, <2>7 DEF NativeReturns, RustTypes
    <3>2. below # <<>> /\ Last(below).what = "unwind"
      BY <2>7 DEF WaitsIn
    <3>3. m - 1 \in Nat \ {0} /\ Last(below) = below[m - 1]
      <4>1. Len(below) \in Nat \ {0} /\ Last(below) = below[Len(below)]
        BY <2>4, <3>2, FrontIs
      <4> QED
        BY <2>4, <4>1
    <3>4. Last(below) = rust[m - 1] /\ m - 1 \in 1..m
      BY <2>3, <2>4, <3>3
    <3>5. mode' \in {"unwind", "resumed"}
      BY <1>4, <3>1, <3>2, <3>4, ContextIs
    <3>6. m - 1 \notin Natives
      BY <3>2, <3>4 DEF Natives
    <3> DEFINE n == m - 2
    <3>7. Front(below) = SubSeq(rust, 1, n)
      <4>1. Front(below) = SubSeq(below, 1, n)
        BY <2>3, <2>4 DEF Front
      <4>2. n \in 0..Len(below) /\ n \in 0..m
        BY <2>3, <2>4, <3>3
      <4> HIDE DEF below, n
      <4>3. /\ SubSeq(below, 1, n) \in Seq(AnyContext) /\ Len(SubSeq(below, 1, n)) = n
            /\ \A i \in 1..n : SubSeq(below, 1, n)[i] = below[i]
        BY <2>4, <4>2, PrefixIs
      <4>4. /\ SubSeq(rust, 1, n) \in Seq(AnyContext) /\ Len(SubSeq(rust, 1, n)) = n
            /\ \A i \in 1..n : SubSeq(rust, 1, n)[i] = rust[i]
        BY <1>1, <4>2, PrefixIs DEF RustTypes
      <4>5. \A i \in 1..n : below[i] = rust[i]
        BY <2>4, <4>2 DEF n
      <4>6. \A i \in 1..n : SubSeq(below, 1, n)[i] = SubSeq(rust, 1, n)[i]
        BY <4>3, <4>4, <4>5
      <4>7. SubSeq(below, 1, n) = SubSeq(rust, 1, n)
        BY <4>3, <4>4, <4>6, SeqEqual
      <4> QED
        BY <4>1, <4>7
    <3>8. /\ n \in 0..Len(rust) /\ \A i \in Natives : i <= m /\ (i <= n <=> i # m)
      <4>1. m - 1 >= 1 /\ m \in Nat
        <5> HIDE DEF m, below, n
        <5> QED
          BY <2>3, <3>3
      <4>2. n \in 0..Len(rust)
        BY <4>1
      <4>3. ASSUME NEW i \in Natives
            PROVE  i <= m /\ (i <= n <=> i # m)
        <5>1. i \in 1..m /\ i # m - 1
          BY <2>3, <3>6
        <5> HIDE DEF m
        <5> QED
          BY <4>1, <5>1
      <4> QED
        BY <4>2, <4>3
    <3>9. rust' = SubSeq(rust, 1, n) /\ pending' \in BOOLEAN
      BY <1>1, <3>1, <3>7 DEF RustTypes
    <3> HIDE DEF n, m, below
    <3> QED
      BY <2>3, <3>1, <3>5, <3>8, <3>9, NativeEnds
  <2> QED
    BY <2>5, <2>6, <2>7
<1> QED
  BY <1>6, <1>7, <1>8, <1>9, <1>10

LEMMA DeferNativeSteps ==
  ASSUME StackInv, NativeInv, ExecDefer \/ FlushDefer
  PROVE  NativeInv'
<1>1. RustTypes /\ ModeInv
  BY DEF NativeInv
<1>2. mode # "failed" /\ mode # "native"
  BY DEF ExecDefer, FlushDefer, Instruction, Driving
<1>3. Depth \in Nat
  BY <1>2, HereIs
<1>4. CASE ExecDefer
  <2>1. mode \in {"run", "late"}
    BY <1>4 DEF ExecDefer, Instruction
  <2>2. CASE mode' = "run" /\ UNCHANGED <<rust, boundary, escaped, pending>>
    BY <1>1, <1>2, <2>1, <2>2, Quiet DEF RustTypes, ModeInv
  <2>3. CASE EntersNative(rust) /\ UNCHANGED <<boundary, escaped, pending>>
    BY <1>2, <1>3, <2>3, EnterIs
  <2>4. CASE Fails(Flushing, Rest)
    BY <2>4, FailsNative
  <2> QED
    BY <1>4, <2>2, <2>3, <2>4 DEF ExecDefer
<1>5. CASE FlushDefer
  <2>1. mode \in {"unwind", "resumed"}
    BY <1>5 DEF FlushDefer, Driving
  <2>2. CASE pending' = TRUE /\ Returns(rust, mode) /\ UNCHANGED <<rust, boundary, escaped>>
    <3>1. mode' \in {"run", "late", "unwound"} /\ (mode' = "unwound" <=> WaitsIn(rust))
      BY <2>2 DEF Returns
    <3> QED
      BY <1>2, <2>2, <3>1, Quiet
  <2>3. CASE UNCHANGED <<rust, pending, mode, boundary, escaped>>
    BY <1>1, <1>2, <2>1, <2>3, Quiet DEF RustTypes
  <2>4. CASE /\ UNCHANGED <<pending, boundary, escaped>>
             /\ EntersNative(Append(rust, [what |-> "unwind", before |-> Depth, as |-> mode]))
    <3> DEFINE below == Append(rust, [what |-> "unwind", before |-> Depth, as |-> mode])
    <3>1. EntersNative(below) /\ below = Append(rust, [what |-> "unwind", before |-> Depth, as |-> mode])
      BY <2>4
    <3> HIDE DEF below
    <3> QED
      BY <1>2, <1>3, <2>1, <2>4, <3>1, EnterIs
  <2>5. CASE \E fs, ds : Fails(fs, ds)
    BY <2>5, FailsNative
  <2> QED
    BY <1>5, <2>2, <2>3, <2>4, <2>5 DEF FlushDefer
<1> QED
  BY <1>4, <1>5

LEMMA UnwindSteps ==
  ASSUME StackInv, NativeInv,
         Resume \/ Escape \/ Catch \/ PopFrame \/ ReturnFromFrame \/ OuterDriveGoesOn \/ Exec
  PROVE  NativeInv'
<1>1. RustTypes /\ ModeInv /\ BoundaryInv /\ EscapedIsTaken
  BY DEF NativeInv
<1>2. CASE Resume
  BY <1>1, <1>2, Quiet DEF Resume, rustVars
<1>3. CASE Escape
  <2>1. /\ mode \in {"unwind", "resumed"} /\ Depth <= boundary /\ escaped' = TRUE
        /\ Returns(rust, mode) /\ UNCHANGED <<rust, boundary, pending>>
    BY <1>3 DEF Escape, Driving, AtBoundary
  <2>2. Depth \in Nat \ {0}
    BY <2>1, HereIs
  <2>3. Natives # {}
    BY <1>1, <2>1, <2>2 DEF EscapedIsTaken, RustTypes, NoBoundary
  <2>4. mode' \in {"run", "late", "unwound"} /\ (mode' = "unwound" <=> WaitsIn(rust))
    BY <2>1 DEF Returns
  <2>5. Natives' = Natives
    BY <2>1 DEF Natives
  <2>6. RustTypes' /\ ModeInv'
    BY <1>1, <2>1, <2>4 DEF RustTypes, ModeInv
  <2>7. BoundaryInv' /\ EscapedIsTaken'
    BY <1>1, <2>1, <2>3, <2>5 DEF BoundaryInv, FirstHasNone, EscapedIsTaken
  <2> QED
    BY <2>6, <2>7 DEF NativeInv
<1>4. CASE Catch
  <2>1. mode \in {"unwind", "resumed"} /\ Returns(rust, mode) /\ UNCHANGED <<rustVars, pending>>
    BY <1>4 DEF Catch, Flushed, Driving
  <2>2. mode' \in {"run", "late", "unwound"} /\ (mode' = "unwound" <=> WaitsIn(rust))
    BY <2>1 DEF Returns
  <2> QED
    BY <1>1, <2>1, <2>2, Quiet DEF rustVars, RustTypes
<1>5. CASE PopFrame
  <2>1. mode \in {"unwind", "resumed"} /\ ~(Depth <= boundary) /\ UNCHANGED <<rustVars, pending>>
    BY <1>5 DEF PopFrame, Flushed, Driving, AtBoundary
  <2>2. CASE mode' = mode
    BY <1>1, <2>1, <2>2, Quiet DEF rustVars, RustTypes
  <2>3. CASE mode' # mode
    <3>1. mode' = "uncaught" /\ ~(Depth > 1)
      BY <1>5, <2>3 DEF PopFrame
    <3>2. Depth \in Nat \ {0}
      BY <2>1, HereIs
    <3>3. boundary = NoBoundary
      BY <1>1, <2>1, <3>1, <3>2 DEF RustTypes, NoBoundary
    <3>4. Natives = {} /\ Natives' = {}
      <4>1. Natives = {}
        BY <1>1, <2>1, <3>3 DEF BoundaryInv
      <4> QED
        BY <2>1, <4>1 DEF Natives, rustVars
    <3>5. RustTypes' /\ ModeInv'
      BY <1>1, <2>1, <3>1, <3>4 DEF RustTypes, ModeInv, rustVars
    <3>6. BoundaryInv' /\ EscapedIsTaken'
      BY <1>1, <2>1, <3>4 DEF BoundaryInv, FirstHasNone, EscapedIsTaken, rustVars
    <3> QED
      BY <3>5, <3>6 DEF NativeInv
  <2> QED
    BY <2>2, <2>3
<1>6. CASE ReturnFromFrame
  <2>1. mode \in {"run", "late"} /\ UNCHANGED <<rustVars, pending>>
    BY <1>6 DEF ReturnFromFrame, Instruction
  <2>2. CASE mode' = "run"
    BY <1>1, <2>1, <2>2, Quiet DEF rustVars, RustTypes, ModeInv
  <2>3. CASE mode' # "run"
    <3>1. mode' = "ended" /\ rust = <<>>
      BY <1>6, <2>3 DEF ReturnFromFrame
    <3>2. Natives = {} /\ Natives' = {}
      BY <2>1, <3>1 DEF Natives, rustVars
    <3>3. RustTypes' /\ ModeInv'
      BY <1>1, <2>1, <3>1, <3>2 DEF RustTypes, ModeInv, rustVars
    <3>4. BoundaryInv' /\ EscapedIsTaken'
      BY <1>1, <2>1, <3>2 DEF BoundaryInv, FirstHasNone, EscapedIsTaken, rustVars
    <3> QED
      BY <3>3, <3>4 DEF NativeInv
  <2> QED
    BY <2>2, <2>3
<1>7. CASE OuterDriveGoesOn
  <2> DEFINE n == Len(rust) - 1
  <2>1. mode = "unwound" /\ rust' = Front(rust) /\ UNCHANGED <<boundary, escaped>>
    BY <1>7 DEF OuterDriveGoesOn
  <2>2. rust # <<>> /\ Last(rust).what = "unwind"
    BY <1>1, <2>1 DEF ModeInv, WaitsIn
  <2>3. Len(rust) \in Nat /\ Last(rust) = rust[Len(rust)] /\ Len(rust) \in 1..Len(rust)
    BY <1>1, <2>2, RustIs
  <2>4. Last(rust).as \in {"unwind", "resumed"}
    <3>1. Last(rust) \in AnyContext
      BY <1>1, <2>3, RustIs
    <3> QED
      BY <2>2, <3>1, ContextIs
  <2>5. n \in 0..Len(rust) /\ rust' = SubSeq(rust, 1, n)
    BY <2>1, <2>3 DEF Front
  <2>6. \A i \in Natives : i <= n
    <3>1. Len(rust) \notin Natives
      BY <2>2, <2>3 DEF Natives
    <3>2. \A i \in Natives : i \in 1..Len(rust)
      BY <1>1, RustIs
    <3>3. \A i \in Natives : i # Len(rust)
      BY <3>1
    <3> QED
      BY <2>3, <3>2, <3>3
  <2> HIDE DEF n
  <2>7. /\ rust' \in Seq(AnyContext) /\ \A i \in Natives' : rust'[i] = rust[i]
        /\ \A i : i \in Natives' <=> i \in Natives
    <3>1. /\ rust' \in Seq(AnyContext) /\ \A i \in Natives' : rust'[i] = rust[i]
          /\ \A i : i \in Natives' <=> i \in Natives /\ i <= n
      BY <1>1, <2>5, CutRust
    <3> QED
      BY <2>6, <3>1
  <2>8. Natives' = Natives
    BY <2>7
  <2>9. \/ mode' \in {"unwind", "resumed"} /\ pending' = pending
        \/ /\ pending' = TRUE /\ mode' \in {"run", "late", "unwound"}
           /\ mode' = "unwound" <=> WaitsIn(rust')
    BY <1>7, <2>1, <2>4 DEF OuterDriveGoesOn, Returns
  <2>10. RustTypes' /\ ModeInv'
    BY <1>1, <2>1, <2>7, <2>9 DEF RustTypes, ModeInv
  <2>11. BoundaryInv' /\ EscapedIsTaken'
    <3>1. FirstHasNone'
      BY <1>1, <2>7, <2>8 DEF BoundaryInv, FirstHasNone
    <3> QED
      BY <1>1, <2>1, <2>8, <3>1 DEF BoundaryInv, EscapedIsTaken
  <2> QED
    BY <2>10, <2>11 DEF NativeInv
<1>8. CASE Exec
  <2>1. /\ mode \in {"ended", "uncaught", "failed"} /\ mode' = "run" /\ pending' = FALSE
        /\ rust' = <<>> /\ UNCHANGED <<boundary, escaped>>
    BY <1>8 DEF Exec, Over
  <2>2. Natives = {} /\ Natives' = {}
    BY <1>1, <2>1, NothingRuns DEF ModeInv
  <2>3. RustTypes' /\ ModeInv'
    <3>1. rust' \in Seq(AnyContext)
      BY <2>1, EmptySeq
    <3>2. RustTypes'
      BY <1>1, <2>1, <3>1 DEF RustTypes
    <3> QED
      BY <2>1, <3>2 DEF ModeInv, WaitsIn
  <2>4. BoundaryInv' /\ EscapedIsTaken'
    BY <1>1, <2>1, <2>2 DEF BoundaryInv, FirstHasNone, EscapedIsTaken
  <2> QED
    BY <2>3, <2>4 DEF NativeInv
<1> QED
  BY <1>2, <1>3, <1>4, <1>5, <1>6, <1>7, <1>8

-----------------------------------------------------------------------------
(* The steps that move between the stacks of the interpreter and of Rust.  *)

LEMMA OverIsOver ==
  ASSUME StackInv, NativeInv,
         OuterDriveGoesOn \/ NativeReturns \/ Exec
  PROVE  StackInv'
<1>1. RustTypes /\ ModeInv
  BY DEF NativeInv
<1>2. ASSUME rust # <<>>
      PROVE  Last(rust) \in AnyContext
  BY <1>1, <1>2, RustIs
<1>3. CASE OuterDriveGoesOn
  <2>1. /\ mode = "unwound" /\ rust # <<>> /\ Last(rust).what = "unwind"
        /\ UNCHANGED <<frames, handlers, defers>>
    BY <1>1, <1>3 DEF OuterDriveGoesOn, ModeInv, WaitsIn
  <2>2. Last(rust).as # "failed"
    BY <1>2, <2>1, ContextIs
  <2>3. mode' # "failed"
    BY <1>3, <2>2 DEF OuterDriveGoesOn, Returns
  <2> QED
    BY <2>1, <2>3 DEF StackInv
<1>4. CASE NativeReturns
  <2>1. mode = "native" /\ rust # <<>> /\ UNCHANGED <<handlers, defers>>
    BY <1>1, <1>4 DEF NativeReturns, ModeInv
  <2>2. Good(frames, handlers, defers) /\ frames # <<>>
    BY <2>1, HereIs
  <2>3. CASE escaped
    <3>1. Throws(frames)
      BY <1>4, <2>3 DEF NativeReturns
    <3>2. Good(frames', handlers, defers) /\ frames' # <<>> /\ mode' = "unwind"
      BY <2>2, <3>1, ThrowKeeps
    <3> QED
      BY <2>1, <3>2 DEF StackInv
  <2>4. CASE ~escaped
    <3> DEFINE below == Front(rust)
    <3>1. /\ UNCHANGED frames
          /\ mode' = IF WaitsIn(below) THEN Last(below).as ELSE "run"
      BY <1>4, <2>4 DEF NativeReturns
    <3>2. below \in Seq(AnyContext)
      BY <1>1, <2>1, FrontIs DEF RustTypes
    <3> HIDE DEF below
    <3>3. ASSUME WaitsIn(below)
          PROVE  Last(below).as # "failed"
      <4>1. below # <<>> /\ Last(below).what = "unwind"
        BY <3>3 DEF WaitsIn
      <4>2. Last(below) \in AnyContext
        BY <3>2, <4>1, FrontIs
      <4> QED
        BY <4>1, <4>2, ContextIs
    <3>4. mode' # "failed"
      BY <3>1, <3>3
    <3> QED
      BY <2>1, <2>2, <3>1, <3>4 DEF StackInv
  <2> QED
    BY <2>3, <2>4
<1>5. CASE Exec
  <2>1. /\ mode' = "run" /\ frames' = <<NewFrame(0)>> /\ handlers' = <<>> /\ defers' = <<>>
    BY <1>5 DEF Exec
  <2>2. <<NewFrame(0)>> # <<>>
    OBVIOUS
  <2> QED
    BY <2>1, <2>2, Starts DEF StackInv
<1> QED
  BY <1>3, <1>4, <1>5

LEMMA InitHolds == Init => Inv
<1> SUFFICES ASSUME Init
             PROVE  Inv
  OBVIOUS
<1>1. /\ frames = <<NewFrame(0)>> /\ handlers = <<>> /\ defers = <<>> /\ rust = <<>>
      /\ boundary = NoBoundary /\ pending = FALSE /\ escaped = FALSE /\ mode = "run"
  BY DEF Init
<1>2. StackInv
  <2>1. <<NewFrame(0)>> # <<>>
    OBVIOUS
  <2> QED
    BY <1>1, <2>1, Starts DEF StackInv
<1>3. Natives = {}
  BY <1>1, NothingRuns
<1>4. RustTypes
  <2>1. rust \in Seq(AnyContext)
    BY <1>1, EmptySeq
  <2> QED
    BY <1>1, <2>1 DEF RustTypes, NoBoundary
<1>5. ModeInv
  BY <1>1 DEF ModeInv, WaitsIn
<1>6. BoundaryInv /\ EscapedIsTaken
  BY <1>1, <1>3 DEF BoundaryInv, FirstHasNone, EscapedIsTaken
<1> QED
  BY <1>2, <1>4, <1>5, <1>6 DEF Inv, NativeInv

LEMMA NextKeepsInv == Inv /\ [Next]_vars => Inv'
<1> SUFFICES ASSUME Inv, [Next]_vars
             PROVE  Inv'
  OBVIOUS
<1>1. StackInv /\ NativeInv
  BY DEF Inv
<1>2. CASE EnterLoop \/ EndLoop
  BY <1>1, <1>2, LoopSteps, StatementsAreQuiet DEF Inv
<1>3. CASE \E kind \in Kinds \ {"loop"} : EnterTry(kind)
  <2>1. StackInv'
    BY <1>1, <1>3, EnterTryStep
  <2>2. NativeInv'
    BY <1>1, <1>3, StatementsAreQuiet
  <2> QED
    BY <2>1, <2>2 DEF Inv
<1>4. CASE EndBody
  BY <1>1, <1>4, EndBodyStep, StatementsAreQuiet DEF Inv
<1>5. CASE EndExcept \/ Dispatch \/ EndFinally \/ EndCleanup
  BY <1>1, <1>5, EndSteps, StatementsAreQuiet DEF Inv
<1>6. CASE Throw \/ Passes
  BY <1>1, <1>6, ThrowStep, StatementsAreQuiet DEF Inv
<1>7. CASE Return
  BY <1>1, <1>7, ReturnStep, StatementsAreQuiet DEF Inv
<1>8. CASE Break \/ Continue
  BY <1>1, <1>8, JumpSteps, StatementsAreQuiet DEF Inv
<1>9. CASE EndInlined
  BY <1>1, <1>9, EndInlinedStep, StatementsAreQuiet DEF Inv
<1>10. CASE Defer
  BY <1>1, <1>10, CallSteps, StatementsAreQuiet DEF Inv
<1>11. CASE Call \/ Fail \/ NativeCallsBack \/ CallbackReturns
  BY <1>1, <1>11, CallSteps, NativeSteps DEF Inv
<1>12. CASE NativeReturns
  BY <1>1, <1>12, OverIsOver, NativeSteps DEF Inv
<1>13. CASE ExecDefer \/ FlushDefer
  BY <1>1, <1>13, DeferSteps, DeferNativeSteps DEF Inv
<1>14. CASE DefersAreDone
  BY <1>1, <1>14, DeferSteps, StatementsAreQuiet DEF Inv
<1>15. CASE ReturnFromFrame
  BY <1>1, <1>15, ReturnFromFrameStep, UnwindSteps DEF Inv
<1>16. CASE Resume \/ Escape
  BY <1>1, <1>16, CallSteps, UnwindSteps DEF Inv
<1>17. CASE Catch
  BY <1>1, <1>17, CatchStep, UnwindSteps DEF Inv
<1>18. CASE PopFrame
  BY <1>1, <1>18, PopFrameStep, UnwindSteps DEF Inv
<1>19. CASE OuterDriveGoesOn \/ Exec
  BY <1>1, <1>19, OverIsOver, UnwindSteps DEF Inv
<1>20. CASE UNCHANGED vars
  <2>1. StackInv'
    BY <1>1, <1>20 DEF StackInv, vars
  <2>2. Natives' = Natives
    BY <1>20 DEF Natives, vars
  <2>3. RustTypes' /\ ModeInv'
    BY <1>1, <1>20, <2>2 DEF NativeInv, RustTypes, ModeInv, WaitsIn, vars
  <2>4. BoundaryInv' /\ EscapedIsTaken'
    BY <1>1, <1>20, <2>2 DEF NativeInv, BoundaryInv, FirstHasNone, EscapedIsTaken, vars
  <2> QED
    BY <2>1, <2>3, <2>4 DEF Inv, NativeInv
<1> QED
  BY <1>2, <1>3, <1>4, <1>5, <1>6, <1>7, <1>8, <1>9, <1>10, <1>11, <1>12, <1>13, <1>14,
     <1>15, <1>16, <1>17, <1>18, <1>19, <1>20 DEF Next

LEMMA InvAlways == Spec => []Inv
  BY InitHolds, NextKeepsInv, PTL DEF Spec

-----------------------------------------------------------------------------
(* What the invariant says of a state.                                     *)

LEMMA HandlersMatch == Inv => HandlersMatchFrames
<1> SUFFICES ASSUME Inv
             PROVE  HandlersMatchFrames
  OBVIOUS
<1>1. handlers \in Seq(Handler) /\ Match(handlers, frames)
  BY DEF Inv, StackInv, Good
<1>2. DOMAIN handlers = 1..Len(handlers) /\ \A d \in DOMAIN handlers : handlers[d] \in Handler
  <2>1. DOMAIN handlers = 1..Len(handlers) /\ Len(handlers) \in Nat
    BY <1>1, LenProperties
  <2> QED
    BY <1>1, <2>1, ElementOfSeq
<1>3. \A i : Executing(i) = Bodies(frames[i].blocks)
  BY DEF Executing, Bodies
<1>4. \A g, h \in DOMAIN handlers : g < h => Inside(handlers[h], handlers[g])
  BY <1>1 DEF Match
<1> DEFINE E(i) == [frame : {i}, level : Executing(i)]
           U == UNION {E(i) : i \in DOMAIN frames}
<1>5. ASSUME NEW d \in DOMAIN handlers
      PROVE  handlers[d] \in U
  <2>1. /\ handlers[d].frame \in DOMAIN frames
        /\ handlers[d].level \in Executing(handlers[d].frame)
    BY <1>1, <1>3 DEF Match
  <2>2. handlers[d] \in Handler
    BY <1>2
  <2>3. handlers[d] = [frame |-> handlers[d].frame, level |-> handlers[d].level]
    BY <2>2 DEF Handler
  <2>4. handlers[d] \in E(handlers[d].frame)
    BY <2>1, <2>3
  <2> QED
    BY <2>1, <2>4
<1>6. ASSUME NEW u \in U
      PROVE  u \in Range(handlers)
  <2>1. PICK i \in DOMAIN frames : u \in E(i)
    OBVIOUS
  <2>2. u.frame = i /\ u.level \in Executing(i) /\ u = [frame |-> i, level |-> u.level]
    BY <2>1
  <2>3. u.level \in Bodies(frames[i].blocks)
    BY <1>3, <2>2
  <2>4. PICK d \in DOMAIN handlers : handlers[d].frame = i /\ handlers[d].level = u.level
    BY <1>1, <2>3 DEF Match
  <2>5. handlers[d] \in Handler
    BY <1>2
  <2>6. handlers[d] = [frame |-> handlers[d].frame, level |-> handlers[d].level]
    BY <2>5 DEF Handler
  <2>7. handlers[d] = u
    BY <2>2, <2>4, <2>6
  <2> QED
    BY <2>7 DEF Range
<1>7. Range(handlers) = U
  <2>1. Range(handlers) \subseteq U
    BY <1>5 DEF Range
  <2> QED
    BY <1>6, <2>1
<1> QED
  BY <1>4, <1>7 DEF HandlersMatchFrames

LEMMA DefersBelong == Inv => DefersBelongToFrames
  BY DEF Inv, StackInv, Good, Sections, DefersBelongToFrames, Depth

-----------------------------------------------------------------------------
(* The theorems.                                                           *)

\* exception_handlers always holds exactly the try bodies that are being
\* executed, innermost last, whatever breaks, continues, returns, inlined
\* finallys, exceptions, callbacks and errors did on the way.
THEOREM HandlersMatchFramesAlways == Spec => []HandlersMatchFrames
  BY InvAlways, HandlersMatch, PTL

\* defer_stack is always divided among the frames of call_stack by their
\* defer_stack_base, every defer in the section of the frame it belongs to.
THEOREM DefersBelongToFramesAlways == Spec => []DefersBelongToFrames
  BY InvAlways, DefersBelong, PTL

\* An exception that escaped from a callback always has a running native
\* function to throw it, and unwind_boundary is set only while one runs.
THEOREM EscapedIsTakenAlways == Spec => []EscapedIsTaken
<1>1. Inv => EscapedIsTaken
  BY DEF Inv, NativeInv
<1> QED
  BY <1>1, InvAlways, PTL
=============================================================================
