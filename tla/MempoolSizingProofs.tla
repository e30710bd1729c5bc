------------------------ MODULE MempoolSizingProofs ------------------------
(***************************************************************************)
(* Proofs about the layout of slabs, for every page size, every number of  *)
(* orders and every size and alignment of objects that SizingAssumption    *)
(* allows.                                                                 *)
(***************************************************************************)
EXTENDS MempoolSizing, TLAPS

\* The numbers among the constants.
LEMMA Numbers ==
  /\ PageSize \in Nat /\ PageSize <= 32767 /\ MaxOrder \in Nat
  /\ MinNum \in Nat /\ MinNum >= 8 /\ MinNum <= 16383
  /\ UIntMod \in Nat /\ UIntMod >= 65536 /\ SizeMod \in Nat /\ SizeMod >= 2 * UIntMod
BY SizingAssumption

\* What AlignsAssumption says of an alignment.
LEMMA Alignments ==
  ASSUME NEW a \in Aligns
  PROVE  /\ calculate_alignment(a) \in 0 .. PageSize
         /\ calculate_alignment(a) # 0 => UIntMod % calculate_alignment(a) = 0
BY AlignsAssumption

\* What division and remainder compute.
LEMMA Division ==
  ASSUME NEW s \in Nat, NEW z \in Nat \ {0}
  PROVE  /\ s \div z \in Nat /\ s % z \in Nat /\ s % z < z
         /\ s = (s \div z) * z + (s % z)
BY SMT

\* Division without a remainder.
LEMMA Multiple ==
  ASSUME NEW s \in Nat, NEW z \in Nat \ {0}, s % z = 0
  PROVE  s \div z \in Nat /\ s = (s \div z) * z
BY Division

\* Multiplication by a natural number is monotonic.
LEMMA TimesMonotonic ==
  ASSUME NEW m \in Int, NEW n \in Int, NEW z \in Nat, m <= n
  PROVE  m * z <= n * z
BY SMT

\* A quotient is at least n exactly if n times the divisor fits.
LEMMA QuotientAtLeast ==
  ASSUME NEW s \in Nat, NEW z \in Nat \ {0}, NEW n \in Nat
  PROVE  s \div z >= n <=> n * z <= s
<1> DEFINE q == s \div z
<1>1. q \in Nat /\ s % z \in Nat /\ s % z < z /\ s = q * z + (s % z)
  BY Division
<1> HIDE DEF q
<1>2. CASE q >= n
  <2>1. n * z <= q * z
    BY <1>1, <1>2, TimesMonotonic
  <2> QED BY <1>1, <1>2, <2>1 DEF q
<1>3. CASE q < n
  <2>1. (q + 1) * z <= n * z
    BY <1>1, <1>3, TimesMonotonic
  <2>2. (q + 1) * z = q * z + z
    BY <1>1
  <2>3. s < n * z
    BY <1>1, <2>1, <2>2
  <2> QED BY <1>1, <1>3, <2>3 DEF q
<1> QED BY <1>1, <1>2, <1>3

\* A multiple leaves no remainder.
LEMMA NoRemainder ==
  ASSUME NEW q \in Int, NEW a \in Nat \ {0}
  PROVE  q * a \in Int /\ (q * a) % a = 0
BY SMT

\* Rounding down to a multiple.
LEMMA RoundDown ==
  ASSUME NEW s \in Nat, NEW a \in Nat \ {0}
  PROVE  /\ (s \div a) * a \in Nat /\ ((s \div a) * a) % a = 0
         /\ (s \div a) * a <= s /\ s < (s \div a) * a + a
<1> DEFINE q == s \div a
<1>1. q \in Nat /\ s % a \in Nat /\ s % a < a /\ s = q * a + (s % a)
  BY Division
<1> HIDE DEF q
<1>2. q * a \in Nat /\ q * a <= s /\ s < q * a + a
  BY <1>1
<1>3. (q * a) % a = 0
  BY <1>1, NoRemainder
<1> QED BY <1>2, <1>3 DEF q

\* ALIGN gives a multiple, and the next one if the sum does not wrap around.
LEMMA AlignUp ==
  ASSUME NEW x \in Nat, NEW a \in Nat \ {0}
  PROVE  /\ ALIGN(x, a) \in Nat /\ ALIGN(x, a) % a = 0
         /\ x + a <= SizeMod => x <= ALIGN(x, a) /\ ALIGN(x, a) < x + a
<1> DEFINE s == (x + a - 1) % SizeMod
           t == (s \div a) * a
<1>1. s \in Nat /\ (x + a <= SizeMod => s = x + a - 1)
  BY Numbers
<1> HIDE DEF s
<1>2. t \in Nat /\ t % a = 0 /\ t <= s /\ s < t + a
  BY <1>1, RoundDown
<1>3. ALIGN(x, a) = t
  BY DEF ALIGN, s
<1> HIDE DEF t
<1> QED BY <1>1, <1>2, <1>3

\* What is left of a multiple of a modulo another one is a multiple too.
LEMMA MultipleModulo ==
  ASSUME NEW x \in Nat, NEW m \in Nat \ {0}, NEW a \in Nat \ {0}, x % a = 0, m % a = 0
  PROVE  (x % m) % a = 0
<1> PICK q : q = x \div m  OBVIOUS
<1> PICK i : i = x \div a  OBVIOUS
<1> PICK j : j = m \div a  OBVIOUS
<1> PICK r : r = x % m  OBVIOUS
<1>1. q \in Nat /\ r \in Nat /\ x = q * m + r  BY Division
<1>2. i \in Nat /\ x = i * a  BY Multiple
<1>3. j \in Nat /\ m = j * a  BY Multiple
<1>4. q * m = (q * j) * a /\ q * j \in Nat
  <2>1. q \in Nat /\ j \in Nat /\ a \in Nat  BY <1>1, <1>3
  <2>2. q * (j * a) = (q * j) * a /\ q * j \in Nat
    <3> SUFFICES ASSUME NEW u \in Nat, NEW v \in Nat, NEW w \in Nat
                 PROVE  u * (v * w) = (u * v) * w /\ u * v \in Nat
      BY <2>1
    <3> QED  BY SMT
  <2> QED  BY <1>3, <2>2
<1>5. r = (i - q * j) * a
  <2> PICK k : k = q * j  OBVIOUS
  <2>1. k \in Nat /\ i * a = k * a + r  BY <1>1, <1>2, <1>4
  <2>2. (i - k) * a = i * a - k * a  BY <1>2, <2>1
  <2> QED  BY <1>1, <1>2, <2>1, <2>2
<1> PICK d : d = i - q * j  OBVIOUS
<1>6. d \in Int  BY <1>2, <1>4
<1>7. (d * a) % a = 0  BY <1>6, NoRemainder
<1> QED  BY <1>5, <1>7

(***************************************************************************)
(* The inductive invariant: the sizes of a pool under construction, and    *)
(* that the loop passes over an order only because it is too small.        *)
(***************************************************************************)

PoolSizes ==
  /\ align \in Nat \ {0} /\ align <= PageSize
  /\ size \in Nat \ {0} /\ size % align = 0
  /\ asked < UIntMod => asked <= size

SizingInv ==
  /\ TypeOK
  /\ pc = "loop" => (size = 0 /\ order = 0) \/ PoolSizes
  /\ pc = "done" => PoolSizes
  /\ pc = "loop" => /\ num_per_slab = 0
                    /\ \A o \in 0 .. MaxOrder : o < order => ~Holds(o, MinNum)
  /\ LeastOrder

\* mempool_estimate counts the objects that fit behind the room for aligning
\* the first of them.
LEMMA EstimateCounts ==
  ASSUME PoolSizes, NEW o \in 0 .. MaxOrder
  PROVE  /\ num(o) \in Nat /\ SubAlignSize(o) \in Nat /\ SubAlignSize(o) < SlabSize(o)
         /\ \A n \in Nat : num(o) >= n <=> Holds(o, n)
<1>1. /\ align \in Nat \ {0} /\ size \in Nat \ {0}
      /\ SlabSize(o) \in Nat /\ align <= SlabSize(o)
  BY SizingAssumption DEF PoolSizes
<1> HIDE DEF SlabSize
<1>2. SubAlignSize(o) = SlabSize(o) - align /\ SubAlignSize(o) \in Nat
  BY <1>1 DEF SubAlignSize
<1>3. num(o) \in Nat
  BY <1>1, <1>2, Division DEF num
<1>4. ASSUME NEW n \in Nat
      PROVE  num(o) >= n <=> Holds(o, n)
  <2>1. num(o) >= n <=> n * size <= SubAlignSize(o)
    BY <1>1, <1>2, QuotientAtLeast DEF num
  <2>2. n * size \in Nat
    BY <1>1
  <2> QED BY <1>1, <1>2, <2>1, <2>2 DEF Holds
<1>5. SubAlignSize(o) < SlabSize(o)
  BY <1>1, <1>2
<1> QED BY <1>2, <1>3, <1>4, <1>5

\* A slab of at least 8 objects wastes less than an eighth of itself, so the
\* test for fragmentation never makes the loop go on.
LEMMA NeverFragmented ==
  ASSUME PoolSizes, NEW o \in 0 .. MaxOrder, Accepts(o)
  PROVE  FragmentationOk(o)
<1>1. /\ num(o) \in Nat /\ SubAlignSize(o) \in Nat /\ SubAlignSize(o) < SlabSize(o)
      /\ size \in Nat \ {0} /\ num(o) >= 8 /\ SlabSize(o) \in Nat
  <2>1. SlabSize(o) \in Nat  BY Numbers, SizingAssumption
  <2> HIDE DEF SlabSize
  <2>2. num(o) \in Nat /\ SubAlignSize(o) \in Nat /\ SubAlignSize(o) < SlabSize(o)
    BY EstimateCounts
  <2>3. num(o) >= 8  BY <2>2, Numbers DEF Accepts
  <2> QED  BY <2>1, <2>2, <2>3 DEF PoolSizes
<1> HIDE DEF SlabSize
<1>2. /\ left_over(o) \in Nat /\ left_over(o) < size
      /\ SubAlignSize(o) = num(o) * size + left_over(o)
  BY <1>1, Division DEF num, left_over
<1>3. 8 * size <= num(o) * size /\ num(o) * size \in Nat
  BY <1>1, TimesMonotonic
<1> QED BY <1>1, <1>2, <1>3 DEF FragmentationOk

\* The smallest slab that holds MinNum objects holds no more than twice as
\* many, and one page no more than it has bytes: an index fits in a short.
LEMMA NumBounded ==
  ASSUME PoolSizes, NEW o \in 0 .. MaxOrder, \A p \in 0 .. MaxOrder : p < o => ~Holds(p, MinNum)
  PROVE  num(o) <= 32767
<1>1. /\ align \in Nat \ {0} /\ size \in Nat \ {0} /\ size % align = 0
  BY DEF PoolSizes
<1> PICK n : n = num(o)  OBVIOUS
<1>2. n \in Nat /\ align + n * size <= SlabSize(o) /\ n * size \in Nat
  <2>1. n \in Nat /\ Holds(o, n)  BY EstimateCounts
  <2> QED  BY <1>1, <2>1 DEF Holds
<1>3. align <= size
  <2> PICK q : q = size \div align  OBVIOUS
  <2>1. q \in Nat /\ size = q * align + (size % align)  BY <1>1, Division
  <2>2. size = q * align  BY <1>1, <2>1
  <2>3. q >= 1  BY <1>1, <2>1, <2>2
  <2>4. 1 * align <= q * align  BY <1>1, <2>1, <2>3, TimesMonotonic
  <2> QED  BY <1>1, <2>2, <2>4
<1>4. CASE o = 0
  <2>1. n * 1 <= n * size  BY <1>1, <1>2
  <2>2. SlabSize(o) = PageSize  BY <1>4, SizingAssumption
  <2> PICK t : t = n * size  OBVIOUS
  <2>3. t \in Nat /\ n <= t /\ align + t <= PageSize  BY <1>1, <1>2, <2>1, <2>2
  <2> QED  BY <1>1, <1>2, <2>3, Numbers
<1>5. CASE o # 0
  <2> PICK b : b = SlabSize(o - 1)  OBVIOUS
  <2>1. o - 1 \in 0 .. MaxOrder /\ o - 1 < o /\ o \in 1 .. MaxOrder  BY <1>5, Numbers
  <2>2. b \in Nat /\ SlabSize(o) = 2 * b  BY <2>1, Numbers, SizingAssumption
  <2>3. ~(align + MinNum * size <= b)  BY <2>1 DEF Holds
  <2> PICK m : m = MinNum * size  OBVIOUS
  <2>4. m \in Nat /\ (2 * MinNum + 1) * size = 2 * m + size  BY <1>1, Numbers
  <2>5. n * size < (2 * MinNum + 1) * size
    <3> HIDE DEF SlabSize
    <3> PICK t : t = n * size  OBVIOUS
    <3>1. t \in Nat /\ align + t <= 2 * b  BY <1>2, <2>2
    <3>2. ~(align + m <= b)  BY <2>3
    <3>3. t < 2 * m + size  BY <1>1, <1>3, <2>2, <2>4, <3>1, <3>2
    <3> QED  BY <2>4, <3>3
  <2>6. CASE n >= 2 * MinNum + 1
    <3>1. (2 * MinNum + 1) * size <= n * size  BY <1>1, <1>2, <2>6, Numbers, TimesMonotonic
    <3>2. (2 * MinNum + 1) * size \in Nat  BY <1>1, Numbers
    <3> QED  BY <1>2, <2>5, <3>1, <3>2
  <2>7. CASE ~(n >= 2 * MinNum + 1)  BY <1>2, <2>7, Numbers
  <2> QED  BY <2>6, <2>7
<1> QED  BY <1>4, <1>5

\* Nothing has been laid out at the start.
LEMMA SizingInit == Init => SizingInv
BY Numbers DEF Init, SizingInv, LeastOrder, TypeOK

\* Every step keeps the invariant.
LEMMA SizingStep == SizingInv /\ [Next]_vars => SizingInv'
<1> SUFFICES ASSUME SizingInv, [Next]_vars PROVE SizingInv'
  OBVIOUS
<1>1. ASSUME NEW s \in ObjSizes, NEW a \in Aligns, mempool_create(s, a)
      PROVE  SizingInv'
  <2> PICK al : al = calculate_alignment(a)
    OBVIOUS
  <2>1. /\ s \in Nat /\ s <= SizeMod - 1
        /\ al \in 0 .. PageSize /\ (al # 0 => UIntMod % al = 0)
    <3>1. s \in 0 .. SizeMod - 1  BY SizingAssumption
    <3>2. al \in 0 .. PageSize /\ (al # 0 => UIntMod % al = 0)  BY Alignments
    <3> QED  BY <3>1, <3>2, Numbers
  <2>2. /\ pc' = "loop" /\ order' = 0 /\ num_per_slab' = 0 /\ pool_order' = 0
        /\ asked' = s /\ obj_size' = SInt(s) /\ align' = al
        /\ size' = UInt(ALIGN(s, al))
    <3>1. al < UIntMod \div 2 /\ al < UIntMod  BY <2>1, Numbers
    <3>2. SInt(al) = al  BY <2>1, <3>1, Numbers DEF SInt, UInt
    <3> QED  BY <1>1, <3>2 DEF mempool_create
  <2>3. size' \in 0 .. UIntMod - 1 /\ (size' # 0 => PoolSizes')
    <3>1. CASE al = 0
      BY <2>2, <3>1, Numbers DEF ALIGN, UInt
    <3>2. CASE al # 0
      <4> PICK x : x = ALIGN(s, al)
        OBVIOUS
      <4>1. /\ al \in Nat \ {0} /\ x \in Nat /\ x % al = 0
            /\ s + al <= SizeMod => s <= x /\ x < s + al
        BY <2>1, <3>2, AlignUp, Numbers
      <4>2. size' = x % UIntMod
        BY <2>2 DEF UInt
      <4>3. size' \in 0 .. UIntMod - 1
        BY <4>1, <4>2, Numbers
      <4>4. size' % al = 0
        BY <2>1, <3>2, <4>1, <4>2, MultipleModulo, Numbers
      <4>5. ASSUME s < UIntMod, size' # 0  PROVE s <= size'
        <5>1. s <= x /\ x < s + al  BY <2>1, <4>1, <4>5, Numbers
        <5>2. CASE x < UIntMod
          BY <4>1, <4>2, <5>1, <5>2, Numbers
        <5>3. CASE x >= UIntMod
          <6> PICK i : i = x \div al  OBVIOUS
          <6> PICK j : j = UIntMod \div al  OBVIOUS
          <6>1. i \in Nat /\ x = i * al  BY <4>1, Multiple
          <6>2. j \in Nat /\ UIntMod = j * al
            <7>1. UIntMod \in Nat  BY Numbers
            <7>2. UIntMod % al = 0 /\ al \in Nat \ {0}  BY <2>1, <3>2, <4>1
            <7> QED  BY <7>1, <7>2, Multiple
          <6>3. x < UIntMod + al  BY <2>1, <4>1, <4>5, <5>1, Numbers
          <6>4. CASE i >= j + 1
            <7>1. (j + 1) * al <= i * al
              <8>1. j + 1 \in Int /\ i \in Int /\ al \in Nat /\ j + 1 <= i
                BY <4>1, <6>1, <6>2, <6>4
              <8> QED  BY <8>1, TimesMonotonic
            <7>2. (j + 1) * al = j * al + al  BY <4>1, <6>2
            <7> QED  BY <4>1, <6>1, <6>2, <6>3, <7>1, <7>2, Numbers
          <6>5. CASE i <= j
            <7>1. i * al <= j * al  BY <4>1, <6>1, <6>2, <6>5, TimesMonotonic
            <7>2. x = UIntMod  BY <4>1, <5>3, <6>1, <6>2, <7>1, Numbers
            <7>3. x % UIntMod = 0  BY <7>2, Numbers
            <7> QED  BY <4>2, <4>5, <7>3
          <6> QED  BY <6>1, <6>2, <6>4, <6>5
        <5> QED  BY <4>1, <5>2, <5>3, Numbers
      <4>6. size' # 0 => PoolSizes'
        BY <2>1, <2>2, <3>2, <4>1, <4>3, <4>4, <4>5, Numbers DEF PoolSizes
      <4> QED  BY <4>3, <4>6
    <3> QED  BY <3>1, <3>2
  <2>4. obj_size' \in -UIntMod .. UIntMod
    BY <2>1, <2>2, Numbers DEF SInt, UInt
  <2>5. TypeOK'
    BY <2>1, <2>2, <2>3, <2>4, Numbers DEF TypeOK
  <2>6. LeastOrder'  BY <2>2 DEF LeastOrder
  <2>7. \A o \in 0 .. MaxOrder : ~(o < order')  BY <2>2, Numbers
  <2> QED BY <2>2, <2>3, <2>5, <2>6, <2>7 DEF SizingInv
<1>2. CASE TryOrder
  <2>1. /\ PoolSizes /\ PoolSizes' /\ order \in 0 .. MaxOrder /\ pc = "loop"
        /\ \A o \in 0 .. MaxOrder : o < order => ~Holds(o, MinNum)
        /\ num_per_slab = 0
    BY <1>2, Numbers DEF SizingInv, TypeOK, TryOrder, PoolSizes
  <2>2. \A o, n : Holds(o, n)' = Holds(o, n)
    BY <1>2 DEF TryOrder, Holds, SlabSize
  <2>3. /\ num(order) \in Nat
        /\ \A n \in Nat : num(order) >= n <=> Holds(order, n)
    BY <2>1, EstimateCounts
  <2>4. CASE Accepts(order)
    <3>1. /\ pc' = "done" /\ order' = order
          /\ num_per_slab' = num(order) /\ pool_order' = order
      BY <1>2, <2>1, <2>4, NeverFragmented DEF TryOrder
    <3>2. Holds(order, num(order)) /\ ~Holds(order, num(order) + 1)
      BY <2>3
    <3>3. num(order) # 0
      BY <2>3, <2>4, Numbers DEF Accepts
    <3>4. \A o \in 0 .. order - 1 : ~Holds(o, MinNum)
      BY <2>1, SizingAssumption
    <3>5. LeastOrder'
      BY <2>2, <3>1, <3>2, <3>3, <3>4 DEF LeastOrder
    <3>6. num(order) \in MinNum .. 32767
      <4>1. num(order) <= 32767  BY <2>1, NumBounded
      <4>2. num(order) >= MinNum  BY <2>4 DEF Accepts
      <4> HIDE DEF num
      <4> QED  BY <2>3, <4>1, <4>2, Numbers
    <3>7. order' \in 0 .. MaxOrder + 1
      BY <2>1, <3>1, Numbers
    <3>8. TypeOK'
      BY <1>2, <2>1, <3>1, <3>6, <3>7 DEF SizingInv, TypeOK, TryOrder
    <3> QED BY <2>1, <3>1, <3>5, <3>8 DEF SizingInv
  <2>5. CASE ~Accepts(order)
    <3>1. order' = order + 1 /\ UNCHANGED <<pc, num_per_slab, pool_order>>
      BY <1>2, <2>5 DEF TryOrder
    <3>2. ~Holds(order, MinNum)
      BY <2>3, <2>5, SizingAssumption DEF Accepts
    <3>3. \A o \in 0 .. MaxOrder : o < order' => ~Holds(o, MinNum)'
      BY <2>1, <2>2, <3>1, <3>2
    <3>4. LeastOrder'
      BY <2>1, <3>1 DEF LeastOrder
    <3>5. order' \in 0 .. MaxOrder + 1
      BY <2>1, <3>1, Numbers
    <3>6. TypeOK'
      BY <1>2, <2>1, <3>1, <3>5 DEF SizingInv, TypeOK, TryOrder
    <3>7. pc' = "loop" /\ num_per_slab' = 0  BY <2>1, <3>1
    <3> QED BY <2>1, <3>3, <3>4, <3>6, <3>7 DEF SizingInv
  <2> QED BY <2>4, <2>5
<1>3. CASE NoMoreOrders
  <2>1. /\ pc = "loop" /\ pc' = "done" /\ order \in Nat /\ order > MaxOrder
        /\ UNCHANGED <<asked, obj_size, align, size, order, num_per_slab, pool_order>>
        /\ num_per_slab = 0
        /\ \A o \in 0 .. MaxOrder : o < order => ~Holds(o, MinNum)
    BY <1>3, Numbers DEF SizingInv, TypeOK, NoMoreOrders
  <2>2. \A o, n : Holds(o, n)' = Holds(o, n)
    BY <2>1 DEF Holds, SlabSize
  <2>3. LeastOrder'
    BY <2>1, <2>2, SizingAssumption DEF LeastOrder
  <2>4. PoolSizes'
    BY <1>3, <2>1, Numbers DEF SizingInv, PoolSizes
  <2>5. TypeOK'
    BY <2>1 DEF SizingInv, TypeOK
  <2> QED BY <2>1, <2>3, <2>4, <2>5 DEF SizingInv
<1>4. CASE DivideByZero
  <2>1. TypeOK' /\ LeastOrder' /\ pc' = "fault"
    BY <1>4 DEF DivideByZero, SizingInv, TypeOK, LeastOrder
  <2> QED BY <2>1 DEF SizingInv
<1>5. CASE UNCHANGED vars
  <2>1. TypeOK' /\ PoolSizes' = PoolSizes
    BY <1>5 DEF vars, SizingInv, TypeOK, PoolSizes
  <2>2. LeastOrder' /\ \A o, n : Holds(o, n)' = Holds(o, n)
    BY <1>5 DEF vars, SizingInv, LeastOrder, Holds, SlabSize
  <2> QED BY <1>5, <2>1, <2>2 DEF vars, SizingInv
<1> QED BY <1>1, <1>2, <1>3, <1>4, <1>5 DEF Next

(***************************************************************************)
(* The theorems                                                            *)
(***************************************************************************)

\* The invariant holds throughout.
THEOREM SizingInvariant == Spec => []SizingInv
<1> QED BY SizingInit, SizingStep, PTL DEF Spec

\* The variables have their types: a slab that the loop settles for has at
\* least MinNum objects and no more than a short can count.
THEOREM SizingTypeCorrect == Spec => []TypeOK
<1>1. SizingInv => TypeOK
  BY DEF SizingInv
<1> QED BY <1>1, SizingInvariant, PTL

\* calculate_slab_order finds the smallest slab that holds MinNum objects, or
\* fails because there is none.
THEOREM SizingLeastOrder == Spec => []LeastOrder
<1>1. SizingInv => LeastOrder
  BY DEF SizingInv
<1> QED BY <1>1, SizingInvariant, PTL

\* Objects are as big as asked for unless that was more than pool->size can
\* hold, and wherever malloc puts a slab, its objects and the address behind
\* the last one are inside it.
THEOREM SizingObjectsFit == Spec => []ObjectsFit
<1>1. SizingInv => ObjectsFit
  <2> SUFFICES ASSUME SizingInv, Created PROVE ObjectsFit
    BY DEF ObjectsFit
  <2>1. /\ align \in Nat \ {0} /\ size \in Nat \ {0}
        /\ align <= PageSize /\ size % align = 0
        /\ asked < UIntMod => asked <= size
        /\ num_per_slab \in Nat /\ pool_order \in 0 .. MaxOrder
    <3>1. num_per_slab \in Nat /\ pool_order \in 0 .. MaxOrder
      BY Numbers DEF SizingInv, TypeOK
    <3> QED  BY <3>1 DEF SizingInv, PoolSizes, Created
  <2>2. SlabSize(pool_order) \in Nat
    BY <2>1, SizingAssumption
  <2>3. align + num_per_slab * size <= SlabSize(pool_order)
    BY DEF SizingInv, LeastOrder, Created, Holds
  <2>4. num_per_slab * size \in Nat
    BY <2>1
  <2>5. ASSUME NEW base \in 0 .. align - 1
        PROVE  /\ base <= obj_base(base) /\ obj_base(base) % align = 0
               /\ obj_end(base) < base + SlabSize(pool_order)
    <3>1. /\ obj_base(base) \in Nat /\ base <= obj_base(base)
          /\ obj_base(base) < base + align /\ obj_base(base) % align = 0
      <4>1. base \in Nat /\ base + align <= SizeMod
        BY <2>1, Numbers
      <4> QED BY <2>1, <4>1, AlignUp DEF obj_base
    <3>2. obj_end(base) = obj_base(base) + num_per_slab * size
      BY DEF obj_end
    <3> HIDE DEF SlabSize, obj_base
    <3> QED BY <2>1, <2>2, <2>3, <2>4, <3>1, <3>2
  <2> QED BY <2>1, <2>5 DEF ObjectsFit
<1> QED BY <1>1, SizingInvariant, PTL
============================================================================
