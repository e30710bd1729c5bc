----------------------------- MODULE HeapProofs -----------------------------
(***************************************************************************)
(* Proofs about the binary heap, for every set of keys whose differences   *)
(* fit in an int, every initial capacity and every number of elements.     *)
(***************************************************************************)
EXTENDS Heap, FiniteSetTheorems, WellFoundedInduction, TLAPS

(***************************************************************************)
(* Arithmetic                                                              *)
(***************************************************************************)

\* What % makes of a difference that is not negative.
LEMMA ModOfNat ==
  ASSUME NEW d \in Nat, NEW r \in Nat \ {0}, d < r
  PROVE  d % r = d
BY SMT

\* What % makes of a negative difference.
LEMMA ModOfNegative ==
  ASSUME NEW d \in Int, NEW r \in Nat \ {0}, d < 0, 0 - r <= d
  PROVE  d % r = d + r
BY SMT

\* co_timer_cmp orders two timers the way their expiry times are ordered, as
\* long as their difference fits in an int.
LEMMA CmpOrders ==
  ASSUME NEW a \in Keys, NEW b \in Keys
  PROVE  /\ cmp_fn(a, b) > 0 <=> a > b
         /\ cmp_fn(a, b) < 0 <=> a < b
<1>1. /\ a \in Int /\ b \in Int /\ IntRange \in Nat \ {0}
      /\ 2 * (a - b) < IntRange /\ 2 * (b - a) < IntRange
  BY HeapAssumption
<1>2. CASE a >= b
  <2>1. (a - b) % IntRange = a - b
    <3>1. a - b \in Nat /\ a - b < IntRange
      BY <1>1, <1>2
    <3> QED BY <1>1, <3>1, ModOfNat
  <2> QED BY <1>1, <1>2, <2>1 DEF cmp_fn
<1>3. CASE a < b
  <2>1. (a - b) % IntRange = (a - b) + IntRange
    <3>1. a - b \in Int /\ a - b < 0 /\ 0 - IntRange <= a - b
      BY <1>1, <1>3
    <3> QED BY <1>1, <3>1, ModOfNegative
  <2> QED BY <1>1, <1>3, <2>1 DEF cmp_fn
<1> QED BY <1>1, <1>2, <1>3

\* The parent of a position is before it, and the position is one of the two
\* children of its parent.
LEMMA ParentChild ==
  ASSUME NEW i \in Nat, i > 0
  PROVE  /\ Parent(i) \in Nat /\ Parent(i) < i
         /\ i = 2 * Parent(i) + 1 \/ i = 2 * Parent(i) + 2
BY DEF Parent

\* And these two children are its only ones.
LEMMA ChildParent ==
  ASSUME NEW p \in Nat
  PROVE  Parent(2 * p + 1) = p /\ Parent(2 * p + 2) = p
BY DEF Parent

\* A set of positions that is not empty has a first one.
LEMMA FirstPosition ==
  ASSUME NEW T \in SUBSET Nat, T # {}
  PROVE  \E x \in T : \A y \in T : x <= y
<1> DEFINE R == OpToRel(<, Nat)
<1>1. IsWellFoundedOn(R, Nat)
  BY NatLessThanWellFounded, Zenon
<1>2. \A y, x \in Nat : y < x => <<y, x>> \in R
  BY DEF OpToRel
<1> HIDE DEF R
<1>3. PICK x \in T : \A y \in T : ~ (<<y, x>> \in R)
  BY <1>1, WFMin
<1>4. \A y \in T : y \in Nat /\ x \in Nat /\ ~ (y < x)
  BY <1>2, <1>3, Zenon
<1>5. \A y \in T : x <= y
  BY <1>4
<1> QED BY <1>5

(***************************************************************************)
(* How often a key occurs in the part of the array that is in use          *)
(***************************************************************************)

Occurrences(f, n, k) == {i \in 0 .. n - 1 : f[i] = k}

\* The occurrences of a key can be counted.
LEMMA OccurrencesFinite ==
  ASSUME NEW f, NEW n \in Nat, NEW k
  PROVE  /\ IsFiniteSet(Occurrences(f, n, k))
         /\ Cardinality(Occurrences(f, n, k)) \in Nat
<1>1. IsFiniteSet(0 .. n - 1)
  BY FS_Interval
<1>2. Occurrences(f, n, k) \in SUBSET (0 .. n - 1)
  BY DEF Occurrences
<1>3. IsFiniteSet(Occurrences(f, n, k))
  BY <1>1, <1>2, FS_Subset
<1> QED BY <1>3, FS_CardinalityType

\* Moving one element of a set of positions leaves its size as it is.
LEMMA MoveElement ==
  ASSUME NEW S, IsFiniteSet(S), NEW x \in S, NEW y, y \notin S
  PROVE  Cardinality((S \ {x}) \cup {y}) = Cardinality(S)
<1>1. /\ IsFiniteSet(S \ {x})
      /\ Cardinality(S \ {x}) = Cardinality(S) - 1
  BY FS_RemoveElement
<1>2. Cardinality((S \ {x}) \cup {y}) = Cardinality(S \ {x}) + 1
  BY <1>1, FS_AddElement
<1>3. Cardinality(S) \in Nat
  BY FS_CardinalityType
<1> QED BY <1>1, <1>2, <1>3

\* A swap of the loops neither loses nor doubles an element.
LEMMA SwapConserves ==
  ASSUME NEW c \in Nat, NEW n \in Nat, n <= c, NEW f, DOMAIN f = 0 .. c - 1,
         f = [i \in 0 .. c - 1 |-> f[i]],
         NEW p \in 0 .. n - 1, NEW q \in 0 .. n - 1, NEW k
  PROVE  Cardinality(Occurrences(Swap(f, p, q), n, k))
           = Cardinality(Occurrences(f, n, k))
<1> DEFINE S == Occurrences(f, n, k)
           T == Occurrences(Swap(f, p, q), n, k)
<1>1. \A i \in 0 .. n - 1 :
        Swap(f, p, q)[i] = IF i = q THEN f[p] ELSE IF i = p THEN f[q] ELSE f[i]
  BY DEF Swap
<1>2. IsFiniteSet(S)
  BY OccurrencesFinite
<1>3. CASE (f[p] = k) <=> (f[q] = k)
  <2>1. T = S
    BY <1>1, <1>3 DEF Occurrences
  <2> QED BY <2>1
<1>4. CASE f[p] = k /\ f[q] # k
  <2>1. T = (S \ {p}) \cup {q} /\ p \in S /\ q \notin S
    BY <1>1, <1>4 DEF Occurrences
  <2>2. Cardinality(T) = Cardinality(S)
    <3> HIDE DEF S, T
    <3> QED BY <1>2, <2>1, MoveElement
  <2> QED BY <2>2
<1>5. CASE f[p] # k /\ f[q] = k
  <2>1. T = (S \ {q}) \cup {p} /\ q \in S /\ p \notin S
    BY <1>1, <1>5 DEF Occurrences
  <2>2. Cardinality(T) = Cardinality(S)
    <3> HIDE DEF S, T
    <3> QED BY <1>2, <2>1, MoveElement
  <2> QED BY <2>2
<1> QED BY <1>3, <1>4, <1>5

(***************************************************************************)
(* The inductive invariant. Shape is TypeOK with any number for a count:   *)
(* that contents never counts below zero takes Conserved.                  *)
(***************************************************************************)

Shape ==
  /\ cap \in Nat /\ elem_num \in 0 .. MaxNum /\ elem_num <= cap
  /\ elements \in [0 .. cap - 1 -> Keys \cup {NoElem}]
  /\ \A i \in Used : elements[i] \in Keys
  /\ pc \in {"idle", "sift_down", "sift_up"} /\ pos \in Nat
  /\ top \in Keys \cup {NoElem}
  /\ contents \in [Keys -> Int]

HeapInv == Shape /\ HeapOrder /\ Conserved

\* Counts of positions are not negative, so the invariant gives TypeOK.
LEMMA InvTypeOK == HeapInv => TypeOK
<1> SUFFICES ASSUME HeapInv PROVE TypeOK
  OBVIOUS
<1>1. elem_num \in Nat
  BY HeapAssumption DEF HeapInv, Shape
<1>2. \A k \in Keys : contents[k] \in Nat
  <2> TAKE k \in Keys
  <2>1. contents[k] = Cardinality(Occurrences(elements, elem_num, k))
    BY DEF HeapInv, Conserved, Occurrences, Used
  <2> QED BY <1>1, <2>1, OccurrencesFinite
<1>3. contents \in [Keys -> Nat]
  BY <1>2 DEF HeapInv, Shape
<1> QED BY <1>3 DEF HeapInv, Shape, TypeOK

\* heap_create leaves an empty heap.
LEMMA InitInv == Init => HeapInv
<1> SUFFICES ASSUME Init PROVE HeapInv
  OBVIOUS
<1> USE HeapAssumption
<1>1. Used = {}
  BY DEF Init, Used
<1>2. Shape
  BY <1>1 DEF Init, Shape
<1>3. HeapOrder
  BY <1>1 DEF Init, HeapOrder
<1>4. Conserved
  <2> SUFFICES ASSUME NEW k \in Keys
               PROVE  contents[k] = Cardinality({i \in Used : elements[i] = k})
    BY DEF Conserved
  <2>1. {i \in Used : elements[i] = k} = {}
    BY <1>1
  <2>2. contents[k] = 0
    BY DEF Init
  <2> QED BY <2>1, <2>2, FS_EmptySet
<1> QED BY <1>2, <1>3, <1>4 DEF HeapInv

\* What the invariant says of the sizes and of the elements, in the form
\* every step below uses.
LEMMA ShapeFacts ==
  ASSUME Shape
  PROVE  /\ elem_num \in Nat /\ cap \in Nat /\ elem_num <= cap
         /\ \A i \in Used : i \in Nat /\ i < elem_num
         /\ \A i \in Nat : i < elem_num => i \in Used
         /\ \A i \in Used : elements[i] \in Keys /\ elements[i] \in Int
         /\ DOMAIN elements = 0 .. cap - 1
         /\ \A i \in Used : i \in 0 .. cap - 1
<1>1. elem_num \in Nat /\ cap \in Nat /\ elem_num <= cap
  BY HeapAssumption DEF Shape
<1>2. \A i \in Used : i \in Nat /\ i < elem_num /\ i \in 0 .. cap - 1
  BY <1>1 DEF Used
<1>3. \A i \in Nat : i < elem_num => i \in Used
  BY <1>1 DEF Used
<1>4. \A i \in Used : elements[i] \in Keys /\ elements[i] \in Int
  BY HeapAssumption DEF Shape
<1>5. DOMAIN elements = 0 .. cap - 1
  BY DEF Shape
<1> QED BY <1>1, <1>2, <1>3, <1>4, <1>5

\* heap_push, up to its loop: the new element is the one exception.
LEMMA PushInv ==
  ASSUME HeapInv, NEW k \in Keys, heap_push(k)
  PROVE  HeapInv'
<1> DEFINE c == IF Full THEN cap + InitCap ELSE cap
<1> USE HeapAssumption
<1>0. /\ elem_num \in Nat /\ cap \in Nat /\ elem_num <= cap
      /\ \A i \in Used : elements[i] \in Keys
      /\ elements \in [0 .. cap - 1 -> Keys \cup {NoElem}]
      /\ c \in Nat /\ elem_num < c /\ cap <= c
      /\ elem_num < MaxNum
      /\ contents \in [Keys -> Int]
  BY DEF HeapInv, Shape, heap_push, Full
<1>1. /\ cap' = c /\ elem_num' = elem_num + 1
      /\ elements' = [i \in 0 .. c - 1 |-> IF i = elem_num THEN k
                                           ELSE IF i < cap THEN elements[i]
                                           ELSE NoElem]
      /\ pc = "idle" /\ pc' = "sift_down" /\ pos' = elem_num
      /\ contents' = [contents EXCEPT ![k] = @ + 1]
  BY DEF heap_push
<1> HIDE DEF c
<1>2. /\ Used' = Used \cup {elem_num} /\ elem_num \notin Used
      /\ \A i \in Used : elements'[i] = elements[i]
      /\ elements'[elem_num] = k
  BY <1>0, <1>1 DEF Used
<1>3. Shape'
  <2>1. elements' \in [0 .. c - 1 -> Keys \cup {NoElem}]
    BY <1>0, <1>1
  <2>2. top' = top /\ top \in Keys \cup {NoElem}
    BY DEF HeapInv, Shape, heap_push
  <2>3. \A i \in Used' : elements'[i] \in Keys
    BY <1>0, <1>2
  <2>4. contents' \in [Keys -> Int]
    BY <1>0, <1>1
  <2>5. elem_num' \in 0 .. MaxNum /\ elem_num' <= cap' /\ cap' \in Nat
    BY <1>0, <1>1
  <2> QED BY <1>0, <1>1, <2>1, <2>2, <2>3, <2>4, <2>5 DEF Shape
<1>4. HeapOrder'
  <2>1. \A i \in Used' \ {0} : i \in Nat /\ i > 0 /\ i <= elem_num
    BY <1>0, <1>1 DEF Used
  <2>2. \A i \in Used' \ {0} : Parent(i) \in Used /\ Parent(i) < elem_num
    BY <1>0, <2>1, ParentChild DEF Used
  <2>3. \A i \in Used' \ {0, elem_num} : Ordered(i)'
    <3> TAKE i \in Used' \ {0, elem_num}
    <3>1. i \in Used \ {0}
      BY <1>2
    <3>2. Ordered(i)
      BY <1>1, <3>1 DEF HeapInv, HeapOrder
    <3>3. Parent(i) \in Used
      BY <2>2
    <3> QED BY <1>2, <3>1, <3>2, <3>3 DEF Ordered
  <2>4. \A i \in Used' \ {0} : Parent(i) # elem_num
    BY <1>0, <2>1, <2>2
  <2>5. pos' \in Used'
    BY <1>1, <1>2
  <2> QED BY <1>1, <2>3, <2>4, <2>5 DEF HeapOrder
<1>5. Conserved'
  <2> SUFFICES ASSUME NEW j \in Keys
               PROVE  contents'[j] = Cardinality({i \in Used' : elements'[i] = j})
    BY DEF Conserved
  <2> DEFINE S == {i \in Used : elements[i] = j}
             T == {i \in Used' : elements'[i] = j}
  <2>1. contents[j] = Cardinality(S) /\ contents[j] \in Int
    BY <1>0 DEF HeapInv, Conserved
  <2>2. IsFiniteSet(S)
    <3>1. S = Occurrences(elements, elem_num, j)
      BY DEF Occurrences, Used
    <3> HIDE DEF S
    <3> QED BY <1>0, <3>1, OccurrencesFinite
  <2>3. CASE j = k
    <3>1. T = S \cup {elem_num} /\ elem_num \notin S
      BY <1>2, <2>3
    <3>2. contents'[j] = contents[j] + 1
      BY <1>0, <1>1, <2>3
    <3>3. Cardinality(T) = Cardinality(S) + 1
      <4> HIDE DEF S, T
      <4> QED BY <2>2, <3>1, FS_AddElement
    <3> QED BY <2>1, <3>2, <3>3
  <2>4. CASE j # k
    <3>1. T = S
      BY <1>2, <2>4
    <3>2. contents'[j] = contents[j]
      BY <1>0, <1>1, <2>4
    <3> QED BY <2>1, <3>1, <3>2
  <2> QED BY <2>3, <2>4
<1> QED BY <1>3, <1>4, <1>5 DEF HeapInv

\* What both loops' swaps do to the array, and that they keep all of the
\* invariant but the order.
LEMMA SwapStep ==
  ASSUME HeapInv, NEW p \in Used, NEW q \in Used, p # q,
         elements' = Swap(elements, p, q), pos' = q, pc' = pc,
         UNCHANGED <<elem_num, cap, top, contents>>
  PROVE  /\ Shape' /\ Conserved' /\ Used' = Used
         /\ elements'[p] = elements[q] /\ elements'[q] = elements[p]
         /\ \A i \in Used : i # p /\ i # q => elements'[i] = elements[i]
<1>1. /\ elem_num \in Nat /\ cap \in Nat /\ elem_num <= cap
      /\ \A i \in Used : i \in Nat /\ i \in 0 .. cap - 1 /\ elements[i] \in Keys
      /\ DOMAIN elements = 0 .. cap - 1
      /\ elements \in [0 .. cap - 1 -> Keys \cup {NoElem}]
  BY ShapeFacts DEF HeapInv, Shape
<1>2. Used' = Used
  BY DEF Used
<1>3. /\ elements'[p] = elements[q] /\ elements'[q] = elements[p]
      /\ \A i \in Used : i # p /\ i # q => elements'[i] = elements[i]
  BY <1>1 DEF Swap
<1>4. Shape'
  <2>1. elements' \in [0 .. cap - 1 -> Keys \cup {NoElem}]
    BY <1>1 DEF Swap
  <2>2. \A i \in Used' : elements'[i] \in Keys
    BY <1>1, <1>2, <1>3
  <2>3. pos' \in Nat
    BY <1>1
  <2> QED BY <2>1, <2>2, <2>3 DEF HeapInv, Shape
<1>5. Conserved'
  <2> SUFFICES ASSUME NEW j \in Keys
               PROVE  contents'[j] = Cardinality({i \in Used' : elements'[i] = j})
    BY DEF Conserved
  <2>1. contents[j] = Cardinality(Occurrences(elements, elem_num, j))
    BY DEF HeapInv, Conserved, Occurrences, Used
  <2>2. {i \in Used' : elements'[i] = j} = Occurrences(Swap(elements, p, q), elem_num, j)
    BY DEF Occurrences, Used
  <2>3. p \in 0 .. elem_num - 1 /\ q \in 0 .. elem_num - 1
    BY DEF Used
  <2>4. elements = [i \in 0 .. cap - 1 |-> elements[i]]
    BY <1>1
  <2>5. Cardinality(Occurrences(Swap(elements, p, q), elem_num, j))
          = Cardinality(Occurrences(elements, elem_num, j))
    BY <1>1, <2>3, <2>4, SwapConserves
  <2> QED BY <2>1, <2>2, <2>5
<1> QED BY <1>2, <1>3, <1>4, <1>5

\* Leaving a loop changes nothing but the control state.
LEMMA ExitStep ==
  ASSUME HeapInv, pc' = "idle", pos' = 0,
         UNCHANGED <<elements, elem_num, cap, top, contents>>
  PROVE  Shape' /\ Conserved' /\ Used' = Used /\ \A i : Ordered(i)' <=> Ordered(i)
<1>1. Used' = Used
  BY DEF Used
<1>2. Shape'
  BY <1>1 DEF HeapInv, Shape
<1>3. Conserved'
  BY <1>1 DEF HeapInv, Conserved
<1>4. \A i : Ordered(i)' <=> Ordered(i)
  BY DEF Ordered, Parent
<1> QED BY <1>1, <1>2, <1>3, <1>4

\* sift_down: the exception moves up to the parent, or was none.
LEMMA SiftDownInv ==
  ASSUME HeapInv, sift_down
  PROVE  HeapInv'
<1> DEFINE q == Parent(pos)
<1>1. /\ pc = "sift_down" /\ pos \in Used /\ pos \in Nat
      /\ \A i \in Used \ {0, pos} : Ordered(i)
      /\ \A i \in Used \ {0} : Parent(i) = pos /\ pos > 0 => elements[q] <= elements[i]
  BY DEF HeapInv, Shape, HeapOrder, sift_down
<1>2. /\ elem_num \in Nat
      /\ \A i \in Used : i \in Nat /\ i < elem_num
      /\ \A i \in Nat : i < elem_num => i \in Used
      /\ \A i \in Used : elements[i] \in Keys /\ elements[i] \in Int
  BY ShapeFacts DEF HeapInv
<1>3. CASE pos > 0 /\ cmp_fn(elements[q], elements[pos]) > 0
  <2>1. q \in Nat /\ q < pos /\ q \in Used
    BY <1>1, <1>2, <1>3, ParentChild
  <2>2. elements[pos] < elements[q]
    BY <1>1, <1>2, <1>3, <2>1, CmpOrders
  <2>3. /\ elements' = Swap(elements, pos, q) /\ pos' = q /\ pc' = pc
        /\ UNCHANGED <<elem_num, cap, top, contents>>
    BY <1>3 DEF sift_down
  <2> HIDE DEF q
  <2>4. /\ Shape' /\ Conserved' /\ Used' = Used
        /\ elements'[pos] = elements[q] /\ elements'[q] = elements[pos]
        /\ \A i \in Used : i # pos /\ i # q => elements'[i] = elements[i]
    BY <1>1, <2>1, <2>3, SwapStep
  <2>5. \A i \in Used \ {0} : Parent(i) \in Used /\ Parent(i) # i
    BY <1>2, ParentChild
  <2>6. \A i \in Used' \ {0, q} : Ordered(i)'
    <3> TAKE i \in Used' \ {0, q}
    <3>1. i \in Used \ {0} /\ Parent(i) \in Used /\ elements[i] \in Int
      BY <1>2, <2>4, <2>5
    <3>2. CASE i = pos
      BY <1>1, <1>2, <2>1, <2>2, <2>4, <3>2 DEF Ordered, q
    <3>3. CASE i # pos /\ Parent(i) = pos
      BY <1>1, <1>2, <1>3, <2>1, <2>4, <3>1, <3>3 DEF Ordered
    <3>4. CASE i # pos /\ Parent(i) = q
      <4>1. elements[q] <= elements[i] /\ elements'[i] = elements[i]
        BY <1>1, <2>4, <3>1, <3>4 DEF Ordered
      <4> QED BY <1>1, <1>2, <2>1, <2>2, <2>4, <3>1, <3>4, <4>1 DEF Ordered
    <3>5. CASE i # pos /\ Parent(i) # pos /\ Parent(i) # q
      BY <1>1, <2>4, <3>1, <3>5 DEF Ordered
    <3> QED BY <3>2, <3>3, <3>4, <3>5
  <2>7. ASSUME NEW i \in Used' \ {0}, Parent(i) = q, q > 0
        PROVE  elements'[Parent(q)] <= elements'[i]
    <3>1. /\ Parent(q) \in Nat /\ Parent(q) < q /\ Parent(q) \in Used
          /\ Parent(q) # pos /\ elements[Parent(q)] \in Int
      BY <1>1, <1>2, <2>1, <2>7, ParentChild
    <3>2. elements'[Parent(q)] = elements[Parent(q)]
      BY <2>1, <2>4, <3>1
    <3>3. elements[Parent(q)] <= elements[q]
      BY <1>1, <2>1, <2>7 DEF Ordered
    <3>4. CASE i = pos
      BY <2>4, <3>2, <3>3, <3>4
    <3>5. CASE i # pos
      <4>1. i \in Used /\ i # 0 /\ i # q /\ elements[i] \in Int
        BY <1>2, <2>4, <2>5, <2>7
      <4>2. elements[q] <= elements[i] /\ elements'[i] = elements[i]
        BY <1>1, <2>4, <2>7, <3>5, <4>1 DEF Ordered
      <4> QED BY <1>2, <2>1, <3>1, <3>2, <3>3, <4>1, <4>2
    <3> QED BY <3>4, <3>5
  <2>8. HeapOrder'
    BY <1>1, <2>1, <2>3, <2>4, <2>6, <2>7 DEF HeapOrder
  <2> QED BY <2>4, <2>8 DEF HeapInv
<1>4. CASE ~ (pos > 0 /\ cmp_fn(elements[q], elements[pos]) > 0)
  <2>1. /\ pc' = "idle" /\ pos' = 0
        /\ UNCHANGED <<elements, elem_num, cap, top, contents>>
    BY <1>4 DEF sift_down
  <2>2. Shape' /\ Conserved' /\ Used' = Used /\ \A i : Ordered(i)' <=> Ordered(i)
    BY <2>1, ExitStep
  <2>3. pos > 0 => Ordered(pos)
    <3> SUFFICES ASSUME pos > 0 PROVE elements[q] <= elements[pos]
      BY DEF Ordered
    <3>1. q \in Used
      BY <1>1, <1>2, ParentChild
    <3> HIDE DEF q
    <3>2. ~ (cmp_fn(elements[q], elements[pos]) > 0)
      BY <1>4
    <3>3. ~ (elements[q] > elements[pos])
      BY <1>1, <1>2, <3>1, <3>2, CmpOrders
    <3> QED BY <1>1, <1>2, <3>1, <3>3
  <2>4. \A i \in Used \ {0} : Ordered(i)
    BY <1>1, <2>3
  <2>5. HeapOrder'
    BY <2>1, <2>2, <2>4 DEF HeapOrder
  <2> QED BY <2>2, <2>5 DEF HeapInv
<1> QED BY <1>3, <1>4

\* heap_pop, up to its loop: the last element, now first, is the exception.
LEMMA PopInv ==
  ASSUME HeapInv, heap_pop
  PROVE  HeapInv'
<1> DEFINE n == elem_num - 1
<1>0. /\ elem_num \in Nat /\ cap \in Nat /\ elem_num <= cap
      /\ n \in Nat /\ n < elem_num /\ elem_num = n + 1
      /\ \A i \in Used : i \in Nat /\ i < elem_num
      /\ \A i \in Nat : i < elem_num => i \in Used
      /\ \A i \in Used : elements[i] \in Keys
      /\ elements \in [0 .. cap - 1 -> Keys \cup {NoElem}]
      /\ contents \in [Keys -> Int]
  BY ShapeFacts DEF HeapInv, Shape, heap_pop
<1>1. /\ pc = "idle" /\ top' = elements[0] /\ elem_num' = n
      /\ cap' = cap /\ pos' = 0
      /\ contents' = [contents EXCEPT ![elements[0]] = @ - 1]
      /\ n = 0 => elements' = elements /\ pc' = pc
      /\ n # 0 => elements' = [elements EXCEPT ![0] = elements[n]] /\ pc' = "sift_up"
  BY <1>0 DEF heap_pop
<1> HIDE DEF n
<1>2. /\ Used = Used' \cup {n} /\ n \notin Used'
      /\ 0 \in Used /\ n \in Used /\ elements[0] \in Keys /\ elements[n] \in Keys
  BY <1>0, <1>1 DEF Used
<1>3. /\ \A i \in Used' \ {0} : elements'[i] = elements[i]
      /\ 0 \in Used' <=> n # 0
      /\ n # 0 => elements'[0] = elements[n]
  BY <1>0, <1>1 DEF Used
<1>4. Shape'
  <2>1. elements' \in [0 .. cap - 1 -> Keys \cup {NoElem}]
    BY <1>0, <1>1, <1>2
  <2>2. \A i \in Used' : elements'[i] \in Keys
    BY <1>0, <1>2, <1>3
  <2>3. contents' \in [Keys -> Int]
    BY <1>0, <1>1, <1>2
  <2>4. elem_num' \in 0 .. MaxNum /\ elem_num' <= cap' /\ cap' \in Nat
    <3>1. elem_num \in 0 .. MaxNum /\ MaxNum \in Nat
      BY HeapAssumption DEF HeapInv, Shape
    <3> QED BY <1>0, <1>1, <3>1
  <2>5. pc' \in {"idle", "sift_down", "sift_up"} /\ pos' \in Nat
    BY <1>1
  <2>6. top' \in Keys \cup {NoElem}
    BY <1>1, <1>2
  <2> QED BY <1>1, <2>1, <2>2, <2>3, <2>4, <2>5, <2>6 DEF Shape
<1>5. HeapOrder'
  <2>1. \A i \in Used' \ {0} : i \in Used \ {0} /\ Parent(i) \in Used' /\ Ordered(i)
    <3> TAKE i \in Used' \ {0}
    <3>1. i \in Used \ {0} /\ i \in Nat /\ i < n
      BY <1>0, <1>1, <1>2 DEF Used
    <3>2. Parent(i) \in Nat /\ Parent(i) < n
      BY <1>0, <3>1, ParentChild
    <3>3. Parent(i) \in Used'
      BY <1>0, <1>1, <3>2 DEF Used
    <3>4. Ordered(i)
      BY <1>1, <3>1 DEF HeapInv, HeapOrder
    <3> QED BY <3>1, <3>3, <3>4
  <2>2. CASE n = 0
    <3>1. Used' = {}
      BY <1>0, <1>1, <2>2 DEF Used
    <3> QED BY <1>1, <2>2, <3>1 DEF HeapOrder
  <2>3. CASE n # 0
    <3>1. \A i \in Used' \ {0} : Parent(i) # 0 => Ordered(i)'
      BY <1>3, <2>1 DEF Ordered
    <3> QED BY <1>1, <1>3, <2>3, <3>1 DEF HeapOrder
  <2> QED BY <2>2, <2>3
<1>6. Conserved'
  <2> SUFFICES ASSUME NEW j \in Keys
               PROVE  contents'[j] = Cardinality({i \in Used' : elements'[i] = j})
    BY DEF Conserved
  <2> DEFINE S == {i \in Used : elements[i] = j}
             T == {i \in Used' : elements'[i] = j}
  <2>1. contents[j] = Cardinality(S) /\ contents[j] \in Int
    BY <1>0 DEF HeapInv, Conserved
  <2>2. IsFiniteSet(S)
    <3>1. S = Occurrences(elements, elem_num, j)
      BY DEF Occurrences, Used
    <3> HIDE DEF S
    <3> QED BY <1>0, <3>1, OccurrencesFinite
  <2>3. contents'[j] = IF elements[0] = j THEN contents[j] - 1 ELSE contents[j]
    BY <1>0, <1>1, <1>2
  <2>4. CASE elements[0] = j /\ elements[n] = j
    <3>1. T = S \ {n} /\ n \in S
      BY <1>0, <1>2, <1>3, <2>4
    <3>2. Cardinality(T) = Cardinality(S) - 1
      <4> HIDE DEF S, T
      <4> QED BY <2>2, <3>1, FS_RemoveElement
    <3> QED BY <2>1, <2>3, <2>4, <3>2
  <2>5. CASE elements[0] = j /\ elements[n] # j
    <3>1. T = S \ {0} /\ 0 \in S
      BY <1>0, <1>2, <1>3, <2>5
    <3>2. Cardinality(T) = Cardinality(S) - 1
      <4> HIDE DEF S, T
      <4> QED BY <2>2, <3>1, FS_RemoveElement
    <3> QED BY <2>1, <2>3, <2>5, <3>2
  <2>6. CASE elements[0] # j /\ elements[n] = j
    <3>1. T = (S \ {n}) \cup {0} /\ n \in S /\ 0 \notin S
      BY <1>0, <1>2, <1>3, <2>6
    <3>2. Cardinality(T) = Cardinality(S)
      <4> HIDE DEF S, T
      <4> QED BY <2>2, <3>1, MoveElement
    <3> QED BY <2>1, <2>3, <2>6, <3>2
  <2>7. CASE elements[0] # j /\ elements[n] # j
    <3>1. T = S
      BY <1>0, <1>2, <1>3, <2>7
    <3> QED BY <2>1, <2>3, <2>7, <3>1
  <2> QED BY <2>4, <2>5, <2>6, <2>7
<1> QED BY <1>4, <1>5, <1>6 DEF HeapInv

\* sift_up: the exception moves down to the smaller child, or was none.
LEMMA SiftUpInv ==
  ASSUME HeapInv, sift_up
  PROVE  HeapInv'
<1> DEFINE p == pos
           c == Child(pos)
<1>1. /\ pc = "sift_up" /\ p \in Used /\ p \in Nat
      /\ \A i \in Used \ {0} : Parent(i) # p => Ordered(i)
      /\ \A i \in Used \ {0} : Parent(i) = p /\ p > 0 => elements[Parent(p)] <= elements[i]
  BY DEF HeapInv, Shape, HeapOrder, sift_up
<1>2. /\ elem_num \in Nat
      /\ \A i \in Used : i \in Nat /\ i < elem_num
      /\ \A i \in Nat : i < elem_num => i \in Used
      /\ \A i \in Used : elements[i] \in Keys /\ elements[i] \in Int
  BY ShapeFacts DEF HeapInv
<1>3. \A i \in Used \ {0} : /\ Parent(i) \in Used /\ Parent(i) < i
                            /\ i = 2 * Parent(i) + 1 \/ i = 2 * Parent(i) + 2
  BY <1>2, ParentChild
\* The child the loop compares with is the smaller one.
<1>4. ASSUME 2 * p + 1 < elem_num
      PROVE  /\ c \in Used /\ c > p /\ Parent(c) = p
             /\ \A i \in Used \ {0} : Parent(i) = p => elements[c] <= elements[i]
  <2>1. 2 * p + 1 \in Used
    BY <1>1, <1>2, <1>4
  <2>2. CASE 2 * p + 2 < elem_num /\ cmp_fn(elements[2 * p + 2], elements[2 * p + 1]) < 0
    <3>1. c = 2 * p + 2 /\ c \in Used
      BY <1>1, <1>2, <2>2 DEF Child
    <3>2. elements[2 * p + 2] < elements[2 * p + 1]
      BY <1>2, <2>1, <2>2, <3>1, CmpOrders
    <3>3. Parent(c) = p
      BY <1>1, <3>1, ChildParent
    <3> QED BY <1>1, <1>2, <1>3, <2>1, <3>1, <3>2, <3>3
  <2>3. CASE ~ (2 * p + 2 < elem_num /\ cmp_fn(elements[2 * p + 2], elements[2 * p + 1]) < 0)
    <3>1. c = 2 * p + 1 /\ c \in Used
      BY <1>1, <1>2, <2>1, <2>3 DEF Child
    <3>2. 2 * p + 2 \in Used => elements[2 * p + 1] <= elements[2 * p + 2]
      <4> SUFFICES ASSUME 2 * p + 2 \in Used PROVE elements[2 * p + 1] <= elements[2 * p + 2]
        OBVIOUS
      <4>1. ~ (cmp_fn(elements[2 * p + 2], elements[2 * p + 1]) < 0)
        BY <1>2, <2>3
      <4>2. ~ (elements[2 * p + 2] < elements[2 * p + 1])
        BY <1>2, <2>1, <4>1, CmpOrders
      <4> QED BY <1>2, <2>1, <4>2
    <3>3. Parent(c) = p
      BY <1>1, <3>1, ChildParent
    <3> QED BY <1>1, <1>2, <1>3, <2>1, <3>1, <3>2, <3>3
  <2> QED BY <2>2, <2>3
<1>5. CASE Sinks(pos)
  <2>1. /\ c \in Used /\ c \in Nat /\ c > p /\ Parent(c) = p
        /\ \A i \in Used \ {0} : Parent(i) = p => elements[c] <= elements[i]
    BY <1>2, <1>4, <1>5 DEF Sinks
  <2>2. elements[c] < elements[p]
    BY <1>1, <1>2, <1>5, <2>1, CmpOrders DEF Sinks
  <2>3. /\ elements' = Swap(elements, p, c) /\ pos' = c /\ pc' = pc
        /\ UNCHANGED <<elem_num, cap, top, contents>>
    BY <1>5 DEF sift_up
  <2> HIDE DEF p, c
  <2>4. /\ Shape' /\ Conserved' /\ Used' = Used
        /\ elements'[p] = elements[c] /\ elements'[c] = elements[p]
        /\ \A i \in Used : i # p /\ i # c => elements'[i] = elements[i]
    BY <1>1, <2>1, <2>3, SwapStep
  <2>5. ASSUME NEW i \in Used' \ {0}, Parent(i) # c
        PROVE  Ordered(i)'
    <3>1. i \in Used \ {0} /\ Parent(i) \in Used /\ Parent(i) # i /\ elements[i] \in Int
      BY <1>2, <1>3, <2>4, <2>5
    <3>2. CASE i = c
      BY <1>1, <1>2, <2>1, <2>2, <2>4, <3>2 DEF Ordered
    <3>3. CASE i = p
      <4>1. p > 0 /\ c \in Used \ {0} /\ Parent(p) \in Used /\ Parent(p) # p /\ Parent(p) # c
        BY <1>1, <2>1, <2>5, <3>1, <3>3
      <4>2. elements[Parent(p)] <= elements[c]
        BY <1>1, <2>1, <4>1
      <4> QED BY <2>4, <3>3, <4>1, <4>2 DEF Ordered
    <3>4. CASE i # p /\ i # c /\ Parent(i) = p
      BY <2>1, <2>4, <3>1, <3>4 DEF Ordered
    <3>5. CASE i # p /\ i # c /\ Parent(i) # p
      BY <1>1, <2>4, <2>5, <3>1, <3>5 DEF Ordered
    <3> QED BY <3>2, <3>3, <3>4, <3>5
  <2>6. ASSUME NEW i \in Used' \ {0}, Parent(i) = c
        PROVE  elements'[Parent(c)] <= elements'[i]
    <3>1. i \in Used \ {0} /\ i # c /\ i # p /\ Parent(i) # p
      BY <1>1, <1>2, <1>3, <2>1, <2>4, <2>6
    <3>2. elements[c] <= elements[i]
      BY <1>1, <2>6, <3>1 DEF Ordered
    <3> QED BY <2>1, <2>4, <3>1, <3>2
  <2>7. HeapOrder'
    BY <1>1, <2>1, <2>3, <2>4, <2>5, <2>6 DEF HeapOrder
  <2> QED BY <2>4, <2>7 DEF HeapInv
<1>6. CASE ~ Sinks(pos)
  <2>1. /\ pc' = "idle" /\ pos' = 0
        /\ UNCHANGED <<elements, elem_num, cap, top, contents>>
    BY <1>6 DEF sift_up
  <2>2. Shape' /\ Conserved' /\ Used' = Used /\ \A i : Ordered(i)' <=> Ordered(i)
    BY <2>1, ExitStep
  <2>3. ASSUME NEW i \in Used \ {0}, Parent(i) = p
        PROVE  Ordered(i)
    <3>1. 2 * p + 1 < elem_num /\ elements[i] \in Int
      BY <1>1, <1>2, <1>3, <2>3
    <3>2. c \in Used /\ elements[c] <= elements[i]
      BY <1>4, <2>3, <3>1
    <3>3. ~ (cmp_fn(elements[c], elements[p]) < 0)
      BY <1>6, <3>1 DEF Sinks
    <3> HIDE DEF c, p
    <3>4. ~ (elements[c] < elements[p])
      BY <1>1, <1>2, <3>2, <3>3, CmpOrders
    <3> QED BY <1>1, <1>2, <2>3, <3>1, <3>2, <3>4 DEF Ordered
  <2>4. \A i \in Used \ {0} : Ordered(i)
    BY <1>1, <2>3
  <2>5. HeapOrder'
    BY <2>1, <2>2, <2>4 DEF HeapOrder
  <2> QED BY <2>2, <2>5 DEF HeapInv
<1> QED BY <1>5, <1>6

\* Every step of the heap keeps the invariant.
LEMMA StepInv == HeapInv /\ [Next]_vars => HeapInv'
<1> SUFFICES ASSUME HeapInv, [Next]_vars PROVE HeapInv'
  OBVIOUS
<1>1. CASE \E k \in Keys : heap_push(k)
  BY <1>1, PushInv
<1>2. CASE sift_down
  BY <1>2, SiftDownInv
<1>3. CASE heap_pop
  BY <1>3, PopInv
<1>4. CASE sift_up
  BY <1>4, SiftUpInv
<1>5. CASE UNCHANGED vars
  BY <1>5 DEF vars, HeapInv, Shape, HeapOrder, Conserved, Used, Ordered, Parent
<1> QED BY <1>1, <1>2, <1>3, <1>4, <1>5 DEF Next

\* When no loop is running the first element is a least one: otherwise the
\* first position that holds a smaller one has a parent that does not.
LEMMA RootIsLeast ==
  ASSUME HeapInv, pc = "idle"
  PROVE  \A i \in Used : elements[0] <= elements[i]
<1> DEFINE T == {i \in Used : elements[i] < elements[0]}
<1>1. /\ \A i \in Used : i \in Nat /\ i < elem_num
      /\ \A i \in Nat : i < elem_num => i \in Used
      /\ \A i \in Used : elements[i] \in Int
      /\ elem_num \in Nat
  BY ShapeFacts DEF HeapInv
<1>2. \A i \in Used \ {0} : Ordered(i)
  BY DEF HeapInv, HeapOrder
<1>3. T = {}
  <2> SUFFICES ASSUME T # {} PROVE FALSE
    OBVIOUS
  <2>1. T \in SUBSET Nat
    BY <1>1
  <2>2. PICK x \in T : \A y \in T : x <= y
    <3> HIDE DEF T
    <3> QED BY <2>1, FirstPosition
  <2>3. x \in Used /\ x \in Nat /\ elements[x] < elements[0]
    BY <1>1
  <2>4. 0 \in Used /\ elements[0] \in Int /\ elements[x] \in Int
    BY <1>1, <2>3
  <2>5. x # 0
    BY <2>3, <2>4
  <2>6. Parent(x) \in Nat /\ Parent(x) < x /\ Parent(x) \in Used
    BY <1>1, <2>3, <2>5, ParentChild
  <2>7. elements[Parent(x)] <= elements[x]
    BY <1>2, <2>3, <2>5 DEF Ordered
  <2>8. Parent(x) \in T
    BY <1>1, <2>3, <2>4, <2>6, <2>7
  <2> QED BY <2>2, <2>3, <2>6, <2>8
<1>4. ASSUME NEW i \in Used PROVE elements[0] <= elements[i]
  <2>1. 0 \in Used
    BY <1>1, <1>4
  <2> QED BY <1>1, <1>3, <2>1
<1> QED BY <1>4

(***************************************************************************)
(* The theorems                                                            *)
(***************************************************************************)

\* The invariant holds throughout heap_push, heap_pop and their loops.
THEOREM HeapInvariant == Spec => []HeapInv
<1>1. Init => HeapInv
  BY InitInv
<1>2. HeapInv /\ [Next]_vars => HeapInv'
  BY StepInv
<1> QED BY <1>1, <1>2, PTL DEF Spec

\* heap_push grows the array in time, every element in use has been written,
\* and no key is popped more often than it was pushed.
THEOREM HeapTypeOK == Spec => []TypeOK
<1>1. HeapInv => TypeOK
  BY InvTypeOK
<1> QED BY <1>1, HeapInvariant, PTL

\* Between calls no element is smaller than its parent, and inside a loop the
\* one exception is where the loop has got to.
THEOREM HeapKeepsOrder == Spec => []HeapOrder
<1>1. HeapInv => HeapOrder
  BY DEF HeapInv
<1> QED BY <1>1, HeapInvariant, PTL

\* The array holds exactly what was pushed and not popped: no swap, growth or
\* move of the last element loses or doubles an element.
THEOREM HeapConserves == Spec => []Conserved
<1>1. HeapInv => Conserved
  BY DEF HeapInv
<1> QED BY <1>1, HeapInvariant, PTL

\* heap_pop returns a least key of those in the heap.
THEOREM HeapPopsLeast == Spec => PopsLeast
<1>1. HeapInv /\ [Next]_vars =>
        [elem_num' < elem_num => \A k \in Keys : contents[k] > 0 => top' <= k]_vars
  <2> SUFFICES ASSUME HeapInv, Next, elem_num' < elem_num,
                      NEW k \in Keys, contents[k] > 0
               PROVE  top' <= k
    BY DEF vars
  <2>1. elem_num \in Nat
    BY ShapeFacts DEF HeapInv
  <2>2. heap_pop
    BY <2>1 DEF Next, heap_push, sift_down, sift_up
  <2>3. \A i \in Used : top' <= elements[i]
    BY <2>2, RootIsLeast DEF heap_pop
  <2>4. PICK i \in Used : elements[i] = k
    <3> SUFFICES ASSUME \A i \in Used : elements[i] # k PROVE FALSE
      OBVIOUS
    <3>1. {i \in Used : elements[i] = k} = {}
      OBVIOUS
    <3>2. contents[k] = 0
      BY <3>1, FS_EmptySet DEF HeapInv, Conserved
    <3> QED BY <3>2
  <2> QED BY <2>3, <2>4
<1> QED BY <1>1, HeapInvariant, PTL DEF Spec, PopsLeast
============================================================================
