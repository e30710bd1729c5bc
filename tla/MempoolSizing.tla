--------------------------- MODULE MempoolSizing ---------------------------
(***************************************************************************)
(* How mempool_create of src/memory/mempool.c lays out the slabs of a pool *)
(* from the size and the alignment it is given: the loop of                *)
(* calculate_slab_order, one step per page order, and where slab_alloc     *)
(* puts the objects in the memory malloc returns. Module Mempool takes the *)
(* resulting num_per_slab as its constant N.                               *)
(*                                                                         *)
(* mempool_create takes its sizes as size_t and stores them in an int and  *)
(* an unsigned int, so a size may come out smaller than it went in.        *)
(***************************************************************************)
EXTENDS Integers

CONSTANTS
  PageSize,  \* PAGE_SIZE
  MaxOrder,  \* MALLOC_MAX_ORDER
  MinNum,    \* SLAB_OBJ_MIN_NUM
  PtrSize,   \* sizeof(void *)
  UIntMod,   \* the number of values of an unsigned int, 2^32
  SizeMod,   \* and of a size_t, 2^64
  ObjSizes,  \* the object sizes pools are created with
  Aligns     \* and the alignments

\* PAGE_SIZE << order
SlabSize(o) == PageSize * 2^o

\* ALIGN, and ALIGN_ADDR for addresses: the sum wraps around, and the mask
\* made of an alignment of 0 clears every bit.
ALIGN(x, a) == IF a = 0 THEN 0 ELSE (((x + a - 1) % SizeMod) \div a) * a

\* What a size_t becomes in an unsigned int and in an int.
UInt(x) == x % UIntMod
SInt(x) == IF UInt(x) < UIntMod \div 2 THEN UInt(x) ELSE UInt(x) - UIntMod

calculate_alignment(a) == ALIGN(a, PtrSize)

ASSUME SizingAssumption ==
  /\ PageSize \in 0 .. 32767 /\ MaxOrder \in Nat
  /\ MinNum \in 8 .. 16383
  /\ PtrSize \in Nat \ {0}
  /\ UIntMod \in Nat /\ UIntMod >= 65536
  /\ SizeMod \in Nat /\ SizeMod >= 2 * UIntMod
  /\ ObjSizes \subseteq 0 .. SizeMod - 1
  /\ \A o \in 0 .. MaxOrder : SlabSize(o) \in PageSize .. UIntMod - 1
  /\ SlabSize(0) = PageSize
  /\ \A o \in 1 .. MaxOrder : SlabSize(o) = 2 * SlabSize(o - 1)

\* Alignments are 0 or, as the bit mask of ALIGN needs, powers of two, and
\* at most a page: slab_size - align does not wrap around.
ASSUME AlignsAssumption ==
  \A a \in Aligns :
    /\ calculate_alignment(a) \in 0 .. PageSize
    /\ calculate_alignment(a) # 0 => UIntMod % calculate_alignment(a) = 0

VARIABLES
  pc,            \* "none", "loop", "done" with the call, or a "fault"
  asked,         \* the parameter obj_size
  obj_size,      \* pool->obj_size
  align,         \* pool->align
  size,          \* pool->size
  order,         \* the loop variable
  num_per_slab,  \* pool->num_per_slab
  pool_order     \* pool->order

vars == <<pc, asked, obj_size, align, size, order, num_per_slab, pool_order>>

Init ==
  /\ pc = "none"
  /\ asked = 0 /\ obj_size = 0 /\ align = 0 /\ size = 0 /\ order = 0
  /\ num_per_slab = 0 /\ pool_order = 0

\* A definition whose name starts with Bad is a slip a change of the next
\* definition could make; no specification uses it.

\* No room for moving the first object to an aligned address.
BadSubAlignSize(o) == SlabSize(o)

SubAlignSize(o) == SlabSize(o) - align

\* mempool_estimate
num(o) == SubAlignSize(o) \div size
left_over(o) == SubAlignSize(o) % size

\* The test for too few objects is missing.
BadAccepts(o) == num(o) > 0

Accepts(o) == num(o) >= MinNum

\* At most the eighth part of an object.
BadFragmentationOk(o) == left_over(o) * 8 <= size

\* Acceptable internal fragmentation?
FragmentationOk(o) == left_over(o) * 8 <= SlabSize(o)

----------------------------------------------------------------------------
\* mempool_create up to the loop. The pool comes out of calloc.
mempool_create(s, a) ==
  /\ pc \in {"none", "done"}
  /\ asked' = s /\ obj_size' = SInt(s)
  /\ align' = SInt(calculate_alignment(a))
  /\ size' = UInt(ALIGN(s, align'))
  /\ num_per_slab' = 0 /\ pool_order' = 0
  /\ order' = 0 /\ pc' = "loop"

\* An iteration of calculate_slab_order.
TryOrder ==
  /\ pc = "loop" /\ order <= MaxOrder /\ size # 0
  /\ IF Accepts(order)
     THEN /\ num_per_slab' = num(order) /\ pool_order' = order
          /\ IF FragmentationOk(order)
             THEN pc' = "done" /\ order' = order
             ELSE pc' = pc /\ order' = order + 1
     ELSE order' = order + 1 /\ UNCHANGED <<pc, num_per_slab, pool_order>>
  /\ UNCHANGED <<asked, obj_size, align, size>>

\* mempool_estimate divides by the size of an object.
DivideByZero ==
  /\ pc = "loop" /\ order <= MaxOrder /\ size = 0
  /\ pc' = "fault"
  /\ UNCHANGED <<asked, obj_size, align, size, order, num_per_slab, pool_order>>

\* The loop has ended without a break; set_off_slab_mempool and
\* mempool_create fail if it has found nothing.
NoMoreOrders ==
  /\ pc = "loop" /\ order > MaxOrder
  /\ pc' = "done"
  /\ UNCHANGED <<asked, obj_size, align, size, order, num_per_slab, pool_order>>

Next ==
  \/ \E s \in ObjSizes, a \in Aligns : mempool_create(s, a)
  \/ TryOrder
  \/ DivideByZero
  \/ NoMoreOrders

Spec == Init /\ [][Next]_vars

Created == pc = "done" /\ num_per_slab # 0

\* slab_alloc: what it makes of the address malloc returned.
obj_base(base) == ALIGN(base, align)
obj_end(base) == obj_base(base) + num_per_slab * size

----------------------------------------------------------------------------
(* Properties                                                              *)

\* A slab of a pool holds at least MinNum objects, and an index of one fits
\* in the shorts of struct slab: the 32767 of Mempool's assumption on N.
TypeOK ==
  /\ pc \in {"none", "loop", "done", "fault"}
  /\ asked \in 0 .. SizeMod - 1 /\ obj_size \in -UIntMod .. UIntMod
  /\ align \in 0 .. PageSize /\ size \in 0 .. UIntMod - 1
  /\ order \in 0 .. MaxOrder + 1 /\ pool_order \in 0 .. MaxOrder
  /\ num_per_slab \in {0} \cup MinNum .. 32767

\* The objects of a pool are as big as asked for, unless 2^32 or more bytes
\* were asked for: the unsigned int pool->size then holds what is left of them
\* modulo 2^32. Wherever malloc puts the memory of a slab, its objects are
\* aligned, and obj_end is still inside that memory. ADDR_IN_SLAB counts
\* obj_end in, so only this keeps it from claiming the first object of a slab
\* that follows directly behind.
ObjectsFit ==
  Created => /\ asked < UIntMod => asked <= size
             /\ size % align = 0
             /\ \A base \in 0 .. align - 1 :
                  /\ base <= obj_base(base) /\ obj_base(base) % align = 0
                  /\ obj_end(base) < base + SlabSize(pool_order)

\* n objects and the room for aligning the first fit in a slab of order o.
Holds(o, n) == align + n * size <= SlabSize(o)

\* "try to avoid using high order pages" (calculate_slab_order): the slab is
\* the smallest that holds MinNum objects, with as many as it holds, and a
\* pool is refused only if no slab does. The test for fragmentation never
\* makes it larger.
LeastOrder ==
  pc = "done" =>
    IF num_per_slab = 0
    THEN \A o \in 0 .. MaxOrder : ~Holds(o, MinNum)
    ELSE /\ Holds(pool_order, num_per_slab) /\ ~Holds(pool_order, num_per_slab + 1)
         /\ \A o \in 0 .. pool_order - 1 : ~Holds(o, MinNum)
============================================================================
