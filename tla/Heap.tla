-------------------------------- MODULE Heap --------------------------------
(***************************************************************************)
(* The binary heap of src/container/heap.c, which the coroutine scheduler  *)
(* keeps its timers in, one step per iteration of sift_down and sift_up.   *)
(* An element is its key, the expiry time of a timer, and elements are     *)
(* compared the way co_timer_cmp of coroutine/co_time.c does: the          *)
(* difference of two longs, cut down to an int.                            *)
(*                                                                         *)
(* contents is a history variable: how many elements with each key have    *)
(* been pushed and not popped.                                             *)
(***************************************************************************)
EXTENDS Integers, FiniteSets

CONSTANTS
  Keys,      \* the keys elements have
  InitCap,   \* HEAP_INIT_CAP
  MaxNum,    \* bound on the elements in the heap
  IntRange,  \* 2^w for ints of w bits
  NoElem     \* what a fresh array entry holds

ASSUME HeapAssumption ==
  /\ Keys \subseteq Int /\ NoElem \notin Int
  /\ InitCap \in Nat \ {0} /\ MaxNum \in Nat /\ IntRange \in Nat \ {0}
  /\ \A a, b \in Keys : 2 * (a - b) < IntRange

VARIABLES
  elements,  \* ht->elements
  elem_num,  \* ht->elem_num
  cap,       \* ht->cap
  pc,        \* "idle", or the loop the heap is in
  pos,       \* last in sift_down, parent_pos in sift_up
  top,       \* what the current or the last heap_pop returns
  contents

vars == <<elements, elem_num, cap, pc, pos, top, contents>>

Used == 0 .. elem_num - 1

\* heap_create
Init ==
  /\ elements = [i \in 0 .. InitCap - 1 |-> NoElem]
  /\ elem_num = 0
  /\ cap = InitCap
  /\ pc = "idle" /\ pos = 0
  /\ top = NoElem
  /\ contents = [k \in Keys |-> 0]

\* co_timer_cmp: an int holds the difference modulo IntRange.
cmp_fn(a, b) ==
  LET d == (a - b) % IntRange
  IN  IF 2 * d >= IntRange THEN d - IntRange ELSE d

\* A definition whose name starts with Bad is a slip a change of the next
\* definition could make; no specification uses it.
BadParent(i) == i \div 2

Parent(i) == (i - 1) \div 2

\* A swap without tmp.
BadSwap(f, i, j) == [f EXCEPT ![i] = f[j]]

Swap(f, i, j) == [f EXCEPT ![i] = f[j], ![j] = f[i]]

----------------------------------------------------------------------------
\* The array grows one element late.
BadFull == elem_num > cap

Full == elem_num = cap

\* heap_push up to sift_down. A full array is reallocated with InitCap more
\* entries.
heap_push(k) ==
  /\ pc = "idle" /\ elem_num < MaxNum
  /\ LET c == IF Full THEN cap + InitCap ELSE cap
     IN  /\ cap' = c
         /\ elements' = [i \in 0 .. c - 1 |-> IF i = elem_num THEN k
                                              ELSE IF i < cap THEN elements[i]
                                              ELSE NoElem]
  /\ elem_num' = elem_num + 1
  /\ contents' = [contents EXCEPT ![k] = @ + 1]
  /\ pc' = "sift_down" /\ pos' = elem_num
  /\ UNCHANGED top

\* An iteration of sift_down: swap with the parent while that is greater.
sift_down ==
  /\ pc = "sift_down"
  /\ IF pos > 0 /\ cmp_fn(elements[Parent(pos)], elements[pos]) > 0
     THEN /\ elements' = Swap(elements, pos, Parent(pos))
          /\ pos' = Parent(pos)
          /\ UNCHANGED pc
     ELSE /\ pc' = "idle" /\ pos' = 0
          /\ UNCHANGED elements
  /\ UNCHANGED <<elem_num, cap, top, contents>>

\* heap_pop up to the loop of sift_up: the last element replaces the first.
heap_pop ==
  /\ pc = "idle" /\ elem_num > 0
  /\ top' = elements[0]
  /\ elem_num' = elem_num - 1
  /\ contents' = [contents EXCEPT ![elements[0]] = @ - 1]
  /\ IF elem_num = 1
     THEN UNCHANGED <<elements, pc>>
     ELSE /\ elements' = [elements EXCEPT ![0] = elements[elem_num - 1]]
          /\ pc' = "sift_up"
  /\ pos' = 0
  /\ UNCHANGED cap

\* The left child, whatever the right one is.
BadChild(p) == 2 * p + 1

\* The smaller child of p, the left one if there is no right one.
Child(p) ==
  LET l == 2 * p + 1
  IN  IF l + 1 < elem_num /\ cmp_fn(elements[l + 1], elements[l]) < 0 THEN l + 1 ELSE l

Sinks(p) ==
  2 * p + 1 < elem_num /\ cmp_fn(elements[Child(p)], elements[p]) < 0

\* An iteration of sift_up: swap with the smaller child while that is
\* smaller.
sift_up ==
  /\ pc = "sift_up"
  /\ IF Sinks(pos)
     THEN /\ elements' = Swap(elements, pos, Child(pos))
          /\ pos' = Child(pos)
          /\ UNCHANGED pc
     ELSE /\ pc' = "idle" /\ pos' = 0
          /\ UNCHANGED elements
  /\ UNCHANGED <<elem_num, cap, top, contents>>

Next == (\E k \in Keys : heap_push(k)) \/ sift_down \/ heap_pop \/ sift_up

Spec == Init /\ [][Next]_vars

----------------------------------------------------------------------------
(* Properties                                                              *)

\* Besides the types: the array has room for the elements, and every one of
\* them has been written, so growing by InitCap keeps up with heap_push.
TypeOK ==
  /\ cap \in Nat /\ elem_num \in 0 .. MaxNum /\ elem_num <= cap
  /\ elements \in [0 .. cap - 1 -> Keys \cup {NoElem}]
  /\ \A i \in Used : elements[i] \in Keys
  /\ pc \in {"idle", "sift_down", "sift_up"} /\ pos \in Nat
  /\ top \in Keys \cup {NoElem}
  /\ contents \in [Keys -> Nat]

Ordered(i) == elements[Parent(i)] <= elements[i]

\* Between calls no element is smaller than its parent; inside a call the one
\* exception is at the position the loop has reached, and leaving that
\* element out everything is in order.
HeapOrder ==
  /\ pc = "idle" => \A i \in Used \ {0} : Ordered(i)
  /\ pc = "sift_down" =>
       /\ pos \in Used
       /\ \A i \in Used \ {0, pos} : Ordered(i)
       /\ \A i \in Used \ {0} : Parent(i) = pos /\ pos > 0
            => elements[Parent(pos)] <= elements[i]
  /\ pc = "sift_up" =>
       /\ pos \in Used
       /\ \A i \in Used \ {0} : Parent(i) # pos => Ordered(i)
       /\ \A i \in Used \ {0} : Parent(i) = pos /\ pos > 0
            => elements[Parent(pos)] <= elements[i]

\* heap_pop returns the least key in the heap: process_expired_timers relies
\* on it to wait no longer than until the first timer.
PopsLeast ==
  [][elem_num' < elem_num => \A k \in Keys : contents[k] > 0 => top' <= k]_vars

\* The array holds exactly what was pushed and not popped, throughout the
\* loops too: no element is lost or doubled by a swap.
Conserved ==
  \A k \in Keys : contents[k] = Cardinality({i \in Used : elements[i] = k})

============================================================================
