------------------------------ MODULE Mempool ------------------------------
(***************************************************************************)
(* The slab allocator of src/memory/mempool.c: one pool of equally sized   *)
(* objects, carved out of slabs that each hold N objects.                  *)
(*                                                                         *)
(* A slab threads its free objects through the array freelist: free_idx is *)
(* the first free object, freelist[i] the one after i, -1 ends the list.   *)
(* The fields keep their C widths: freelist_idx_t is an unsigned short,    *)
(* free_idx and last_free_idx are shorts, so -1 is stored in freelist as   *)
(* 65535 and turns back into -1 only when it is assigned to a short.       *)
(*                                                                         *)
(* Abstracted: addresses (an object is the pair <<slab, index>>), the      *)
(* order of the three slab lists (load_slab takes the first slab of a list *)
(* that has room, the model some slab of it that has room), the mempool    *)
(* registry, and the contents of the objects.                              *)
(***************************************************************************)
EXTENDS Integers, FiniteSets

CONSTANTS
  Slabs,   \* the slabs the C allocator can hand out (bounds live slabs)
  N,       \* num_per_slab
  NULL     \* the null pointer

ASSUME MempoolAssumption ==
  /\ IsFiniteSet(Slabs)
  /\ NULL \notin Slabs
  /\ N \in 1 .. 32767

\* NULL is the address of no object.
ASSUME NullAssumption == NULL \notin Slabs \X (0 .. N - 1)

VARIABLES
  pool,       \* struct mempool with its slabs_info, and every struct slab
  held,       \* the objects the program got and has not given back
  destructed, \* the objects mempool_destory ran the destructor on
  ret,        \* what the last mempool_alloc returned, if it was the last call
  fault       \* where execution left the C language or hit an assertion

vars == <<pool, held, destructed, ret, fault>>

Idx == 0 .. N - 1
Objects == Slabs \X Idx
Lists == {"partial", "full", "empty"}
NoRet == <<>>   \* the last call was not mempool_alloc

U16(x) == x % 65536
S16(x) == IF x % 65536 >= 32768 THEN (x % 65536) - 65536 ELSE x % 65536

----------------------------------------------------------------------------
(* Slabs. A definition whose name starts with Bad is a slip a change of the *)
(* next definition could make; no specification uses it.                   *)

\* init_freelist without its last line: calloc left 0 there.
BadNewSlab ==
  [free_idx      |-> 0,
   last_free_idx |-> N - 1,
   used          |-> 0,
   free          |-> N,
   freelist      |-> [i \in Idx |-> IF i < N - 1 THEN i + 1 ELSE 0]]

\* init_freelist chains 0, 1, ..., N-1; slab_alloc fills in the rest.
NewSlab ==
  [free_idx      |-> 0,
   last_free_idx |-> N - 1,
   used          |-> 0,
   free          |-> N,
   freelist      |-> [i \in Idx |-> IF i < N - 1 THEN i + 1 ELSE U16(-1)]]

\* init_slabs_info. where[s] is the list slab s is linked on; "none" is
\* memory that belongs to no slab. Its contents are never read, NewSlab
\* stands for them.
NewPool ==
  [exists     |-> TRUE,
   where      |-> [s \in Slabs |-> "none"],
   slab       |-> [s \in Slabs |-> NewSlab],
   cur        |-> NULL,
   slab_nums  |-> 0,
   total_objs |-> 0,
   used_objs  |-> 0,
   free_objs  |-> 0]

Live(p) == {s \in Slabs : p.where[s] # "none"}
On(p, list) == {s \in Slabs : p.where[s] = list}

\* slab_alloc, when both malloc calls succeed.
slab_alloc(p, s) ==
  [p EXCEPT !.where[s] = "empty", !.slab[s] = NewSlab, !.cur = s,
            !.slab_nums = @ + 1, !.free_objs = @ + N, !.total_objs = @ + N]

\* load_slab: partial slabs with room first, then empty ones. The empty set
\* is its NULL.
load_slab(p) ==
  LET room(list) == {s \in On(p, list) : p.slab[s].free > 0}
  IN  IF room("partial") # {} THEN room("partial") ELSE room("empty")

\* find_slab that does not look at cur->free.
BadFindSlab(p) == IF p.cur = NULL THEN load_slab(p) ELSE {p.cur}

\* find_slab: the slabs it may return; it dereferences cur when it is set.
find_slab(p) ==
  IF p.cur = NULL \/ p.slab[p.cur].free = 0 THEN load_slab(p) ELSE {p.cur}

\* load_slab leaves the slab it returns in cur; otherwise find_slab returns
\* cur itself.
loaded(p, s) == [p EXCEPT !.cur = s]

\* alloc_obj_from_slab with free_idx declared like freelist_idx_t.
BadAllocUnsigned(p, s) ==
  LET idx  == p.slab[s].free_idx
      list == IF p.slab[s].used = 0 THEN "partial"
              ELSE IF idx = p.slab[s].last_free_idx THEN "full" ELSE p.where[s]
  IN  [p EXCEPT !.slab[s].free_idx      = p.slab[s].freelist[idx],
                !.slab[s].freelist[idx] = U16(-1),
                !.slab[s].free          = @ - 1,
                !.slab[s].used          = @ + 1,
                !.where[s]  = list,
                !.free_objs = @ - 1,
                !.used_objs = @ + 1]

\* alloc_obj_from_slab that leaves a slab on the empty list until it is full.
BadAllocNoPartial(p, s) ==
  LET idx == p.slab[s].free_idx
  IN  [p EXCEPT !.slab[s].free_idx      = S16(p.slab[s].freelist[idx]),
                !.slab[s].freelist[idx] = U16(-1),
                !.slab[s].free          = @ - 1,
                !.slab[s].used          = @ + 1,
                !.where[s]  = IF idx = p.slab[s].last_free_idx THEN "full" ELSE @,
                !.free_objs = @ - 1,
                !.used_objs = @ + 1]

\* alloc_obj_from_slab takes the head of the free list.
taken_slab(b) ==
  [b EXCEPT !.free_idx = S16(b.freelist[b.free_idx]),
            !.freelist[b.free_idx] = U16(-1),
            !.free = @ - 1, !.used = @ + 1]

\* Taking the object last_free_idx moves the slab to the full list (the
\* source compares last_free_idx with -1 there where it means to assign it),
\* the first object in use moves it to the partial list.
alloc_moves_to(p, s) ==
  LET b == p.slab[s]
  IN  IF b.used + 1 = 1 THEN "partial"
      ELSE IF b.free_idx = b.last_free_idx THEN "full" ELSE p.where[s]

alloc_obj_from_slab(p, s) ==
  [p EXCEPT !.slab[s]   = taken_slab(@),
            !.where[s]  = alloc_moves_to(p, s),
            !.free_objs = @ - 1,
            !.used_objs = @ + 1]

\* The test with -1 converted to the type of freelist, but with free_idx and
\* last_free_idx as they are: the end of the free list counts as in use.
BadInUse(b, i) ==
  \/ b.free_idx = -1
  \/ b.freelist[i] = U16(-1) /\ i # b.last_free_idx

\* The test of free_all_objs_one_slab for "object i is in use". All its
\* operands are unsigned shorts that C promotes to int before it compares
\* them with -1.
in_use(b, i) ==
  \/ U16(b.free_idx) = -1
  \/ b.freelist[i] = -1 /\ i # U16(b.last_free_idx)

\* free_one_slab with free_all_objs_one_slab.
free_one_slab(p, s) ==
  LET dead == Cardinality({i \in Idx : in_use(p.slab[s], i)})
  IN  [p EXCEPT !.where[s] = "none", !.slab[s] = NewSlab,
                !.used_objs  = @ - dead,
                !.free_objs  = @ - (N - dead),
                !.total_objs = @ - N,
                !.slab_nums  = @ - 1]

\* free_obj2slab with its two assignments swapped.
BadFreedSlab(b, i) ==
  [b EXCEPT !.freelist[i] = i, !.free_idx = i, !.free = @ + 1, !.used = @ - 1]

\* free_obj2slab pushes object i on the slab's free list. A slab without
\* objects in use is kept if it is the only such slab, freed otherwise.
freed_slab(b, i) ==
  [b EXCEPT !.freelist[i] = U16(b.free_idx), !.free_idx = i,
            !.free = @ + 1, !.used = @ - 1]

gives_slab_back(p, s) == p.slab[s].used = 1 /\ On(p, "empty") # {}

free_obj2slab(p, s, i) ==
  LET b  == freed_slab(p.slab[s], i)
      p1 == [p EXCEPT !.slab[s] = b]
      p2 == IF gives_slab_back(p, s) THEN free_one_slab(p1, s)
            ELSE IF b.last_free_idx = -1
            THEN [p1 EXCEPT !.slab[s].last_free_idx = i,
                            !.where[s] = "partial"]
            ELSE IF b.used = 0 THEN [p1 EXCEPT !.where[s] = "empty"]
            ELSE p1
  IN  [p2 EXCEPT !.free_objs = @ + 1, !.used_objs = @ - 1]

\* find_obj_slab searches the partial and the full list only.
find_obj_slab(p, o) ==
  {s \in On(p, "partial") \cup On(p, "full") :
     p.used_objs # 0 /\ p.slab[s].used > 0 /\ s = o[1]}

----------------------------------------------------------------------------
(* The calls of the API. After a fault nothing is known of the program, so *)
(* no action follows it.                                                   *)

Init ==
  /\ pool = [NewPool EXCEPT !.exists = FALSE]
  /\ held = {}
  /\ destructed = {}
  /\ ret = NoRet
  /\ fault = "none"

\* mempool_create: a pool of this name is made when there is none. Pointers
\* into an earlier pool of the name are gone with it.
mempool_create ==
  /\ fault = "none"
  /\ ~pool.exists
  /\ pool' = NewPool
  /\ held' = {}
  /\ destructed' = {}
  /\ ret' = NoRet
  /\ UNCHANGED fault

\* The part of mempool_alloc behind the label find_a_slab: take an object
\* of slab s of pool p, unless the assertion on its free_idx fails.
TakeObject(p, s) ==
  LET idx == p.slab[s].free_idx
  IN  \/ /\ idx # -1
         /\ pool' = alloc_obj_from_slab(p, s)
         /\ held' = held \cup {<<s, idx>>}
         /\ ret' = <<s, idx>>
         /\ UNCHANGED fault
      \/ /\ idx = -1
         /\ fault' = "assert"
         /\ ret' = NoRet
         /\ UNCHANGED <<pool, held>>

ReturnNull == ret' = NULL /\ UNCHANGED <<pool, held, fault>>

\* mempool_alloc with no free object: a new slab, or NULL when malloc fails.
AllocNewSlab ==
  /\ fault = "none" /\ pool.exists /\ pool.free_objs = 0
  /\ \/ \E s \in Slabs \ Live(pool) : TakeObject(slab_alloc(pool, s), s)
     \/ ReturnNull
  /\ UNCHANGED destructed

\* mempool_alloc with free objects: look for a slab that has one.
AllocFromSlab ==
  /\ fault = "none" /\ pool.exists /\ pool.free_objs # 0
  /\ pool.cur = NULL \/ pool.cur \in Live(pool)
  /\ \/ \E s \in find_slab(pool) : TakeObject(loaded(pool, s), s)
     \/ find_slab(pool) = {} /\ ReturnNull
  /\ UNCHANGED destructed

\* The same, when slabs->cur points to a slab that has been freed: find_slab
\* reads freed memory.
AllocDanglingCur ==
  /\ fault = "none" /\ pool.exists /\ pool.free_objs # 0
  /\ pool.cur # NULL /\ pool.cur \notin Live(pool)
  /\ fault' = "find_slab"
  /\ ret' = NoRet
  /\ UNCHANGED <<pool, held, destructed>>

\* mempool_free of an object the program holds; a slab that is not found
\* leaves the pool alone.
mempool_free(o) ==
  /\ fault = "none" /\ pool.exists /\ o \in held
  /\ pool' = IF find_obj_slab(pool, o) = {} THEN pool
             ELSE free_obj2slab(pool, o[1], o[2])
  /\ held' = held \ {o}
  /\ ret' = NoRet
  /\ UNCHANGED <<destructed, fault>>

\* After freeing the slab free_obj2slab reads last_free_idx from it. The old
\* value is still there (mempool_free above), or the process dies here.
FreeReadsFreedSlab(o) ==
  /\ fault = "none" /\ pool.exists /\ o \in held
  /\ find_obj_slab(pool, o) # {}
  /\ gives_slab_back(pool, o[1])
  /\ fault' = "free_obj2slab"
  /\ ret' = NoRet
  /\ UNCHANGED <<pool, held, destructed>>

\* mempool_destory: every slab is freed, its objects in use are destructed.
mempool_destory ==
  /\ fault = "none" /\ pool.exists
  /\ destructed' = {o \in Objects : /\ o[1] \in Live(pool)
                                    /\ in_use(pool.slab[o[1]], o[2])}
  /\ pool' = [NewPool EXCEPT !.exists = FALSE]
  /\ ret' = NoRet
  /\ UNCHANGED <<held, fault>>

Next ==
  \/ mempool_create
  \/ AllocNewSlab
  \/ AllocFromSlab
  \/ AllocDanglingCur
  \/ \E o \in Objects : mempool_free(o) \/ FreeReadsFreedSlab(o)
  \/ mempool_destory

Spec == Init /\ [][Next]_vars

----------------------------------------------------------------------------
(* Properties. The parameterised ones speak of a pool p and of the set h   *)
(* of its objects that are handed out.                                     *)

SlabType ==
  [free_idx : -1 .. N - 1, last_free_idx : -1 .. N - 1,
   used : 0 .. N, free : 0 .. N, freelist : [Idx -> Idx \cup {U16(-1)}]]

PoolType ==
  [exists : BOOLEAN, where : [Slabs -> Lists \cup {"none"}],
   slab : [Slabs -> SlabType], cur : Slabs \cup {NULL},
   slab_nums : Nat, total_objs : Nat, used_objs : Nat, free_objs : Nat]

TypeOK ==
  /\ pool \in PoolType
  /\ held \subseteq Objects
  /\ destructed \subseteq Objects
  /\ ret \in Objects \cup {NULL, NoRet}
  /\ fault \in {"none", "assert", "find_slab", "free_obj2slab"}

HeldIn(s, h) == {i \in Idx : <<s, i>> \in h}

\* The counters of slabs_info and of every slab agree with the objects that
\* are really handed out: alloc_obj_from_slab, free_obj2slab, slab_alloc and
\* free_one_slab update seven counters, on different paths. However many
\* slabs a burst of allocations took, the frees leave one without objects in
\* use.
AccountingOf(p, h) ==
  /\ p.slab_nums = Cardinality(Live(p))
  /\ p.total_objs = N * p.slab_nums
  /\ p.used_objs = Cardinality(h)
  /\ p.total_objs = p.used_objs + p.free_objs
  /\ \A o \in h : o[1] \in Live(p)
  /\ \A s \in Live(p) :
       /\ p.slab[s].used = Cardinality(HeldIn(s, h))
       /\ p.slab[s].free = N - p.slab[s].used

\* free_obj2slab keeps "only one empty slab".
OneEmpty(p) == \A s, t \in On(p, "empty") : s = t

Accounting == pool.exists => AccountingOf(pool, held) /\ OneEmpty(pool)

\* The free list of a slab threads exactly its free objects, each once. pos
\* numbers them from the end of the list: free_idx has position free, the
\* object at position 1 ends the list, and objects handed out have 0.
Threads(pos, b, taken) ==
  /\ \A i \in Idx : pos[i] = 0 <=> i \in taken
  /\ \A i, j \in Idx : pos[i] = pos[j] /\ pos[i] # 0 => i = j
  /\ IF b.free = 0 THEN b.free_idx = -1
     ELSE b.free_idx \in Idx /\ pos[b.free_idx] = b.free
  /\ \A i \in Idx :
       /\ pos[i] <= b.free
       /\ pos[i] = 1 => b.freelist[i] = U16(-1)
       /\ pos[i] > 1 => /\ b.freelist[i] \in Idx
                        /\ pos[b.freelist[i]] = pos[i] - 1

\* The free list stays a list of exactly the free objects through any
\* sequence of calls, with -1 stored in an unsigned short as its end.
FreeListWellFormed ==
  pool.exists =>
    \A s \in Live(pool) : \E pos \in [Idx -> 0 .. N] :
      Threads(pos, pool.slab[s], HeldIn(s, held))

\* A slab with objects in use is on the partial or the full list, so that
\* find_obj_slab finds it when one of them is freed, and a slab without
\* is on the empty list.
ListsOf(p, h) ==
  \A s \in Live(p) : p.where[s] = "empty" <=> HeldIn(s, h) = {}

HeldObjectsFindable ==
  pool.exists => ListsOf(pool, held) /\ \A o \in held : find_obj_slab(pool, o) # {}

\* The assertion in alloc_obj_from_slab holds: a slab that find_slab or
\* slab_alloc returns has a free object at the head of its list.
NoAssertFailure == fault # "assert"

\* mempool_alloc never hands out an object that is still handed out.
NoDoubleAlloc == [][ret' \in Objects => ret' \notin held]_vars

(* What comments of the source say and its code does not do.               *)

\* mempool_alloc fails only when "the mempool has no available objects" (its
\* comment) and no slab can be added.
AllocFailsOnlyWhenExhausted == ret = NULL => pool.free_objs = 0
============================================================================
