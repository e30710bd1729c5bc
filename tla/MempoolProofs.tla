--------------------------- MODULE MempoolProofs ---------------------------
(***************************************************************************)
(* Proofs about Mempool, for any finite set of slabs and any number of     *)
(* objects per slab up to 32767.                                           *)
(*                                                                         *)
(* The argument is in two layers. SlabOK says what a slab owes to the set  *)
(* of its objects that are handed out: its counters, and a free list that  *)
(* threads the others. PoolOK says it of every live slab and adds the      *)
(* pool's counters and lists. Each function of the source is then one      *)
(* lemma: it takes a pool that is OK for the objects handed out to one     *)
(* that is OK for those handed out after it.                               *)
(*                                                                         *)
(* What the run's invariants need beyond themselves is that last_free_idx  *)
(* never changes: a slab whose last_free_idx were -1 would go to the       *)
(* partial list with its last object freed.                                *)
(***************************************************************************)
EXTENDS Mempool, FiniteSetTheorems, TLAPS

SlabOK(b, taken) ==
  /\ b \in SlabType
  /\ b.last_free_idx = N - 1
  /\ b.used = Cardinality(taken)
  /\ b.free = N - b.used
  /\ \E pos \in [Idx -> 0 .. N] : Threads(pos, b, taken)

CountersOK(p, h) ==
  /\ p.slab_nums = Cardinality(Live(p))
  /\ p.total_objs = N * p.slab_nums
  /\ p.used_objs = Cardinality(h)
  /\ p.total_objs = p.used_objs + p.free_objs

PoolOK(p, h) ==
  /\ p \in PoolType
  /\ h \subseteq Objects
  /\ CountersOK(p, h)
  /\ \A o \in h : o[1] \in Live(p)
  /\ \A s \in Live(p) : SlabOK(p.slab[s], HeldIn(s, h))
  /\ ListsOf(p, h)

IInv ==
  /\ TypeOK
  /\ pool.exists => PoolOK(pool, held)
  /\ NoAssertFailure

OneEmptyInv == pool.exists => OneEmpty(pool)

----------------------------------------------------------------------------
(* Conversions between the widths, and finiteness.                         *)

\* A slab has at least one object, and as many as a short can number.
LEMMA PerSlab == N \in Nat /\ N >= 1 /\ N <= 32767
BY MempoolAssumption

\* -1 survives the unsigned short it is stored in, and so does every index.
LEMMA Widths ==
  /\ U16(-1) = 65535
  /\ S16(U16(-1)) = -1
  /\ \A i \in Idx : U16(i) = i /\ S16(i) = i /\ i # U16(-1)
<1>1. \A x \in Int : x + 1 = 0 => U16(x) = 65535  BY DEF U16
<1>2. -1 \in Int /\ -1 + 1 = 0  OBVIOUS
<1>3. U16(-1) = 65535  BY <1>1, <1>2
<1>4. S16(65535) = -1  BY DEF S16
<1>5. \A i \in Idx : U16(i) = i  BY PerSlab DEF U16, Idx
<1>6. \A i \in Idx : S16(i) = i  BY PerSlab DEF S16, Idx
<1>7. \A i \in Idx : i # U16(-1)  BY PerSlab, <1>3 DEF Idx
<1> QED  BY <1>3, <1>4, <1>5, <1>6, <1>7

\* Sets of indices and of objects are finite.
LEMMA Finite ==
  /\ IsFiniteSet(Idx) /\ Cardinality(Idx) = N
  /\ \A S : S \subseteq Idx => IsFiniteSet(S) /\ Cardinality(S) \in 0 .. N
  /\ \A S : S \subseteq Slabs => IsFiniteSet(S) /\ Cardinality(S) \in Nat
  /\ \A S : S \subseteq Objects => IsFiniteSet(S) /\ Cardinality(S) \in Nat
<1>1. IsFiniteSet(Idx) /\ Cardinality(Idx) = N
  BY FS_Interval, PerSlab DEF Idx
<1>2. ASSUME NEW S, S \subseteq Idx  PROVE IsFiniteSet(S) /\ Cardinality(S) \in 0 .. N
  <2>1. IsFiniteSet(S) /\ Cardinality(S) <= Cardinality(Idx)  BY <1>1, <1>2, FS_Subset
  <2>2. Cardinality(S) \in Nat  BY <2>1, FS_CardinalityType
  <2> QED  BY <1>1, <2>1, <2>2, PerSlab
<1>3. ASSUME NEW S, S \subseteq Slabs  PROVE IsFiniteSet(S) /\ Cardinality(S) \in Nat
  BY <1>3, FS_Subset, FS_CardinalityType, MempoolAssumption
<1>4. IsFiniteSet(Objects)  BY <1>1, FS_Product, MempoolAssumption DEF Objects
<1>5. ASSUME NEW S, S \subseteq Objects  PROVE IsFiniteSet(S) /\ Cardinality(S) \in Nat
  BY <1>4, <1>5, FS_Subset, FS_CardinalityType
<1> QED  BY <1>1, <1>2, <1>3, <1>5

----------------------------------------------------------------------------
(* One slab.                                                               *)

\* init_freelist makes a slab with all of its objects on the free list.
LEMMA NewSlabOK == SlabOK(NewSlab, {}) /\ NewSlab.free > 0 /\ NewSlab \in SlabType
<1> USE PerSlab
<1> DEFINE pos == [i \in Idx |-> N - i]
<1>1. NewSlab \in SlabType
  <2>1. \A i \in Idx : (IF i < N - 1 THEN i + 1 ELSE U16(-1)) \in Idx \cup {U16(-1)}
    BY DEF Idx
  <2> QED  BY <2>1 DEF NewSlab, SlabType, Idx
<1>2. Cardinality({}) = 0  BY FS_EmptySet
<1>3. pos \in [Idx -> 0 .. N]  BY DEF Idx
<1>4. Threads(pos, NewSlab, {})
  BY Widths DEF Threads, NewSlab, Idx
<1>5. \E q \in [Idx -> 0 .. N] : Threads(q, NewSlab, {})
  <2> HIDE DEF pos
  <2> QED  BY <1>3, <1>4
<1>6. /\ NewSlab.free = N /\ NewSlab.used = 0 /\ NewSlab.last_free_idx = N - 1
  BY DEF NewSlab
<1> QED  BY <1>1, <1>2, <1>5, <1>6 DEF SlabOK

\* A slab with a free object has one at the head of its list.
LEMMA HeadIsFree ==
  ASSUME NEW b, NEW taken \in SUBSET Idx, SlabOK(b, taken)
  PROVE  IF b.free = 0 THEN b.free_idx = -1 ELSE b.free_idx \in Idx \ taken
<1>1. PICK pos \in [Idx -> 0 .. N] : Threads(pos, b, taken)  BY DEF SlabOK
<1> QED  BY <1>1 DEF Threads, SlabOK, SlabType

FreeLists == [Idx -> Idx \cup {U16(-1)}]

\* Both functions assign to four fields of a slab.
LEMMA SlabUpdate ==
  ASSUME NEW b \in SlabType, NEW c,
         c.free_idx \in -1 .. N - 1, c.freelist \in FreeLists,
         c.free \in 0 .. N, c.used \in 0 .. N,
         \/ c = [b EXCEPT !.free_idx = c.free_idx, !.freelist = c.freelist,
                          !.free = c.free, !.used = c.used]
         \/ c = [b EXCEPT !.freelist = c.freelist, !.free_idx = c.free_idx,
                          !.free = c.free, !.used = c.used]
  PROVE  c \in SlabType
BY DEF SlabType, FreeLists

\* One entry of freelist is assigned an index or the end of the list.
LEMMA FreelistUpdate ==
  ASSUME NEW b \in SlabType, NEW i \in Idx, NEW v \in Idx \cup {U16(-1)}
  PROVE  [b.freelist EXCEPT ![i] = v] \in FreeLists
BY DEF SlabType, FreeLists

\* The fields of the slab that alloc_obj_from_slab leaves behind.
LEMMA TakenSlabFields ==
  ASSUME NEW b \in SlabType
  PROVE  /\ taken_slab(b).free_idx = S16(b.freelist[b.free_idx])
         /\ taken_slab(b).free = b.free - 1
         /\ taken_slab(b).used = b.used + 1
         /\ taken_slab(b).last_free_idx = b.last_free_idx
         /\ taken_slab(b).freelist = [b.freelist EXCEPT ![b.free_idx] = U16(-1)]
BY DEF taken_slab, SlabType

\* It is a slab.
LEMMA TakenSlabType ==
  ASSUME NEW b \in SlabType, b.free_idx \in Idx, b.free > 0, b.used < N
  PROVE  taken_slab(b) \in SlabType
<1> DEFINE c == taken_slab(b)
<1>1. /\ c.free_idx = S16(b.freelist[b.free_idx]) /\ c.free = b.free - 1
      /\ c.used = b.used + 1 /\ c.last_free_idx = b.last_free_idx
      /\ c.freelist = [b.freelist EXCEPT ![b.free_idx] = U16(-1)]
  BY TakenSlabFields
<1>2. c = [b EXCEPT !.free_idx = c.free_idx, !.freelist = c.freelist,
                    !.free = c.free, !.used = c.used]
  BY <1>1 DEF taken_slab
<1>3. c.free \in 0 .. N /\ c.used \in 0 .. N  BY <1>1, PerSlab DEF SlabType
<1>4. b.freelist[b.free_idx] \in Idx \cup {U16(-1)}  BY DEF SlabType
<1>5. c.free_idx \in -1 .. N - 1  BY <1>1, <1>4, Widths, PerSlab DEF Idx
<1> HIDE DEF c
<1>6. c.freelist \in FreeLists  BY <1>1, FreelistUpdate
<1>7. c \in SlabType  BY <1>2, <1>3, <1>5, <1>6, SlabUpdate
<1> QED  BY <1>7 DEF c

\* Taking the head leaves a slab that threads what is left.
LEMMA TakenSlabOK ==
  ASSUME NEW b, NEW taken \in SUBSET Idx, SlabOK(b, taken), b.free > 0
  PROVE  SlabOK(taken_slab(b), taken \cup {b.free_idx})
<1> USE PerSlab
<1> DEFINE idx == b.free_idx
           c == taken_slab(b)
           nxt == b.freelist[idx]
<1>0. /\ b \in SlabType /\ b.free \in 1 .. N /\ b.used \in 0 .. N /\ b.free = N - b.used
      /\ b.last_free_idx = N - 1 /\ b.used = Cardinality(taken)
  BY DEF SlabOK, SlabType
<1>1. idx \in Idx \ taken  BY <1>0, HeadIsFree
<1>2. PICK pos \in [Idx -> 0 .. N] : Threads(pos, b, taken)  BY DEF SlabOK
<1> DEFINE npos == [pos EXCEPT ![idx] = 0]
<1>3. b.used < N  BY <1>0
<1>4. /\ c.free_idx = S16(nxt) /\ c.free = b.free - 1 /\ c.used = b.used + 1
      /\ c.last_free_idx = N - 1
      /\ c.freelist = [b.freelist EXCEPT ![idx] = U16(-1)]
  <2>1. b \in SlabType /\ b.last_free_idx = N - 1  BY <1>0
  <2> QED  BY <2>1, TakenSlabFields
<1>6. c \in SlabType
  <2>1. b \in SlabType /\ idx \in Idx  BY <1>0, <1>1
  <2> QED  BY <2>1, <1>3, TakenSlabType
<1>7. Cardinality(taken \cup {idx}) = Cardinality(taken) + 1
  BY <1>1, Finite, FS_AddElement
<1>8. npos \in [Idx -> 0 .. N]  BY <1>1
<1>9. Threads(npos, c, taken \cup {idx})
  <2>0. pos[idx] = b.free  BY <1>0, <1>2 DEF Threads
  <2>1. \A i \in Idx : npos[i] = 0 <=> i \in taken \cup {idx}  BY <1>2 DEF Threads
  <2>2. \A i, j \in Idx : npos[i] = npos[j] /\ npos[i] # 0 => i = j  BY <1>2 DEF Threads
  <2>3. IF c.free = 0 THEN c.free_idx = -1
        ELSE c.free_idx \in Idx /\ npos[c.free_idx] = c.free
    <3>1. CASE b.free = 1
      BY <3>1, <1>1, <1>2, <1>4, <2>0, Widths DEF Threads
    <3>2. CASE b.free > 1
      <4>1. nxt \in Idx /\ pos[nxt] = b.free - 1  BY <3>2, <1>1, <1>2, <2>0 DEF Threads
      <4>2. c.free_idx = nxt  BY <4>1, <1>4, Widths
      <4> QED  BY <4>1, <4>2, <3>2, <1>0, <1>4, <2>0
    <3> QED  BY <3>1, <3>2, <1>0
  <2>4. ASSUME NEW i \in Idx
        PROVE  /\ npos[i] <= c.free
               /\ npos[i] = 1 => c.freelist[i] = U16(-1)
               /\ npos[i] > 1 => c.freelist[i] \in Idx /\ npos[c.freelist[i]] = npos[i] - 1
    <3>1. CASE i = idx  BY <3>1, <1>0, <1>4
    <3>2. CASE i # idx
      <4>1. npos[i] = pos[i] /\ c.freelist[i] = b.freelist[i]
        BY <3>2, <1>0, <1>4 DEF SlabType
      <4>2. pos[i] <= b.free /\ pos[i] # b.free
        BY <3>2, <1>0, <1>1, <1>2, <2>0 DEF Threads
      <4>3. pos[i] \in 0 .. N  OBVIOUS
      <4>4. ASSUME pos[i] > 1  PROVE b.freelist[i] \in Idx /\ pos[b.freelist[i]] = pos[i] - 1 /\ b.freelist[i] # idx
        BY <4>4, <4>2, <4>3, <1>0, <1>2, <2>0 DEF Threads
      <4>5. pos[i] = 1 => b.freelist[i] = U16(-1)  BY <1>2 DEF Threads
      <4> QED  BY <4>1, <4>2, <4>3, <4>4, <4>5, <1>0, <1>4
    <3> QED  BY <3>1, <3>2
  <2> QED  BY <2>1, <2>2, <2>3, <2>4 DEF Threads
<1> HIDE DEF c, npos, idx, nxt
<1>10. \E q \in [Idx -> 0 .. N] : Threads(q, c, taken \cup {idx})  BY <1>8, <1>9
<1>11. SlabOK(c, taken \cup {idx})
  <2>1. c.used = Cardinality(taken \cup {idx})  BY <1>0, <1>4, <1>7
  <2>2. c.free = N - c.used  BY <1>0, <1>4
  <2>3. c.last_free_idx = N - 1  BY <1>4
  <2> QED  BY <1>6, <1>10, <2>1, <2>2, <2>3 DEF SlabOK
<1> QED  BY <1>11 DEF c, idx

\* The fields of the slab after free_obj2slab pushed an object.
LEMMA FreedSlabFields ==
  ASSUME NEW b \in SlabType, NEW i \in Idx
  PROVE  /\ freed_slab(b, i).free_idx = i
         /\ freed_slab(b, i).free = b.free + 1
         /\ freed_slab(b, i).used = b.used - 1
         /\ freed_slab(b, i).last_free_idx = b.last_free_idx
         /\ freed_slab(b, i).freelist = [b.freelist EXCEPT ![i] = U16(b.free_idx)]
BY DEF freed_slab, SlabType

\* It is a slab.
LEMMA FreedSlabType ==
  ASSUME NEW b \in SlabType, NEW i \in Idx, b.free < N, b.used > 0
  PROVE  freed_slab(b, i) \in SlabType
<1> DEFINE c == freed_slab(b, i)
<1>1. /\ c.free_idx = i /\ c.free = b.free + 1 /\ c.used = b.used - 1
      /\ c.last_free_idx = b.last_free_idx
      /\ c.freelist = [b.freelist EXCEPT ![i] = U16(b.free_idx)]
  BY FreedSlabFields
<1>2. c = [b EXCEPT !.freelist = c.freelist, !.free_idx = c.free_idx,
                    !.free = c.free, !.used = c.used]
  BY <1>1 DEF freed_slab
<1>3. c.free \in 0 .. N /\ c.used \in 0 .. N  BY <1>1, PerSlab DEF SlabType
<1>4. U16(b.free_idx) \in Idx \cup {U16(-1)}
  <2>1. b.free_idx = -1 \/ b.free_idx \in Idx  BY PerSlab DEF SlabType, Idx
  <2> QED  BY <2>1, Widths
<1>5. c.free_idx \in -1 .. N - 1  BY <1>1, PerSlab DEF Idx
<1> HIDE DEF c
<1>6. c.freelist \in FreeLists  BY <1>1, <1>4, FreelistUpdate
<1>7. c \in SlabType  BY <1>2, <1>3, <1>5, <1>6, SlabUpdate
<1> QED  BY <1>7 DEF c

\* free_obj2slab puts an object back at the head of the list.
LEMMA FreedSlabOK ==
  ASSUME NEW b, NEW taken \in SUBSET Idx, SlabOK(b, taken), NEW i \in taken
  PROVE  SlabOK(freed_slab(b, i), taken \ {i})
<1> USE PerSlab
<1> DEFINE c == freed_slab(b, i)
<1>0. /\ b \in SlabType /\ b.free = N - b.used
      /\ b.last_free_idx = N - 1 /\ b.used = Cardinality(taken)
  BY DEF SlabOK
<1>1. Cardinality(taken \ {i}) = Cardinality(taken) - 1
  BY Finite, FS_RemoveElement
<1>2. b.used \in 1 .. N /\ b.free \in 0 .. N - 1
  <2>1. Cardinality(taken \ {i}) \in 0 .. N /\ Cardinality(taken) \in 0 .. N  BY Finite
  <2> QED  BY <2>1, <1>0, <1>1
<1>3. PICK pos \in [Idx -> 0 .. N] : Threads(pos, b, taken)  BY DEF SlabOK
<1> DEFINE npos == [pos EXCEPT ![i] = b.free + 1]
<1>5. i \in Idx /\ b.free < N /\ b.used > 0  BY <1>2
<1>4. /\ c.free_idx = i /\ c.free = b.free + 1 /\ c.used = b.used - 1
      /\ c.last_free_idx = N - 1
      /\ c.freelist = [b.freelist EXCEPT ![i] = U16(b.free_idx)]
  BY <1>0, <1>5, FreedSlabFields
<1>6. c \in SlabType
  <2>1. b \in SlabType  BY <1>0
  <2> QED  BY <2>1, <1>5, FreedSlabType
<1>7. npos \in [Idx -> 0 .. N]  BY <1>2
<1>8. Threads(npos, c, taken \ {i})
  <2>0. pos[i] = 0  BY <1>3 DEF Threads
  <2>1. \A j \in Idx : npos[j] = 0 <=> j \in taken \ {i}  BY <1>2, <1>3 DEF Threads
  <2>2. \A j, k \in Idx : npos[j] = npos[k] /\ npos[j] # 0 => j = k
    BY <1>2, <1>3 DEF Threads
  <2>3. c.free # 0 /\ c.free_idx \in Idx /\ npos[c.free_idx] = c.free
    BY <1>2, <1>4
  <2>4. ASSUME NEW j \in Idx
        PROVE  /\ npos[j] <= c.free
               /\ npos[j] = 1 => c.freelist[j] = U16(-1)
               /\ npos[j] > 1 => c.freelist[j] \in Idx /\ npos[c.freelist[j]] = npos[j] - 1
    <3>1. CASE j = i
      <4>1. npos[j] = b.free + 1 /\ c.freelist[j] = U16(b.free_idx)
        BY <3>1, <1>0, <1>4 DEF SlabType
      <4>2. CASE b.free = 0
        BY <4>1, <4>2, <1>3, <1>4 DEF Threads
      <4>3. CASE b.free > 0
        <5>1. b.free_idx \in Idx \ taken /\ pos[b.free_idx] = b.free
          BY <4>3, <1>2, <1>3, HeadIsFree DEF Threads
        <5> QED  BY <4>1, <4>3, <5>1, <1>2, <1>4, Widths
      <4> QED  BY <4>2, <4>3, <1>2
    <3>2. CASE j # i
      <4>1. npos[j] = pos[j] /\ c.freelist[j] = b.freelist[j]
        BY <3>2, <1>0, <1>4 DEF SlabType
      <4>2. pos[j] <= b.free /\ pos[j] \in 0 .. N  BY <1>3 DEF Threads
      <4>3. ASSUME pos[j] > 1  PROVE b.freelist[j] \in Idx /\ pos[b.freelist[j]] = pos[j] - 1 /\ b.freelist[j] # i
        BY <4>3, <4>2, <1>3, <2>0 DEF Threads
      <4>4. pos[j] = 1 => b.freelist[j] = U16(-1)  BY <1>3 DEF Threads
      <4> QED  BY <4>1, <4>2, <4>3, <4>4, <1>2, <1>4
    <3> QED  BY <3>1, <3>2
  <2> QED  BY <2>1, <2>2, <2>3, <2>4 DEF Threads
<1> HIDE DEF c, npos
<1>9. \E q \in [Idx -> 0 .. N] : Threads(q, c, taken \ {i})  BY <1>7, <1>8
<1>10. SlabOK(c, taken \ {i})
  <2>1. c.used = Cardinality(taken \ {i})  BY <1>0, <1>1, <1>4
  <2>2. c.free = N - c.used  BY <1>0, <1>2, <1>4
  <2> QED  BY <1>4, <1>6, <1>9, <2>1, <2>2 DEF SlabOK
<1> QED  BY <1>10 DEF c

\* The comparisons with -1 in free_all_objs_one_slab are never true: an
\* unsigned short promoted to int is not negative. So mempool_destory runs
\* the destructor on no object.
LEMMA NothingInUse ==
  ASSUME NEW b \in SlabType, NEW i \in Idx  PROVE ~in_use(b, i)
<1>1. U16(b.free_idx) # -1  BY DEF U16, SlabType
<1>2. b.freelist[i] # -1
  <2>1. b.freelist[i] \in Idx \cup {U16(-1)}  BY DEF SlabType
  <2> QED  BY <2>1, Widths DEF Idx
<1> QED  BY <1>1, <1>2 DEF in_use

----------------------------------------------------------------------------
(* The operations on a pool: the fields they assign.                       *)

\* They assign at most to these fields of the pool.
LEMMA PoolUpdate ==
  ASSUME NEW p \in PoolType, NEW q,
         q = [p EXCEPT !.where = q.where, !.slab = q.slab, !.cur = q.cur,
                       !.slab_nums = q.slab_nums, !.total_objs = q.total_objs,
                       !.used_objs = q.used_objs, !.free_objs = q.free_objs],
         q.where \in [Slabs -> Lists \cup {"none"}], q.slab \in [Slabs -> SlabType],
         q.cur \in Slabs \cup {NULL}, q.slab_nums \in Nat, q.total_objs \in Nat,
         q.used_objs \in Nat, q.free_objs \in Nat
  PROVE  q \in PoolType
BY DEF PoolType

\* The new pool of mempool_create.
LEMMA NewPoolType ==
  /\ NewPool \in PoolType /\ Live(NewPool) = {}
  /\ [NewPool EXCEPT !.exists = FALSE] \in PoolType
  /\ [NewPool EXCEPT !.exists = FALSE].exists = FALSE
<1>1. NewSlab \in SlabType  BY NewSlabOK
<1> QED  BY <1>1 DEF NewPool, PoolType, Live

\* slab_alloc.
LEMMA SlabAllocFields ==
  ASSUME NEW p \in PoolType, NEW s \in Slabs
  PROVE  LET q == slab_alloc(p, s)
         IN  /\ q \in PoolType
             /\ q.exists = p.exists
             /\ q.where = [p.where EXCEPT ![s] = "empty"]
             /\ q.slab = [p.slab EXCEPT ![s] = NewSlab]
             /\ q.slab_nums = p.slab_nums + 1 /\ q.total_objs = p.total_objs + N
             /\ q.free_objs = p.free_objs + N /\ q.used_objs = p.used_objs
<1> DEFINE q == slab_alloc(p, s)
<1>1. /\ q.exists = p.exists /\ q.cur = s
      /\ q.where = [p.where EXCEPT ![s] = "empty"]
      /\ q.slab = [p.slab EXCEPT ![s] = NewSlab]
      /\ q.slab_nums = p.slab_nums + 1 /\ q.total_objs = p.total_objs + N
      /\ q.free_objs = p.free_objs + N /\ q.used_objs = p.used_objs
  BY DEF PoolType, slab_alloc
<1>2. q = [p EXCEPT !.where = q.where, !.slab = q.slab, !.cur = q.cur,
                    !.slab_nums = q.slab_nums, !.total_objs = q.total_objs,
                    !.used_objs = q.used_objs, !.free_objs = q.free_objs]
  BY <1>1 DEF PoolType, slab_alloc
<1>3. q.where \in [Slabs -> Lists \cup {"none"}]  BY <1>1 DEF PoolType, Lists
<1>4. q.slab \in [Slabs -> SlabType]  BY <1>1, NewSlabOK DEF PoolType
<1>5. /\ q.slab_nums \in Nat /\ q.total_objs \in Nat
      /\ q.free_objs \in Nat /\ q.used_objs \in Nat
  BY <1>1, PerSlab DEF PoolType
<1>6. q.cur \in Slabs \cup {NULL}  BY <1>1
<1> HIDE DEF q
<1>7. q \in PoolType  BY <1>2, <1>3, <1>4, <1>5, <1>6, PoolUpdate
<1> QED  BY <1>1, <1>7 DEF q

\* load_slab and find_slab.
LEMMA LoadedFields ==
  ASSUME NEW p \in PoolType, NEW s \in Slabs
  PROVE  LET q == loaded(p, s)
         IN  /\ q \in PoolType
             /\ q.exists = p.exists /\ q.where = p.where /\ q.slab = p.slab
             /\ q.slab_nums = p.slab_nums /\ q.total_objs = p.total_objs
             /\ q.free_objs = p.free_objs /\ q.used_objs = p.used_objs
BY DEF loaded, PoolType

\* alloc_obj_from_slab.
LEMMA AllocFields ==
  ASSUME NEW p \in PoolType, NEW s \in Slabs
  PROVE  LET q == alloc_obj_from_slab(p, s)
         IN  /\ q.exists = p.exists /\ q.cur = p.cur
             /\ q.where = [p.where EXCEPT ![s] = alloc_moves_to(p, s)]
             /\ q.slab = [p.slab EXCEPT ![s] = taken_slab(p.slab[s])]
             /\ q.slab_nums = p.slab_nums /\ q.total_objs = p.total_objs
             /\ q.free_objs = p.free_objs - 1 /\ q.used_objs = p.used_objs + 1
BY DEF PoolType, alloc_obj_from_slab

\* It leaves a pool.
LEMMA AllocType ==
  ASSUME NEW p \in PoolType, NEW s \in Slabs,
         taken_slab(p.slab[s]) \in SlabType, p.free_objs > 0
  PROVE  alloc_obj_from_slab(p, s) \in PoolType
<1> DEFINE q == alloc_obj_from_slab(p, s)
<1>1. /\ q.cur = p.cur /\ q.where = [p.where EXCEPT ![s] = alloc_moves_to(p, s)]
      /\ q.slab = [p.slab EXCEPT ![s] = taken_slab(p.slab[s])]
      /\ q.slab_nums = p.slab_nums /\ q.total_objs = p.total_objs
      /\ q.free_objs = p.free_objs - 1 /\ q.used_objs = p.used_objs + 1
  BY AllocFields
<1>2. q = [p EXCEPT !.where = q.where, !.slab = q.slab, !.cur = q.cur,
                    !.slab_nums = q.slab_nums, !.total_objs = q.total_objs,
                    !.used_objs = q.used_objs, !.free_objs = q.free_objs]
  BY <1>1 DEF PoolType, alloc_obj_from_slab
<1>3. q.where \in [Slabs -> Lists \cup {"none"}]
  BY <1>1 DEF PoolType, Lists, alloc_moves_to
<1>4. q.slab \in [Slabs -> SlabType]  BY <1>1 DEF PoolType
<1>5. /\ q.slab_nums \in Nat /\ q.total_objs \in Nat
      /\ q.free_objs \in Nat /\ q.used_objs \in Nat
  BY <1>1 DEF PoolType
<1>6. q.cur \in Slabs \cup {NULL}  BY <1>1 DEF PoolType
<1> HIDE DEF q
<1>7. q \in PoolType  BY <1>2, <1>3, <1>4, <1>5, <1>6, PoolUpdate
<1> QED  BY <1>7 DEF q

\* free_one_slab, after the push of the last object of the slab: nothing of
\* the slab counts as in use.
LEMMA GiveBackFields ==
  ASSUME NEW p \in PoolType, NEW s \in Slabs, NEW i \in Idx,
         gives_slab_back(p, s), freed_slab(p.slab[s], i) \in SlabType
  PROVE  LET q == free_obj2slab(p, s, i)
         IN  /\ q.exists = p.exists /\ q.cur = p.cur
             /\ q.where = [p.where EXCEPT ![s] = "none"]
             /\ q.slab = [p.slab EXCEPT ![s] = NewSlab]
             /\ q.slab_nums = p.slab_nums - 1 /\ q.total_objs = p.total_objs - N
             /\ q.free_objs = p.free_objs - N + 1 /\ q.used_objs = p.used_objs - 1
             /\ (/\ p.slab_nums > 0 /\ p.total_objs >= N
                 /\ p.free_objs + 1 >= N /\ p.used_objs > 0) => q \in PoolType
<1> DEFINE b == freed_slab(p.slab[s], i)
           p1 == [p EXCEPT !.slab[s] = b]
           p2 == free_one_slab(p1, s)
<1>1. /\ p1 \in PoolType /\ p1.slab = [p.slab EXCEPT ![s] = b]
      /\ p1.exists = p.exists /\ p1.cur = p.cur /\ p1.where = p.where
      /\ p1.slab_nums = p.slab_nums /\ p1.total_objs = p.total_objs
      /\ p1.free_objs = p.free_objs /\ p1.used_objs = p.used_objs
  <2> HIDE DEF b
  <2>1. b \in SlabType  BY DEF b
  <2> QED  BY <2>1 DEF PoolType
<1> HIDE DEF p1, b
<1>2. p1.slab[s] \in SlabType  BY <1>1 DEF PoolType
<1>3. {j \in Idx : in_use(p1.slab[s], j)} = {}  BY <1>2, NothingInUse
<1>4. Cardinality({j \in Idx : in_use(p1.slab[s], j)}) = 0  BY <1>3, FS_EmptySet
<1>5. p1.used_objs \in Nat /\ p1.free_objs \in Nat  BY <1>1 DEF PoolType
<1>6. /\ p2.exists = p1.exists /\ p2.cur = p1.cur
      /\ p2.where = [p1.where EXCEPT ![s] = "none"]
      /\ p2.slab = [p1.slab EXCEPT ![s] = NewSlab]
      /\ p2.slab_nums = p1.slab_nums - 1 /\ p2.total_objs = p1.total_objs - N
      /\ p2.free_objs = p1.free_objs - N /\ p2.used_objs = p1.used_objs
  BY <1>1, <1>4, <1>5, PerSlab DEF PoolType, free_one_slab
<1>7. free_obj2slab(p, s, i) = [p2 EXCEPT !.free_objs = @ + 1, !.used_objs = @ - 1]
  BY DEF free_obj2slab, p1, b
<1>8. DOMAIN p2 = {"exists", "where", "slab", "cur", "slab_nums", "total_objs",
                  "used_objs", "free_objs"}
  BY <1>1 DEF free_one_slab, PoolType
<1>9. p1.slab = [p.slab EXCEPT ![s] = b] /\ [p1.slab EXCEPT ![s] = NewSlab] = [p.slab EXCEPT ![s] = NewSlab]
  BY <1>1 DEF PoolType
<1>12. p2 = [p1 EXCEPT !.where = p2.where, !.slab = p2.slab, !.cur = p2.cur,
                       !.slab_nums = p2.slab_nums, !.total_objs = p2.total_objs,
                       !.used_objs = p2.used_objs, !.free_objs = p2.free_objs]
  BY <1>1, <1>6 DEF free_one_slab, PoolType
<1> HIDE DEF p2
<1> DEFINE q == [p2 EXCEPT !.free_objs = p2.free_objs + 1, !.used_objs = p2.used_objs - 1]
<1>10. /\ q.exists = p2.exists /\ q.cur = p2.cur /\ q.where = p2.where
       /\ q.slab = p2.slab /\ q.slab_nums = p2.slab_nums
       /\ q.total_objs = p2.total_objs /\ q.free_objs = p2.free_objs + 1
       /\ q.used_objs = p2.used_objs - 1
  BY <1>8
<1>11. free_obj2slab(p, s, i) = q  BY <1>7
<1>13. q = [p1 EXCEPT !.where = q.where, !.slab = q.slab, !.cur = q.cur,
                      !.slab_nums = q.slab_nums, !.total_objs = q.total_objs,
                      !.used_objs = q.used_objs, !.free_objs = q.free_objs]
  BY <1>1, <1>10, <1>12 DEF PoolType
<1> HIDE DEF q
<1>14. ASSUME p.slab_nums > 0, p.total_objs >= N, p.free_objs + 1 >= N, p.used_objs > 0
       PROVE  q \in PoolType
  <2>1. q.where \in [Slabs -> Lists \cup {"none"}]
    BY <1>1, <1>6, <1>10 DEF PoolType, Lists
  <2>2. q.slab \in [Slabs -> SlabType]  BY <1>1, <1>6, <1>10, NewSlabOK DEF PoolType
  <2>3. /\ q.slab_nums \in Nat /\ q.total_objs \in Nat
        /\ q.free_objs \in Nat /\ q.used_objs \in Nat
    BY <1>1, <1>6, <1>10, <1>14, PerSlab DEF PoolType
  <2>4. q.cur \in Slabs \cup {NULL}  BY <1>1, <1>6, <1>10 DEF PoolType
  <2> QED  BY <1>1, <1>13, <2>1, <2>2, <2>3, <2>4, PoolUpdate
<1> QED  BY <1>1, <1>6, <1>9, <1>10, <1>11, <1>14

\* free_obj2slab of a slab that is kept: without objects in use it moves to
\* the empty list, otherwise it stays where it is.
LEMMA KeepFields ==
  ASSUME NEW p \in PoolType, NEW s \in Slabs, NEW i \in Idx,
         ~gives_slab_back(p, s), freed_slab(p.slab[s], i) \in SlabType,
         freed_slab(p.slab[s], i).last_free_idx # -1
  PROVE  LET q == free_obj2slab(p, s, i)
             list == IF freed_slab(p.slab[s], i).used = 0 THEN "empty" ELSE p.where[s]
         IN  /\ q.exists = p.exists /\ q.cur = p.cur
             /\ q.where = [p.where EXCEPT ![s] = list]
             /\ q.slab = [p.slab EXCEPT ![s] = freed_slab(p.slab[s], i)]
             /\ q.slab_nums = p.slab_nums /\ q.total_objs = p.total_objs
             /\ q.free_objs = p.free_objs + 1 /\ q.used_objs = p.used_objs - 1
             /\ p.used_objs > 0 => q \in PoolType
<1> DEFINE b == freed_slab(p.slab[s], i)
           p1 == [p EXCEPT !.slab[s] = b]
           list == IF b.used = 0 THEN "empty" ELSE p.where[s]
           p2 == IF b.used = 0 THEN [p1 EXCEPT !.where[s] = "empty"] ELSE p1
           q == [p2 EXCEPT !.free_objs = p2.free_objs + 1, !.used_objs = p2.used_objs - 1]
<1>1. free_obj2slab(p, s, i) = q  BY DEF free_obj2slab
<1>2. b \in SlabType  OBVIOUS
<1> HIDE DEF b
<1>3. /\ p1 \in PoolType /\ p1.slab = [p.slab EXCEPT ![s] = b]
      /\ p1.exists = p.exists /\ p1.cur = p.cur /\ p1.where = p.where
      /\ p1.slab_nums = p.slab_nums /\ p1.total_objs = p.total_objs
      /\ p1.free_objs = p.free_objs /\ p1.used_objs = p.used_objs
  BY <1>2 DEF PoolType
<1> HIDE DEF p1
<1>4. /\ p2 \in PoolType /\ p2.slab = p1.slab
      /\ p2.exists = p1.exists /\ p2.cur = p1.cur
      /\ p2.where = [p1.where EXCEPT ![s] = list]
      /\ p2.slab_nums = p1.slab_nums /\ p2.total_objs = p1.total_objs
      /\ p2.free_objs = p1.free_objs /\ p2.used_objs = p1.used_objs
  BY <1>3 DEF PoolType, Lists
<1> HIDE DEF p2, list
<1>5. /\ q.exists = p2.exists /\ q.cur = p2.cur /\ q.where = p2.where
      /\ q.slab = p2.slab /\ q.slab_nums = p2.slab_nums
      /\ q.total_objs = p2.total_objs /\ q.free_objs = p2.free_objs + 1
      /\ q.used_objs = p2.used_objs - 1
  BY <1>4 DEF PoolType
<1>6. ASSUME p2.used_objs > 0  PROVE q \in PoolType
  <2>1. p2.free_objs + 1 \in Nat /\ p2.used_objs - 1 \in Nat  BY <1>4, <1>6 DEF PoolType
  <2>2. \A f, u \in Nat : [p2 EXCEPT !.free_objs = f, !.used_objs = u] \in PoolType
    BY <1>4 DEF PoolType
  <2> QED  BY <2>1, <2>2
<1> HIDE DEF q
<1> QED  BY <1>1, <1>3, <1>4, <1>5, <1>6 DEF b, list

----------------------------------------------------------------------------
(* The operations on a pool: what they preserve.                           *)

\* Handing out an object changes HeldIn of its slab only.
LEMMA HeldInAlloc ==
  ASSUME NEW h, NEW s \in Slabs, NEW i \in Idx, NEW g, g = h \cup {<<s, i>>}
  PROVE  /\ HeldIn(s, g) = HeldIn(s, h) \cup {i}
         /\ \A t \in Slabs \ {s} : HeldIn(t, g) = HeldIn(t, h)
BY DEF HeldIn

\* So does taking one back.
LEMMA HeldInFree ==
  ASSUME NEW h, NEW s \in Slabs, NEW i \in Idx, NEW g, g = h \ {<<s, i>>}
  PROVE  /\ HeldIn(s, g) = HeldIn(s, h) \ {i}
         /\ \A t \in Slabs \ {s} : HeldIn(t, g) = HeldIn(t, h)
BY DEF HeldIn

\* A set of slabs has N objects for each of its slabs.
LEMMA ObjectsOfSlabs ==
  ASSUME NEW S \in SUBSET Slabs, NEW g \in SUBSET (S \X Idx)
  PROVE  Cardinality(g) <= N * Cardinality(S)
<1>1. IsFiniteSet(S) /\ IsFiniteSet(Idx) /\ Cardinality(Idx) = N /\ Cardinality(S) \in Nat
  BY Finite
<1>2. IsFiniteSet(S \X Idx) /\ Cardinality(S \X Idx) = Cardinality(S) * Cardinality(Idx)
  BY <1>1, FS_Product
<1>3. Cardinality(g) <= Cardinality(S \X Idx)  BY <1>2, FS_Subset
<1>4. Cardinality(S) * N = N * Cardinality(S)  BY <1>1, PerSlab
<1> QED  BY <1>1, <1>2, <1>3, <1>4

\* A pool without slabs owes nothing.
LEMMA EmptyPoolOK == PoolOK(NewPool, {})
<1>1. NewPool \in PoolType /\ Live(NewPool) = {}  BY NewPoolType
<1>2. /\ NewPool.slab_nums = 0 /\ NewPool.total_objs = 0
      /\ NewPool.used_objs = 0 /\ NewPool.free_objs = 0
  BY DEF NewPool
<1>3. CountersOK(NewPool, {})  BY <1>1, <1>2, FS_EmptySet, PerSlab DEF CountersOK
<1> QED  BY <1>1, <1>3 DEF PoolOK, ListsOf

\* load_slab only moves the pointer cur.
LEMMA LoadedOK ==
  ASSUME NEW p, NEW h, PoolOK(p, h), NEW s \in Slabs  PROVE PoolOK(loaded(p, s), h)
<1> DEFINE q == loaded(p, s)
<1>1. p \in PoolType  BY DEF PoolOK
<1>2. /\ q \in PoolType /\ q.where = p.where /\ q.slab = p.slab
      /\ q.slab_nums = p.slab_nums /\ q.total_objs = p.total_objs
      /\ q.free_objs = p.free_objs /\ q.used_objs = p.used_objs
  BY <1>1, LoadedFields
<1> HIDE DEF q
<1>3. Live(q) = Live(p)  BY <1>2 DEF Live
<1>4. CountersOK(q, h)  BY <1>2, <1>3 DEF PoolOK, CountersOK
<1>5. ListsOf(q, h)  BY <1>2, <1>3 DEF PoolOK, ListsOf
<1>6. PoolOK(q, h)  BY <1>2, <1>3, <1>4, <1>5 DEF PoolOK
<1> QED  BY <1>6 DEF q

\* slab_alloc adds a slab none of whose objects is handed out.
LEMMA SlabAllocOK ==
  ASSUME NEW p, NEW h, PoolOK(p, h), NEW s \in Slabs \ Live(p)
  PROVE  /\ PoolOK(slab_alloc(p, s), h)
         /\ s \in Live(slab_alloc(p, s)) /\ slab_alloc(p, s).slab[s].free > 0
<1> DEFINE q == slab_alloc(p, s)
<1>1. p \in PoolType /\ h \subseteq Objects  BY DEF PoolOK
<1>2. /\ q \in PoolType
      /\ q.where = [p.where EXCEPT ![s] = "empty"]
      /\ q.slab = [p.slab EXCEPT ![s] = NewSlab]
      /\ q.slab_nums = p.slab_nums + 1 /\ q.total_objs = p.total_objs + N
      /\ q.free_objs = p.free_objs + N /\ q.used_objs = p.used_objs
  BY <1>1, SlabAllocFields
<1> HIDE DEF q
<1>3. Live(q) = Live(p) \cup {s} /\ s \notin Live(p)  BY <1>1, <1>2 DEF Live, PoolType
<1>4. Cardinality(Live(q)) = Cardinality(Live(p)) + 1
  <2>1. IsFiniteSet(Live(p))  BY Finite DEF Live
  <2> QED  BY <1>3, <2>1, FS_AddElement
<1>5. CountersOK(q, h)
  BY <1>1, <1>2, <1>4, PerSlab DEF PoolOK, CountersOK, PoolType
<1>6. \A o \in h : o[1] \in Live(q)  BY <1>3 DEF PoolOK
<1>7. HeldIn(s, h) = {}
  <2>1. ASSUME NEW i \in Idx, <<s, i>> \in h  PROVE FALSE
    <3>1. <<s, i>>[1] \in Live(p)  BY <2>1 DEF PoolOK
    <3> QED  BY <3>1
  <2> QED  BY <2>1 DEF HeldIn
<1>8. ASSUME NEW t \in Live(q)  PROVE SlabOK(q.slab[t], HeldIn(t, h))
  <2>1. CASE t = s
    <3>1. q.slab[t] = NewSlab  BY <1>1, <1>2, <2>1 DEF PoolType
    <3> QED  BY <1>7, <2>1, <3>1, NewSlabOK
  <2>2. CASE t # s
    <3>1. t \in Live(p) /\ q.slab[t] = p.slab[t]
      BY <1>1, <1>2, <1>3, <2>2 DEF PoolType, Live
    <3> QED  BY <3>1 DEF PoolOK
  <2> QED  BY <2>1, <2>2
<1>9. ListsOf(q, h)
  BY <1>1, <1>2, <1>3, <1>7 DEF PoolOK, ListsOf, PoolType, Live
<1>10. PoolOK(q, h)  BY <1>1, <1>2, <1>5, <1>6, <1>8, <1>9 DEF PoolOK
<1>11. q.slab[s].free > 0  BY <1>1, <1>2, NewSlabOK DEF PoolType
<1> QED  BY <1>3, <1>10, <1>11 DEF q

\* alloc_obj_from_slab hands out an object that was free.
LEMMA AllocOK ==
  ASSUME NEW p, NEW h, PoolOK(p, h), NEW s \in Live(p), p.slab[s].free > 0
  PROVE  LET o == <<s, p.slab[s].free_idx>>
         IN  /\ p.slab[s].free_idx \in Idx /\ o \in Objects /\ o \notin h
             /\ PoolOK(alloc_obj_from_slab(p, s), h \cup {o})
<1> DEFINE q == alloc_obj_from_slab(p, s)
           b == p.slab[s]
           idx == b.free_idx
           o == <<s, idx>>
           g == h \cup {o}
<1>1. /\ p \in PoolType /\ h \subseteq Objects /\ s \in Slabs
      /\ SlabOK(b, HeldIn(s, h)) /\ HeldIn(s, h) \in SUBSET Idx
  BY DEF PoolOK, Live, HeldIn
<1>2. b \in SlabType /\ b.free = N - b.used  BY <1>1 DEF SlabOK
<1>3. b.free > 0 /\ b.free # 0 /\ b.used < N  BY <1>2, PerSlab DEF SlabType
<1>4. idx \in Idx \ HeldIn(s, h)
  <2> HIDE DEF b
  <2> QED  BY <1>1, <1>3, HeadIsFree
<1>5. o \in Objects /\ o \notin h  BY <1>1, <1>4 DEF Objects, HeldIn
<1>6. taken_slab(b) \in SlabType
  <2> HIDE DEF b
  <2> QED  BY <1>2, <1>3, <1>4, TakenSlabType
<1>7. SlabOK(taken_slab(b), HeldIn(s, h) \cup {idx})
  <2> HIDE DEF b
  <2> QED  BY <1>1, <1>3, TakenSlabOK
<1>8. p.free_objs > 0
  <2>1. g \in SUBSET (Live(p) \X Idx)  BY <1>1, <1>4 DEF PoolOK, Objects
  <2>2. Cardinality(g) <= N * Cardinality(Live(p))
    <3>1. Live(p) \in SUBSET Slabs  BY DEF Live
    <3> QED  BY <2>1, <3>1, ObjectsOfSlabs
  <2>3. Cardinality(g) = Cardinality(h) + 1 /\ Cardinality(h) \in Nat
    BY <1>1, <1>5, Finite, FS_AddElement
  <2>4. /\ p.used_objs = Cardinality(h) /\ p.total_objs = p.used_objs + p.free_objs
        /\ p.total_objs = N * Cardinality(Live(p)) /\ p.total_objs \in Nat /\ p.free_objs \in Nat
    BY <1>1 DEF PoolOK, CountersOK, PoolType
  <2> QED  BY <2>2, <2>3, <2>4
<1>9. /\ q \in PoolType
      /\ q.where = [p.where EXCEPT ![s] = alloc_moves_to(p, s)]
      /\ q.slab = [p.slab EXCEPT ![s] = taken_slab(b)]
      /\ q.slab_nums = p.slab_nums /\ q.total_objs = p.total_objs
      /\ q.free_objs = p.free_objs - 1 /\ q.used_objs = p.used_objs + 1
  BY <1>1, <1>6, <1>8, AllocType, AllocFields
<1>10. /\ HeldIn(s, g) = HeldIn(s, h) \cup {idx}
       /\ \A t \in Slabs \ {s} : HeldIn(t, g) = HeldIn(t, h)
  <2>1. s \in Slabs /\ idx \in Idx  BY <1>1, <1>4
  <2>2. g = h \cup {<<s, idx>>}  OBVIOUS
  <2> HIDE DEF b, idx, g
  <2> QED  BY <2>1, <2>2, HeldInAlloc
<1>11. alloc_moves_to(p, s) \in {"partial", "full"}
  <2>1. p.where[s] \in Lists  BY <1>1 DEF PoolType, Live
  <2>2. p.where[s] = "empty" <=> HeldIn(s, h) = {}  BY DEF PoolOK, ListsOf
  <2>3. HeldIn(s, h) = {} => b.used + 1 = 1  BY <1>1, FS_EmptySet DEF SlabOK
  <2> QED  BY <2>1, <2>2, <2>3 DEF alloc_moves_to, Lists
<1> HIDE DEF q
<1>12. Live(q) = Live(p)  BY <1>1, <1>9, <1>11 DEF Live, PoolType
<1>13. CountersOK(q, g)
  <2>1. Cardinality(g) = Cardinality(h) + 1
    BY <1>1, <1>5, Finite, FS_AddElement
  <2> HIDE DEF g
  <2> QED  BY <1>1, <1>9, <1>12, <2>1 DEF PoolOK, CountersOK, PoolType
<1>14. \A x \in g : x[1] \in Live(q)  BY <1>12 DEF PoolOK
<1>15. ASSUME NEW t \in Live(q)  PROVE SlabOK(q.slab[t], HeldIn(t, g))
  <2> HIDE DEF g, b, idx
  <2>1. CASE t = s
    <3>1. q.slab[t] = taken_slab(b)  BY <1>1, <1>9, <2>1 DEF PoolType
    <3> QED  BY <1>7, <1>10, <2>1, <3>1
  <2>2. CASE t # s
    <3>1. t \in Live(p) /\ t \in Slabs /\ q.slab[t] = p.slab[t]
      BY <1>1, <1>9, <1>12, <2>2 DEF PoolType, Live
    <3> QED  BY <1>10, <2>2, <3>1 DEF PoolOK
  <2> QED  BY <2>1, <2>2
<1>16. ListsOf(q, g)
  <2> HIDE DEF g, b, idx
  <2> SUFFICES ASSUME NEW t \in Live(q)
               PROVE  q.where[t] = "empty" <=> HeldIn(t, g) = {}
    BY DEF ListsOf
  <2>1. CASE t = s
    BY <1>1, <1>9, <1>10, <1>11, <2>1 DEF PoolType
  <2>2. CASE t # s
    <3>1. t \in Live(p) /\ t \in Slabs /\ q.where[t] = p.where[t]
      BY <1>1, <1>9, <1>12, <2>2 DEF PoolType, Live
    <3> QED  BY <1>10, <2>2, <3>1 DEF PoolOK, ListsOf
  <2> QED  BY <2>1, <2>2
<1>17. g \subseteq Objects  BY <1>1, <1>5
<1>18. PoolOK(q, g)
  <2> HIDE DEF g
  <2> QED  BY <1>9, <1>13, <1>14, <1>15, <1>16, <1>17 DEF PoolOK
<1> QED  BY <1>4, <1>5, <1>18 DEF q

\* A slab that has an object handed out is found by find_obj_slab.
LEMMA Findable ==
  ASSUME NEW p, NEW h, PoolOK(p, h), NEW o \in h  PROVE find_obj_slab(p, o) = {o[1]}
<1> DEFINE s == o[1]
<1>1. /\ p \in PoolType /\ o \in Objects /\ s \in Live(p) /\ s \in Slabs
      /\ SlabOK(p.slab[s], HeldIn(s, h))
  BY DEF PoolOK, Objects
<1>2. o[2] \in HeldIn(s, h)  BY <1>1 DEF HeldIn, Objects
<1>3. p.where[s] \in {"partial", "full"}
  BY <1>1, <1>2 DEF PoolOK, ListsOf, PoolType, Live, Lists
<1>4. p.slab[s].used > 0
  <2>1. HeldIn(s, h) \subseteq Idx  BY DEF HeldIn
  <2>2. IsFiniteSet(HeldIn(s, h)) /\ Cardinality(HeldIn(s, h)) \in 0 .. N  BY <2>1, Finite
  <2>3. Cardinality(HeldIn(s, h)) # 0  BY <1>2, <2>2, FS_EmptySet
  <2> QED  BY <1>1, <2>2, <2>3 DEF SlabOK
<1>5. p.used_objs # 0
  <2>1. IsFiniteSet(h) /\ Cardinality(h) # 0  BY Finite, FS_EmptySet DEF PoolOK
  <2> QED  BY <2>1 DEF PoolOK, CountersOK
<1> QED  BY <1>1, <1>3, <1>4, <1>5 DEF find_obj_slab, On

\* free_obj2slab takes an object back, and with it perhaps its slab.
LEMMA FreeOK ==
  ASSUME NEW p, NEW h, PoolOK(p, h), NEW s \in Slabs, NEW i \in Idx, <<s, i>> \in h
  PROVE  PoolOK(free_obj2slab(p, s, i), h \ {<<s, i>>})
<1> DEFINE q == free_obj2slab(p, s, i)
           b == p.slab[s]
           c == freed_slab(b, i)
           g == h \ {<<s, i>>}
<1>1. /\ p \in PoolType /\ h \subseteq Objects /\ s \in Live(p)
      /\ SlabOK(b, HeldIn(s, h)) /\ HeldIn(s, h) \in SUBSET Idx /\ i \in HeldIn(s, h)
  <2>1. <<s, i>>[1] \in Live(p)  BY DEF PoolOK
  <2> QED  BY <2>1 DEF PoolOK, HeldIn
<1>2. SlabOK(c, HeldIn(s, h) \ {i})
  <2> HIDE DEF b
  <2> QED  BY <1>1, FreedSlabOK
<1>3. /\ HeldIn(s, g) = HeldIn(s, h) \ {i}
      /\ \A t \in Slabs \ {s} : HeldIn(t, g) = HeldIn(t, h)
  <2>1. g = h \ {<<s, i>>}  OBVIOUS
  <2> HIDE DEF g
  <2> QED  BY <2>1, HeldInFree
<1>4. c \in SlabType /\ c.last_free_idx # -1 /\ b \in SlabType
  <2> HIDE DEF b, c
  <2> QED  BY <1>1, <1>2, PerSlab DEF SlabOK
<1>5. c.used = b.used - 1  BY <1>4, FreedSlabFields
<1>6. /\ Cardinality(g) = Cardinality(h) - 1 /\ Cardinality(g) \in Nat
      /\ Cardinality(h) \in Nat
  <2>1. IsFiniteSet(h) /\ g \subseteq Objects  BY <1>1, Finite
  <2> QED  BY <1>1, <2>1, Finite, FS_RemoveElement
<1>7. /\ p.used_objs = Cardinality(h) /\ p.total_objs = p.used_objs + p.free_objs
      /\ p.total_objs = N * p.slab_nums /\ p.slab_nums = Cardinality(Live(p))
      /\ p.used_objs \in Nat /\ p.free_objs \in Nat /\ p.slab_nums \in Nat
  BY <1>1 DEF PoolOK, CountersOK, PoolType
<1>8. p.used_objs > 0  BY <1>6, <1>7
<1>9. g \subseteq Objects /\ \A o \in g : o[1] \in Live(p)  BY <1>1 DEF PoolOK
<1>10. CASE ~gives_slab_back(p, s)
  <2> DEFINE list == IF c.used = 0 THEN "empty" ELSE p.where[s]
  <2>1. /\ q.where = [p.where EXCEPT ![s] = list]
        /\ q.slab = [p.slab EXCEPT ![s] = c]
        /\ q.slab_nums = p.slab_nums /\ q.total_objs = p.total_objs
        /\ q.free_objs = p.free_objs + 1 /\ q.used_objs = p.used_objs - 1
        /\ q \in PoolType
    BY <1>1, <1>4, <1>8, <1>10, KeepFields
  <2> HIDE DEF q, c, b
  <2>2. c.used = 0 <=> HeldIn(s, g) = {}
    <3>1. IsFiniteSet(HeldIn(s, g)) /\ c.used = Cardinality(HeldIn(s, g))
      <4>1. HeldIn(s, g) \subseteq Idx  BY DEF HeldIn
      <4> QED  BY <1>2, <1>3, <4>1, Finite DEF SlabOK
    <3> QED  BY <3>1, FS_EmptySet
  <2>3. p.where[s] \in {"partial", "full"}
    BY <1>1 DEF PoolOK, ListsOf, PoolType, Live, Lists
  <2>4. Live(q) = Live(p)  BY <1>1, <2>1, <2>3 DEF Live, PoolType
  <2>5. CountersOK(q, g)  BY <1>6, <1>7, <2>1, <2>4 DEF CountersOK
  <2>6. ASSUME NEW t \in Live(q)
        PROVE  SlabOK(q.slab[t], HeldIn(t, g)) /\ (q.where[t] = "empty" <=> HeldIn(t, g) = {})
    <3> HIDE DEF g
    <3>1. CASE t = s
      <4>1. q.slab[t] = c /\ q.where[t] = list  BY <1>1, <2>1, <3>1 DEF PoolType
      <4> QED  BY <1>2, <1>3, <2>2, <2>3, <3>1, <4>1
    <3>2. CASE t # s
      <4>1. t \in Live(p) /\ t \in Slabs /\ q.slab[t] = p.slab[t] /\ q.where[t] = p.where[t]
        BY <1>1, <2>1, <2>4, <3>2 DEF PoolType, Live
      <4> QED  BY <1>3, <3>2, <4>1 DEF PoolOK, ListsOf
    <3> QED  BY <3>1, <3>2
  <2>7. ListsOf(q, g)  BY <2>6 DEF ListsOf
  <2>8. PoolOK(q, g)
    <3> HIDE DEF g
    <3> QED  BY <1>9, <2>1, <2>4, <2>5, <2>6, <2>7 DEF PoolOK
  <2> QED  BY <2>8 DEF q
<1>11. CASE gives_slab_back(p, s)
  <2>1. HeldIn(s, g) = {}
    <3>1. c.used = 0  BY <1>4, <1>5, <1>11 DEF gives_slab_back, SlabType
    <3>2. HeldIn(s, g) \subseteq Idx  BY DEF HeldIn
    <3>3. IsFiniteSet(HeldIn(s, g)) /\ c.used = Cardinality(HeldIn(s, g))
      <4> HIDE DEF b, c
      <4> QED  BY <1>2, <1>3, <3>2, Finite DEF SlabOK
    <3> QED  BY <3>1, <3>3, FS_EmptySet
  <2>2. \A o \in g : o[1] \in Live(p) \ {s}
    <3> SUFFICES ASSUME NEW o \in g, o[1] = s  PROVE FALSE  BY <1>9
    <3>1. o = <<s, o[2]>> /\ o[2] \in Idx  BY <1>9 DEF Objects
    <3> QED  BY <2>1, <3>1 DEF HeldIn
  <2>3. /\ Cardinality(Live(p) \ {s}) = Cardinality(Live(p)) - 1
        /\ Cardinality(Live(p) \ {s}) \in Nat
    <3>1. IsFiniteSet(Live(p)) /\ Live(p) \ {s} \subseteq Slabs  BY Finite DEF Live
    <3> QED  BY <1>1, <3>1, Finite, FS_RemoveElement
  <2>4. Cardinality(g) <= N * Cardinality(Live(p) \ {s})
    <3>1. Live(p) \ {s} \in SUBSET Slabs  BY DEF Live
    <3>2. g \in SUBSET ((Live(p) \ {s}) \X Idx)  BY <1>9, <2>2 DEF Objects
    <3> HIDE DEF g
    <3> QED  BY <3>1, <3>2, ObjectsOfSlabs
  <2>5. N * (p.slab_nums - 1) = p.total_objs - N  BY <1>7, PerSlab
  <2>6. p.slab_nums > 0 /\ p.total_objs >= N /\ p.free_objs + 1 >= N
    BY <1>6, <1>7, <2>3, <2>4, <2>5, PerSlab
  <2>7. /\ q.where = [p.where EXCEPT ![s] = "none"]
        /\ q.slab = [p.slab EXCEPT ![s] = NewSlab]
        /\ q.slab_nums = p.slab_nums - 1 /\ q.total_objs = p.total_objs - N
        /\ q.free_objs = p.free_objs - N + 1 /\ q.used_objs = p.used_objs - 1
        /\ q \in PoolType
    BY <1>1, <1>4, <1>8, <1>11, <2>6, GiveBackFields
  <2> HIDE DEF q, c, b
  <2>8. Live(q) = Live(p) \ {s}  BY <1>1, <2>7 DEF Live, PoolType
  <2>9. CountersOK(q, g)  BY <1>6, <1>7, <2>3, <2>5, <2>7, <2>8, PerSlab DEF CountersOK
  <2>10. ASSUME NEW t \in Live(q)
         PROVE  SlabOK(q.slab[t], HeldIn(t, g)) /\ (q.where[t] = "empty" <=> HeldIn(t, g) = {})
    <3> HIDE DEF g
    <3>1. /\ t \in Live(p) /\ t \in Slabs \ {s}
          /\ q.slab[t] = p.slab[t] /\ q.where[t] = p.where[t]
      BY <1>1, <2>7, <2>8 DEF PoolType, Live
    <3> QED  BY <1>3, <3>1 DEF PoolOK, ListsOf
  <2>11. ListsOf(q, g)  BY <2>10 DEF ListsOf
  <2>12. PoolOK(q, g)
    <3> HIDE DEF g
    <3> QED  BY <1>9, <2>2, <2>7, <2>8, <2>9, <2>10, <2>11 DEF PoolOK
  <2> QED  BY <2>12 DEF q
<1> QED  BY <1>10, <1>11

----------------------------------------------------------------------------
(* The calls of the API, and the theorems.                                 *)

\* Initially the invariant holds.
LEMMA InitIInv == Init => IInv
BY NewPoolType, FS_EmptySet DEF Init, IInv, TypeOK, NoAssertFailure

\* mempool_create makes a pool that is OK with nothing handed out.
LEMMA CreateIInv == IInv /\ mempool_create => IInv'
BY NewPoolType, EmptyPoolOK DEF mempool_create, IInv, TypeOK, NoAssertFailure

\* The rest of mempool_alloc, when it has a slab with a free object: the
\* assertion holds, and the object was not handed out.
LEMMA TakeOK ==
  ASSUME TypeOK, NoAssertFailure, NEW p, PoolOK(p, held),
         NEW s \in Live(p), p.slab[s].free > 0, TakeObject(p, s), UNCHANGED destructed
  PROVE  IInv' /\ ret' \notin held
<1> DEFINE o == <<s, p.slab[s].free_idx>>
<1>1. /\ p.slab[s].free_idx \in Idx /\ o \in Objects /\ o \notin held
      /\ PoolOK(alloc_obj_from_slab(p, s), held \cup {o})
  BY AllocOK
<1>2. p.slab[s].free_idx # -1  BY <1>1 DEF Idx
<1>3. /\ pool' = alloc_obj_from_slab(p, s) /\ held' = held \cup {o}
      /\ ret' = o /\ fault' = fault
  BY <1>2 DEF TakeObject
<1> HIDE DEF o
<1>4. PoolOK(pool', held')  BY <1>1, <1>3
<1>5. TypeOK'  BY <1>1, <1>3, <1>4 DEF TypeOK, PoolOK
<1> QED  BY <1>1, <1>3, <1>4, <1>5 DEF IInv, NoAssertFailure

\* mempool_alloc with a new slab.
LEMMA AllocNewSlabIInv ==
  ASSUME IInv, AllocNewSlab  PROVE IInv' /\ (ret' \in Objects => ret' \notin held)
<1>1. TypeOK /\ NoAssertFailure /\ PoolOK(pool, held)  BY DEF IInv, AllocNewSlab
<1>2. CASE ReturnNull
  BY <1>1, <1>2, NullAssumption
  DEF IInv, AllocNewSlab, ReturnNull, TypeOK, NoAssertFailure, Objects, Idx
<1>3. ASSUME NEW s \in Slabs \ Live(pool), TakeObject(slab_alloc(pool, s), s)
      PROVE  IInv' /\ ret' \notin held
  <2> DEFINE p == slab_alloc(pool, s)
  <2>1. PoolOK(p, held) /\ s \in Live(p) /\ p.slab[s].free > 0
    BY <1>1, SlabAllocOK
  <2>2. TakeObject(p, s) /\ UNCHANGED destructed  BY <1>3 DEF AllocNewSlab
  <2> HIDE DEF p
  <2> QED  BY <1>1, <2>1, <2>2, TakeOK
<1> QED  BY <1>2, <1>3 DEF AllocNewSlab

\* mempool_alloc from a slab that find_slab returns: it has a free object.
LEMMA AllocFromSlabIInv ==
  ASSUME IInv, AllocFromSlab  PROVE IInv' /\ (ret' \in Objects => ret' \notin held)
<1>1. TypeOK /\ NoAssertFailure /\ PoolOK(pool, held)  BY DEF IInv, AllocFromSlab
<1>2. CASE ReturnNull
  BY <1>1, <1>2, NullAssumption
  DEF IInv, AllocFromSlab, ReturnNull, TypeOK, NoAssertFailure, Objects, Idx
<1>3. ASSUME NEW s \in find_slab(pool), TakeObject(loaded(pool, s), s)
      PROVE  IInv' /\ ret' \notin held
  <2> DEFINE p == loaded(pool, s)
  <2>1. pool \in PoolType  BY <1>1 DEF TypeOK
  <2>2. s \in Live(pool) /\ s \in Slabs /\ pool.slab[s].free > 0
    <3>1. CASE s \in load_slab(pool)
      BY <3>1 DEF load_slab, On, Live
    <3>2. CASE s \notin load_slab(pool)
      <4>1. s = pool.cur /\ pool.cur # NULL /\ pool.slab[pool.cur].free # 0
        BY <1>3, <3>2 DEF find_slab
      <4>2. s \in Live(pool) /\ s \in Slabs  BY <4>1 DEF AllocFromSlab, Live
      <4>3. pool.slab[s] \in SlabType  BY <2>1, <4>2 DEF PoolType
      <4> QED  BY <4>1, <4>2, <4>3 DEF SlabType
    <3> QED  BY <3>1, <3>2
  <2>3. PoolOK(p, held)  BY <1>1, <2>2, LoadedOK
  <2>4. p.slab = pool.slab /\ p.where = pool.where  BY <2>1, <2>2, LoadedFields
  <2>5. TakeObject(p, s) /\ UNCHANGED destructed  BY <1>3 DEF AllocFromSlab
  <2> HIDE DEF p
  <2>6. s \in Live(p) /\ p.slab[s].free > 0  BY <2>2, <2>4 DEF Live
  <2> QED  BY <1>1, <2>3, <2>5, <2>6, TakeOK
<1> QED  BY <1>2, <1>3 DEF AllocFromSlab

\* mempool_free.
LEMMA FreeIInv ==
  ASSUME IInv, NEW o \in Objects, mempool_free(o)  PROVE IInv' /\ ret' = NoRet
<1>1. TypeOK /\ NoAssertFailure /\ PoolOK(pool, held) /\ o \in held
  BY DEF IInv, mempool_free
<1>2. PICK s \in Slabs, i \in Idx : o = <<s, i>>  BY DEF Objects
<1>3. pool' = free_obj2slab(pool, s, i) /\ held' = held \ {<<s, i>>}
  <2>1. find_obj_slab(pool, o) # {}  BY <1>1, Findable
  <2> QED  BY <1>2, <2>1 DEF mempool_free
<1>4. PoolOK(pool', held')  BY <1>1, <1>2, <1>3, FreeOK
<1>5. TypeOK'  BY <1>1, <1>4 DEF TypeOK, PoolOK, mempool_free
<1> QED  BY <1>1, <1>4, <1>5 DEF IInv, NoAssertFailure, mempool_free

\* mempool_destory leaves no pool.
LEMMA DestroyIInv ==
  ASSUME IInv, mempool_destory  PROVE IInv' /\ ret' = NoRet
BY NewPoolType DEF IInv, mempool_destory, TypeOK, NoAssertFailure

\* Reading freed memory ends the run without changing what is modelled.
LEMMA FaultIInv ==
  ASSUME IInv, AllocDanglingCur \/ \E o \in Objects : FreeReadsFreedSlab(o)
  PROVE  IInv' /\ ret' = NoRet
BY DEF IInv, AllocDanglingCur, FreeReadsFreedSlab, TypeOK, NoAssertFailure

\* NoRet is not an object.
LEMMA NoRetIsNoObject == NoRet \notin Objects
<1> SUFFICES ASSUME NEW s \in Slabs, NEW i \in Idx, <<>> = <<s, i>>  PROVE FALSE
  BY DEF NoRet, Objects
<1> QED  OBVIOUS

\* Every step keeps the invariant, and what it hands out was not handed out.
LEMMA StepIInv ==
  ASSUME IInv, [Next]_vars
  PROVE  IInv' /\ [ret' \in Objects => ret' \notin held]_vars
<1>1. CASE mempool_create
  BY <1>1, CreateIInv, NoRetIsNoObject DEF mempool_create
<1>2. CASE AllocNewSlab  BY <1>2, AllocNewSlabIInv
<1>3. CASE AllocFromSlab  BY <1>3, AllocFromSlabIInv
<1>4. CASE AllocDanglingCur  BY <1>4, FaultIInv, NoRetIsNoObject
<1>5. ASSUME NEW o \in Objects, mempool_free(o) \/ FreeReadsFreedSlab(o)
      PROVE  IInv' /\ (ret' \in Objects => ret' \notin held)
  BY <1>5, FreeIInv, FaultIInv, NoRetIsNoObject
<1>6. CASE mempool_destory  BY <1>6, DestroyIInv, NoRetIsNoObject
<1>7. CASE UNCHANGED vars
  BY <1>7 DEF vars, IInv, TypeOK, NoAssertFailure
<1> QED  BY <1>1, <1>2, <1>3, <1>4, <1>5, <1>6, <1>7 DEF Next

\* mempool_alloc puts no slab on the empty list that it leaves there.
LEMMA AllocKeepsOneEmpty ==
  ASSUME NEW p \in PoolType, NEW s \in Slabs, OneEmpty(p) \/ p.slab[s].used = 0,
         \A t, u \in On(p, "empty") \ {s} : t = u
  PROVE  OneEmpty(alloc_obj_from_slab(p, s))
<1> PICK w : w = alloc_moves_to(p, s)  OBVIOUS
<1>1. /\ alloc_obj_from_slab(p, s).where = [p.where EXCEPT ![s] = w]
      /\ p.where \in [Slabs -> Lists \cup {"none"}]
  BY AllocFields DEF PoolType
<1>2. w = "empty" => OneEmpty(p) /\ p.where[s] = "empty"
  BY DEF alloc_moves_to, PoolType, SlabType
<1> QED  BY <1>1, <1>2 DEF OneEmpty, On

\* free_obj2slab keeps a slab without objects in use only if there is none.
LEMMA FreeKeepsOneEmpty ==
  ASSUME NEW p, NEW h, PoolOK(p, h), NEW s \in Slabs, NEW i \in Idx, <<s, i>> \in h,
         OneEmpty(p)
  PROVE  OneEmpty(free_obj2slab(p, s, i))
<1>1. /\ p \in PoolType /\ p.slab[s] \in SlabType /\ s \in Live(p)
      /\ SlabOK(p.slab[s], HeldIn(s, h)) /\ HeldIn(s, h) \in SUBSET Idx /\ i \in HeldIn(s, h)
  <2>1. <<s, i>>[1] \in Live(p)  BY DEF PoolOK
  <2> QED  BY <2>1 DEF PoolOK, HeldIn, PoolType
<1> DEFINE c == freed_slab(p.slab[s], i)
<1>2. SlabOK(c, HeldIn(s, h) \ {i})  BY <1>1, FreedSlabOK
<1>3. c \in SlabType /\ c.last_free_idx # -1 /\ c.used = p.slab[s].used - 1
  <2>1. c.used = p.slab[s].used - 1  BY <1>1, FreedSlabFields
  <2> HIDE DEF c
  <2> QED  BY <1>2, <2>1, PerSlab DEF SlabOK
<1>4. p.where \in [Slabs -> Lists \cup {"none"}]  BY <1>1 DEF PoolType
<1>5. CASE gives_slab_back(p, s)
  <2>1. free_obj2slab(p, s, i).where = [p.where EXCEPT ![s] = "none"]
    BY <1>1, <1>3, <1>5, GiveBackFields
  <2> QED  BY <1>4, <2>1 DEF OneEmpty, On
<1>6. CASE ~gives_slab_back(p, s)
  <2> DEFINE w == IF c.used = 0 THEN "empty" ELSE p.where[s]
  <2>1. free_obj2slab(p, s, i).where = [p.where EXCEPT ![s] = w]
    BY <1>1, <1>3, <1>6, KeepFields
  <2>2. c.used = 0 => On(p, "empty") = {}
    <3>1. p.slab[s].used \in Int  BY <1>1 DEF SlabType
    <3> HIDE DEF c
    <3> QED  BY <1>3, <1>6, <3>1 DEF gives_slab_back
  <2> HIDE DEF c
  <2> QED  BY <1>4, <2>1, <2>2 DEF OneEmpty, On
<1> QED  BY <1>5, <1>6

\* Every step leaves at most one slab on the empty list.
LEMMA StepOneEmpty ==
  ASSUME IInv, OneEmptyInv, [Next]_vars  PROVE OneEmptyInv'
<1>1. CASE mempool_create
  BY <1>1 DEF mempool_create, OneEmptyInv, OneEmpty, On, NewPool
<1>2. CASE AllocNewSlab
  <2>1. PoolOK(pool, held) /\ pool \in PoolType /\ OneEmpty(pool)
    BY <1>2 DEF AllocNewSlab, IInv, PoolOK, OneEmptyInv
  <2>2. CASE ReturnNull  BY <2>1, <2>2 DEF ReturnNull, OneEmptyInv
  <2>3. ASSUME NEW s \in Slabs \ Live(pool), TakeObject(slab_alloc(pool, s), s)
        PROVE  OneEmptyInv'
    <3> PICK p : p = slab_alloc(pool, s)  OBVIOUS
    <3>1. /\ p \in PoolType /\ p.where = [pool.where EXCEPT ![s] = "empty"]
          /\ p.slab = [pool.slab EXCEPT ![s] = NewSlab]
      BY <2>1, SlabAllocFields
    <3>2. p.slab[s].used = 0  BY <2>1, <3>1 DEF PoolType, NewSlab
    <3>3. \A t, u \in On(p, "empty") \ {s} : t = u
      BY <2>1, <3>1 DEF OneEmpty, On, PoolType
    <3>4. pool' = alloc_obj_from_slab(p, s) \/ pool' = pool
      BY <2>3 DEF TakeObject
    <3> QED  BY <2>1, <3>1, <3>2, <3>3, <3>4, AllocKeepsOneEmpty DEF OneEmptyInv
  <2> QED  BY <1>2, <2>2, <2>3 DEF AllocNewSlab
<1>3. CASE AllocFromSlab
  <2>1. pool \in PoolType /\ OneEmpty(pool)
    BY <1>3 DEF AllocFromSlab, IInv, TypeOK, OneEmptyInv
  <2>2. CASE ReturnNull  BY <2>1, <2>2 DEF ReturnNull, OneEmptyInv
  <2>3. ASSUME NEW s \in find_slab(pool), TakeObject(loaded(pool, s), s)
        PROVE  OneEmptyInv'
    <3> PICK p : p = loaded(pool, s)  OBVIOUS
    <3>1. s \in Slabs
      BY <1>3, <2>1, <2>3 DEF find_slab, load_slab, On, AllocFromSlab, Live, PoolType
    <3>2. p \in PoolType /\ p.where = pool.where  BY <2>1, <3>1, LoadedFields
    <3>3. OneEmpty(p)  BY <2>1, <3>2 DEF OneEmpty, On
    <3>4. pool' = alloc_obj_from_slab(p, s) \/ pool' = pool
      BY <2>3 DEF TakeObject
    <3>5. \A t, u \in On(p, "empty") \ {s} : t = u  BY <3>3 DEF OneEmpty
    <3> QED  BY <2>1, <3>1, <3>2, <3>3, <3>4, <3>5, AllocKeepsOneEmpty DEF OneEmptyInv
  <2> QED  BY <1>3, <2>2, <2>3 DEF AllocFromSlab
<1>4. CASE AllocDanglingCur  BY <1>4 DEF AllocDanglingCur, OneEmptyInv
<1>5. ASSUME NEW o \in Objects, mempool_free(o)  PROVE OneEmptyInv'
  <2>1. PoolOK(pool, held) /\ o \in held /\ OneEmpty(pool)
    BY <1>5 DEF mempool_free, IInv, OneEmptyInv
  <2>2. PICK s \in Slabs, i \in Idx : o = <<s, i>>  BY DEF Objects
  <2>3. pool' = free_obj2slab(pool, s, i) \/ pool' = pool
    BY <1>5, <2>2 DEF mempool_free
  <2> QED  BY <2>1, <2>2, <2>3, FreeKeepsOneEmpty DEF OneEmptyInv
<1>6. ASSUME NEW o \in Objects, FreeReadsFreedSlab(o)  PROVE OneEmptyInv'
  BY <1>6 DEF FreeReadsFreedSlab, OneEmptyInv
<1>7. CASE mempool_destory
  BY <1>7, NewPoolType DEF mempool_destory, OneEmptyInv
<1>8. CASE UNCHANGED vars  BY <1>8 DEF vars, OneEmptyInv
<1> QED  BY <1>1, <1>2, <1>3, <1>4, <1>5, <1>6, <1>7, <1>8 DEF Next

\* In every reachable state a pool owes what PoolOK says.
THEOREM Invariance == Spec => []IInv
<1>1. IInv /\ [Next]_vars => IInv'  BY StepIInv
<1> QED  BY InitIInv, <1>1, PTL DEF Spec

\* Every field keeps its type: the -1 that freelist stores as 65535 never
\* turns up in free_idx.
THEOREM TypeCorrect == Spec => []TypeOK
<1>1. IInv => TypeOK  BY DEF IInv
<1> QED  BY Invariance, <1>1, PTL

\* The seven counters agree with the objects handed out, and at most one slab
\* is kept without any.
THEOREM CountersAgree == Spec => []Accounting
<1>1. IInv /\ OneEmptyInv => Accounting
  <2> SUFFICES ASSUME PoolOK(pool, held)  PROVE AccountingOf(pool, held)
    BY DEF IInv, OneEmptyInv, Accounting
  <2>1. CountersOK(pool, held) /\ \A o \in held : o[1] \in Live(pool)  BY DEF PoolOK
  <2>2. \A s \in Live(pool) : /\ pool.slab[s].used = Cardinality(HeldIn(s, held))
                              /\ pool.slab[s].free = N - pool.slab[s].used
    BY DEF PoolOK, SlabOK
  <2> QED  BY <2>1, <2>2 DEF AccountingOf, CountersOK
<1>2. Init => OneEmptyInv  BY NewPoolType DEF Init, OneEmptyInv
<1>3. IInv /\ OneEmptyInv /\ [Next]_vars => OneEmptyInv'  BY StepOneEmpty
<1> QED  BY Invariance, <1>1, <1>2, <1>3, PTL DEF Spec

\* The free list of every slab threads exactly its free objects.
THEOREM FreeListsThread == Spec => []FreeListWellFormed
<1>1. IInv => FreeListWellFormed  BY DEF IInv, FreeListWellFormed, PoolOK, SlabOK
<1> QED  BY Invariance, <1>1, PTL

\* Every object handed out is found when it is freed.
THEOREM AllFindable == Spec => []HeldObjectsFindable
<1>1. IInv => HeldObjectsFindable
  <2> SUFFICES ASSUME PoolOK(pool, held)
               PROVE  ListsOf(pool, held) /\ \A o \in held : find_obj_slab(pool, o) # {}
    BY DEF IInv, HeldObjectsFindable
  <2> QED  BY Findable DEF PoolOK
<1> QED  BY Invariance, <1>1, PTL

\* The assertion in alloc_obj_from_slab never fails.
THEOREM AssertHolds == Spec => []NoAssertFailure
<1>1. IInv => NoAssertFailure  BY DEF IInv
<1> QED  BY Invariance, <1>1, PTL

\* mempool_alloc hands out no object that is still handed out.
THEOREM AllocIsFresh == Spec => NoDoubleAlloc
<1>1. IInv /\ [Next]_vars => [ret' \in Objects => ret' \notin held]_vars
  BY StepIInv
<1> QED  BY Invariance, <1>1, PTL DEF Spec, NoDoubleAlloc

\* mempool_destory is written to run the destructor on the objects in use.
\* It runs it on none, whatever the program holds: no unsigned short is -1.
NoneDestructed == destructed = {}

\* No call of mempool_destory runs the destructor.
THEOREM NothingDestructed == Spec => []NoneDestructed
<1> USE DEF NoneDestructed
<1>1. Init => NoneDestructed  BY DEF Init
<1>2. IInv /\ NoneDestructed /\ [Next]_vars => NoneDestructed'
  <2> SUFFICES ASSUME IInv, destructed = {}, [Next]_vars  PROVE destructed' = {}
    OBVIOUS
  <2>1. CASE mempool_destory
    <3>1. \A s \in Slabs : pool.slab[s] \in SlabType  BY DEF IInv, TypeOK, PoolType
    <3>2. \A o \in Objects : o[1] \in Slabs /\ o[2] \in Idx  BY DEF Objects
    <3>3. \A o \in Objects : ~in_use(pool.slab[o[1]], o[2])  BY <3>1, <3>2, NothingInUse
    <3> QED  BY <2>1, <3>3 DEF mempool_destory
  <2>2. CASE ~mempool_destory
    BY <2>2 DEF Next, mempool_create, AllocNewSlab, AllocFromSlab, AllocDanglingCur,
                mempool_free, FreeReadsFreedSlab, vars
  <2> QED  BY <2>1, <2>2
<1> HIDE DEF NoneDestructed
<1> QED  BY Invariance, <1>1, <1>2, PTL DEF Spec
============================================================================
