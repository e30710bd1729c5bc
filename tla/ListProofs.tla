----------------------------- MODULE ListProofs -----------------------------
(***************************************************************************)
(* Proofs about List, for any heads and entries and lists of any length:   *)
(* every function of list.h leaves every list as its comment promises, and *)
(* a safe loop sees every entry.                                           *)
(*                                                                         *)
(* The memory of a list is a ring. Positions are of little use to reason   *)
(* about one, so lists are put together from pieces here: a call works     *)
(* where two pieces meet, and all that it does is to link the end of one   *)
(* piece to the start of another. A ring may begin anywhere, so the pieces *)
(* can always be turned until the ends that are linked are the ends of     *)
(* chains. Holds says that the memory holds the lists of all heads; that a *)
(* call on one or two of them leaves the rest alone is said once, in       *)
(* Changes.                                                                *)
(***************************************************************************)
EXTENDS List, SequenceTheorems, TLAPS

----------------------------------------------------------------------------
(* Sequences without repetition, and how they are put together.            *)

Once(w) == \A i, j \in DOMAIN w : w[i] = w[j] => i = j
Apart(u, v) == Items(u) \cap Items(v) = {}
Last(w) == w[Len(w)]
One(x) == <<x>>

\* Concatenation, under a name that hides its definition from the provers.
u ++ v == u \o v
Chains == Seq(Nodes) \ {<<>>}

\* A chain has a first and a last node.
LEMMA ChainFacts ==
  ASSUME NEW w \in Chains
  PROVE  /\ w \in Seq(Nodes) /\ Len(w) \in Nat \ {0} /\ DOMAIN w = 1 .. Len(w)
         /\ \A i \in 1 .. Len(w) : w[i] \in Nodes
         /\ w[1] \in Items(w) /\ Last(w) \in Items(w) /\ Items(w) \subseteq Nodes
         /\ w[1] \in Nodes /\ Last(w) \in Nodes
<1>1. Len(w) \in Nat \ {0} /\ DOMAIN w = 1 .. Len(w)  BY EmptySeq, LenProperties DEF Chains
<1>2. \A i \in 1 .. Len(w) : w[i] \in Nodes  BY ElementOfSeq DEF Chains
<1> QED  BY <1>1, <1>2 DEF Chains, Items, Last

\* The elements of a concatenation
LEMMA CatAt ==
  ASSUME NEW S, NEW u \in Seq(S), NEW v \in Seq(S)
  PROVE  /\ DOMAIN (u ++ v) = 1 .. Len(u) + Len(v)
         /\ \A i \in 1 .. Len(u) : (u ++ v)[i] = u[i]
         /\ \A i \in 1 .. Len(v) : (u ++ v)[Len(u) + i] = v[i]
<1>1. /\ u ++ v \in Seq(S) /\ Len(u ++ v) = Len(u) + Len(v)
      /\ \A i \in 1 .. Len(u) + Len(v) : (u ++ v)[i] = IF i <= Len(u) THEN u[i] ELSE v[i - Len(u)]
  BY ConcatProperties DEF ++
<1>2. DOMAIN (u ++ v) = 1 .. Len(u ++ v) /\ Len(u) \in Nat /\ Len(v) \in Nat
  BY <1>1, LenProperties
<1>3. \A i \in 1 .. Len(u) : (u ++ v)[i] = u[i]  BY <1>1, <1>2
<1>4. \A i \in 1 .. Len(v) : (u ++ v)[Len(u) + i] = v[i]
  <2> SUFFICES ASSUME NEW i \in 1 .. Len(v)  PROVE (u ++ v)[Len(u) + i] = v[i]  OBVIOUS
  <2>1. Len(u) + i \in 1 .. Len(u) + Len(v) /\ ~(Len(u) + i <= Len(u)) /\ (Len(u) + i) - Len(u) = i
    BY <1>2
  <2> QED  BY <1>1, <2>1
<1> QED  BY <1>1, <1>2, <1>3, <1>4

\* its type and length,
LEMMA CatSeq ==
  ASSUME NEW S, NEW u \in Seq(S), NEW v \in Seq(S)
  PROVE  u ++ v \in Seq(S) /\ Len(u ++ v) = Len(u) + Len(v)
BY ConcatProperties DEF ++

\* the set of its elements,
LEMMA CatItems ==
  ASSUME NEW S, NEW u \in Seq(S), NEW v \in Seq(S)
  PROVE  Items(u ++ v) = Items(u) \cup Items(v)
<1>1. /\ DOMAIN (u ++ v) = 1 .. Len(u) + Len(v)
      /\ \A i \in 1 .. Len(u) : (u ++ v)[i] = u[i]
      /\ \A i \in 1 .. Len(v) : (u ++ v)[Len(u) + i] = v[i]
  BY CatAt
<1>2. /\ DOMAIN u = 1 .. Len(u) /\ DOMAIN v = 1 .. Len(v) /\ Len(u) \in Nat /\ Len(v) \in Nat
  BY LenProperties
<1>3. Items(u ++ v) \subseteq Items(u) \cup Items(v)
  <2> SUFFICES ASSUME NEW i \in 1 .. Len(u) + Len(v)
               PROVE (u ++ v)[i] \in Items(u) \cup Items(v)
    BY <1>1 DEF Items
  <2>1. CASE i <= Len(u)  BY <1>1, <1>2, <2>1 DEF Items
  <2>2. CASE ~(i <= Len(u))
    <3>1. i - Len(u) \in 1 .. Len(v) /\ i = Len(u) + (i - Len(u))  BY <1>2, <2>2
    <3>2. (u ++ v)[i] = v[i - Len(u)]  BY <1>1, <3>1
    <3> QED  BY <1>2, <3>1, <3>2 DEF Items
  <2> QED  BY <2>1, <2>2
<1>4. Items(u) \subseteq Items(u ++ v)
  <2> SUFFICES ASSUME NEW i \in 1 .. Len(u)  PROVE u[i] \in Items(u ++ v)  BY <1>2 DEF Items
  <2>1. i \in DOMAIN (u ++ v)  BY <1>1, <1>2
  <2> QED  BY <1>1, <2>1 DEF Items
<1>5. Items(v) \subseteq Items(u ++ v)
  <2> SUFFICES ASSUME NEW i \in 1 .. Len(v)  PROVE v[i] \in Items(u ++ v)  BY <1>2 DEF Items
  <2>1. Len(u) + i \in DOMAIN (u ++ v)  BY <1>1, <1>2
  <2> QED  BY <1>1, <2>1 DEF Items
<1> QED  BY <1>3, <1>4, <1>5

\* and what the empty sequence adds to it.
LEMMA CatEmpty ==
  ASSUME NEW S, NEW s \in Seq(S)  PROVE s ++ <<>> = s /\ <<>> ++ s = s
BY ConcatEmptySeq DEF ++

\* Concatenation is associative.
LEMMA Assoc ==
  ASSUME NEW S, NEW a \in Seq(S), NEW b \in Seq(S), NEW c \in Seq(S)
  PROVE  (a ++ b) ++ c = a ++ (b ++ c)
BY ConcatAssociative DEF ++

\* A concatenation repeats nothing if its parts do not and share nothing.
LEMMA CatOnce ==
  ASSUME NEW S, NEW u \in Seq(S), NEW v \in Seq(S)
  PROVE  Once(u ++ v) <=> Once(u) /\ Once(v) /\ Apart(u, v)
<1>0. /\ DOMAIN u = 1 .. Len(u) /\ DOMAIN v = 1 .. Len(v)
      /\ Len(u) \in Nat /\ Len(v) \in Nat
  BY LenProperties
<1>1. /\ DOMAIN (u ++ v) = 1 .. Len(u) + Len(v)
      /\ \A i \in 1 .. Len(u) : (u ++ v)[i] = u[i]
      /\ \A i \in 1 .. Len(v) : (u ++ v)[Len(u) + i] = v[i]
  BY CatAt
<1>2. ASSUME Once(u ++ v)  PROVE Once(u) /\ Once(v) /\ Apart(u, v)
  <2>1. Once(u)  BY <1>0, <1>1, <1>2 DEF Once
  <2>2. Once(v)
    <3> SUFFICES ASSUME NEW i \in 1 .. Len(v), NEW j \in 1 .. Len(v), v[i] = v[j]  PROVE i = j
      BY <1>0 DEF Once
    <3>1. Len(u) + i \in DOMAIN (u ++ v) /\ Len(u) + j \in DOMAIN (u ++ v)  BY <1>0, <1>1
    <3>2. Len(u) + i = Len(u) + j  BY <1>1, <1>2, <3>1 DEF Once
    <3> QED  BY <1>0, <3>2
  <2>3. ASSUME NEW i \in 1 .. Len(u), NEW j \in 1 .. Len(v), u[i] = v[j]  PROVE FALSE
    <3>1. i \in DOMAIN (u ++ v) /\ Len(u) + j \in DOMAIN (u ++ v)  BY <1>0, <1>1
    <3>2. i = Len(u) + j  BY <1>1, <1>2, <2>3, <3>1 DEF Once
    <3> QED  BY <1>0, <3>2
  <2> QED  BY <1>0, <2>1, <2>2, <2>3 DEF Apart, Items
<1>3. ASSUME Once(u), Once(v), Apart(u, v)  PROVE Once(u ++ v)
  <2> SUFFICES ASSUME NEW i \in 1 .. Len(u) + Len(v), NEW j \in 1 .. Len(u) + Len(v),
                      (u ++ v)[i] = (u ++ v)[j]
               PROVE  i = j
    BY <1>1 DEF Once
  <2>1. \A k \in 1 .. Len(u), l \in 1 .. Len(v) : u[k] # v[l]  BY <1>0, <1>3 DEF Apart, Items
  <2>2. \A k \in 1 .. Len(u) + Len(v) :
          k \in 1 .. Len(u) \/ (k - Len(u) \in 1 .. Len(v) /\ k = Len(u) + (k - Len(u)))
    BY <1>0
  <2>3. CASE i \in 1 .. Len(u) /\ j \in 1 .. Len(u)  BY <1>0, <1>1, <1>3, <2>3 DEF Once
  <2>4. CASE i \in 1 .. Len(u) /\ j \notin 1 .. Len(u)
    <3>1. (u ++ v)[i] = u[i] /\ (u ++ v)[j] = v[j - Len(u)]  BY <1>1, <2>2, <2>4
    <3> QED  BY <2>1, <2>2, <2>4, <3>1
  <2>5. CASE i \notin 1 .. Len(u) /\ j \in 1 .. Len(u)
    <3>1. (u ++ v)[j] = u[j] /\ (u ++ v)[i] = v[i - Len(u)]  BY <1>1, <2>2, <2>5
    <3> QED  BY <2>1, <2>2, <2>5, <3>1
  <2>6. CASE i \notin 1 .. Len(u) /\ j \notin 1 .. Len(u)
    <3>1. v[i - Len(u)] = v[j - Len(u)]  BY <1>1, <2>2, <2>6
    <3>2. i - Len(u) = j - Len(u)  BY <1>0, <1>3, <2>2, <2>6, <3>1 DEF Once
    <3> QED  BY <1>0, <3>2
  <2> QED  BY <2>3, <2>4, <2>5, <2>6
<1> QED  BY <1>2, <1>3

\* The sequence of one element.
LEMMA OneFacts ==
  ASSUME NEW x
  PROVE  /\ Len(One(x)) = 1 /\ DOMAIN One(x) = {1} /\ One(x)[1] = x /\ Last(One(x)) = x
         /\ Items(One(x)) = {x} /\ Once(One(x)) /\ \A S : x \in S => One(x) \in Seq(S)
         /\ x \in Nodes => One(x) \in Chains
<1>1. Len(One(x)) = 1 /\ DOMAIN One(x) = {1} /\ One(x)[1] = x  BY DEF One
<1>2. \A S : x \in S => One(x) \in Seq(S)  BY DEF One
<1>3. One(x) # <<>>  BY DEF One
<1> QED  BY <1>1, <1>2, <1>3 DEF Items, Once, Last, Chains

\* The ends of a chain made of two.
LEMMA CatEnds ==
  ASSUME NEW u \in Seq(Nodes), NEW v \in Seq(Nodes)
  PROVE  /\ u # <<>> => u ++ v \in Chains /\ (u ++ v)[1] = u[1]
         /\ v # <<>> => u ++ v \in Chains /\ Last(u ++ v) = Last(v)
<1>1. u ++ v \in Seq(Nodes) /\ Len(u ++ v) = Len(u) + Len(v) /\ Len(u) \in Nat /\ Len(v) \in Nat
  BY CatSeq, LenProperties
<1>2. /\ u # <<>> => 1 \in 1 .. Len(u)
      /\ v # <<>> => Len(v) \in 1 .. Len(v)
  BY EmptySeq, <1>1
<1>3. u # <<>> \/ v # <<>> => u ++ v # <<>>  BY <1>1, <1>2, EmptySeq
<1>4. u # <<>> => (u ++ v)[1] = u[1]  BY <1>2, CatAt
<1>5. v # <<>> => (u ++ v)[Len(u) + Len(v)] = v[Len(v)]  BY <1>2, CatAt
<1> QED  BY <1>1, <1>3, <1>4, <1>5 DEF Chains, Last

----------------------------------------------------------------------------
(* Chains and rings in memory. Every function of list.h is a sequence of   *)
(* links between the ends of chains.                                       *)

Pointers == Nodes \cup {NULL, LIST_POISON1, LIST_POISON2}
Mem == [next : [Nodes -> Pointers], prev : [Nodes -> Pointers]]

\* a->next = b and b->prev = a.
Link(m, a, b) == [next |-> [m.next EXCEPT ![a] = b], prev |-> [m.prev EXCEPT ![b] = a]]
Linked(m, a, b) == m.next[a] = b /\ m.prev[b] = a

Chain(m, w) == \A i \in 1 .. Len(w) - 1 : Linked(m, w[i], w[i + 1])
Circle(m, w) == Chain(m, w) /\ Linked(m, Last(w), w[1])

\* The pointers of all nodes but those in S are the same.
SameBut(m, n, S) == \A x \in Nodes \ S : n.next[x] = m.next[x] /\ n.prev[x] = m.prev[x]

\* What a link sets, and that it breaks only links from a or to b.
LEMMA LinkFacts ==
  ASSUME NEW m \in Mem, NEW a \in Nodes, NEW b \in Nodes
  PROVE  /\ Link(m, a, b) \in Mem /\ Linked(Link(m, a, b), a, b)
         /\ \A c, d \in Nodes : c # a /\ d # b /\ Linked(m, c, d) => Linked(Link(m, a, b), c, d)
         /\ \A S : a \in S /\ b \in S => SameBut(m, Link(m, a, b), S)
BY DEF Mem, Pointers, Link, Linked, SameBut

\* The pointers after a link.
LEMMA LinkPointers ==
  ASSUME NEW m \in Mem, NEW a \in Nodes, NEW b \in Nodes, NEW c \in Nodes
  PROVE  /\ Link(m, a, b).next[c] = IF c = a THEN b ELSE m.next[c]
         /\ Link(m, a, b).prev[c] = IF c = b THEN a ELSE m.prev[c]
BY DEF Mem, Link

\* One node is a chain.
LEMMA OneChain ==
  ASSUME NEW m, NEW x  PROVE Chain(m, One(x))
BY OneFacts DEF Chain

\* Two chains make one when the ends that meet are linked,
LEMMA CatChain ==
  ASSUME NEW m, NEW u \in Chains, NEW v \in Chains
  PROVE  Chain(m, u ++ v) <=> Chain(m, u) /\ Chain(m, v) /\ Linked(m, Last(u), v[1])
<1>0. /\ Len(u) \in Nat \ {0} /\ Len(v) \in Nat \ {0} /\ u \in Seq(Nodes) /\ v \in Seq(Nodes)
  BY ChainFacts
<1>a. Len(u ++ v) = Len(u) + Len(v)  BY <1>0, CatSeq
<1>b. /\ \A i \in 1 .. Len(u) : (u ++ v)[i] = u[i]
      /\ \A i \in 1 .. Len(v) : (u ++ v)[Len(u) + i] = v[i]
  BY <1>0, CatAt
<1>1. /\ Len(u ++ v) = Len(u) + Len(v)
      /\ \A i \in 1 .. Len(u) : (u ++ v)[i] = u[i]
      /\ \A i \in 1 .. Len(v) : (u ++ v)[Len(u) + i] = v[i]
  BY <1>a, <1>b
<1>2. ASSUME Chain(m, u ++ v)  PROVE Chain(m, u) /\ Chain(m, v) /\ Linked(m, Last(u), v[1])
  <2>1. \A i \in 1 .. (Len(u) + Len(v)) - 1 : Linked(m, (u ++ v)[i], (u ++ v)[i + 1])
    BY <1>1, <1>2 DEF Chain
  <2>2. ASSUME NEW i \in 1 .. Len(u) - 1  PROVE Linked(m, u[i], u[i + 1])
    <3>1. i \in 1 .. Len(u) /\ i + 1 \in 1 .. Len(u) /\ i \in 1 .. (Len(u) + Len(v)) - 1  BY <1>0
    <3> QED  BY <1>1, <2>1, <3>1
  <2>3. ASSUME NEW i \in 1 .. Len(v) - 1  PROVE Linked(m, v[i], v[i + 1])
    <3>1. /\ i \in 1 .. Len(v) /\ i + 1 \in 1 .. Len(v)
          /\ Len(u) + i \in 1 .. (Len(u) + Len(v)) - 1 /\ (Len(u) + i) + 1 = Len(u) + (i + 1)
      BY <1>0
    <3> QED  BY <1>1, <2>1, <3>1
  <2>4. Linked(m, u[Len(u)], v[1])
    <3>1. /\ Len(u) \in 1 .. Len(u) /\ 1 \in 1 .. Len(v)
          /\ Len(u) \in 1 .. (Len(u) + Len(v)) - 1
      BY <1>0
    <3> QED  BY <1>1, <2>1, <3>1
  <2> QED  BY <2>2, <2>3, <2>4 DEF Chain, Last
<1>3. ASSUME Chain(m, u), Chain(m, v), Linked(m, Last(u), v[1])  PROVE Chain(m, u ++ v)
  <2> SUFFICES ASSUME NEW i \in 1 .. (Len(u) + Len(v)) - 1
               PROVE  Linked(m, (u ++ v)[i], (u ++ v)[i + 1])
    BY <1>1 DEF Chain
  <2>1. CASE i < Len(u)
    <3>1. i \in 1 .. Len(u) /\ i + 1 \in 1 .. Len(u) /\ i \in 1 .. Len(u) - 1  BY <1>0, <2>1
    <3> QED  BY <1>1, <1>3, <3>1 DEF Chain
  <2>2. CASE i = Len(u)
    <3>1. i \in 1 .. Len(u) /\ 1 \in 1 .. Len(v)  BY <1>0, <2>2
    <3> QED  BY <1>1, <1>3, <2>2, <3>1 DEF Last
  <2>3. CASE i > Len(u)
    <3>1. PICK k \in 1 .. Len(v) - 1 : i = Len(u) + k
      <4>1. i - Len(u) \in 1 .. Len(v) - 1 /\ i = Len(u) + (i - Len(u))  BY <1>0, <2>3
      <4> QED  BY <4>1
    <3>2. k \in 1 .. Len(v) /\ k + 1 \in 1 .. Len(v) /\ i + 1 = Len(u) + (k + 1)  BY <1>0, <3>1
    <3>3. Linked(m, v[k], v[k + 1])  BY <1>3 DEF Chain
    <3>4. (u ++ v)[i] = v[k] /\ (u ++ v)[i + 1] = v[k + 1]  BY <1>1, <3>1, <3>2
    <3> QED  BY <3>3, <3>4
  <2> QED  BY <1>0, <2>1, <2>2, <2>3
<1> QED  BY <1>2, <1>3

\* and a circle when both pairs of ends are.
LEMMA CatCircle ==
  ASSUME NEW m, NEW u \in Chains, NEW v \in Chains
  PROVE  Circle(m, u ++ v) <=> /\ Chain(m, u) /\ Chain(m, v)
                               /\ Linked(m, Last(u), v[1]) /\ Linked(m, Last(v), u[1])
BY CatChain, CatEnds DEF Circle, Chains

\* A circle may begin anywhere.
LEMMA Turned ==
  ASSUME NEW m, NEW u \in Seq(Nodes), NEW v \in Seq(Nodes), Circle(m, u ++ v)
  PROVE  Circle(m, v ++ u)
<1>1. CASE u = <<>> \/ v = <<>>  BY <1>1, CatEmpty
<1>2. CASE u # <<>> /\ v # <<>>  BY <1>2, CatCircle DEF Chains
<1> QED  BY <1>1, <1>2

\* A link that ends in w only at its beginning, and begins in it only at its
\* end, leaves it as it is.
LEMMA KeepsChain ==
  ASSUME NEW m \in Mem, NEW w \in Chains, Once(w), Chain(m, w), NEW a \in Nodes, NEW b \in Nodes,
         a \notin Items(w) \/ a = Last(w), b \notin Items(w) \/ b = w[1]
  PROVE  Chain(Link(m, a, b), w)
<1> SUFFICES ASSUME NEW i \in 1 .. Len(w) - 1  PROVE Linked(Link(m, a, b), w[i], w[i + 1])
  BY DEF Chain
<1>1. /\ i \in 1 .. Len(w) /\ i + 1 \in 1 .. Len(w) /\ i # Len(w) /\ i + 1 # 1
      /\ 1 \in 1 .. Len(w) /\ Len(w) \in 1 .. Len(w) /\ DOMAIN w = 1 .. Len(w)
  BY ChainFacts
<1>2. w[i] # a /\ w[i + 1] # b  BY <1>1 DEF Once, Items, Last
<1>3. w[i] \in Nodes /\ w[i + 1] \in Nodes  BY <1>1, ChainFacts
<1>4. Linked(m, w[i], w[i + 1])  BY DEF Chain
<1>5. \A c, d \in Nodes : c # a /\ d # b /\ Linked(m, c, d) => Linked(Link(m, a, b), c, d)
  BY LinkFacts
<1> QED  BY <1>2, <1>3, <1>4, <1>5

\* Two chains are joined,
LEMMA Joins ==
  ASSUME NEW m \in Mem, NEW u \in Chains, NEW v \in Chains, Once(u), Once(v), Apart(u, v),
         Chain(m, u), Chain(m, v)
  PROVE  Chain(Link(m, Last(u), v[1]), u ++ v)
<1>1. /\ Last(u) \in Items(u) /\ v[1] \in Items(v) /\ Last(u) \in Nodes /\ v[1] \in Nodes
  BY ChainFacts
<1>2. Last(u) \notin Items(v) /\ v[1] \notin Items(u)  BY <1>1 DEF Apart
<1>3. Chain(Link(m, Last(u), v[1]), u) /\ Chain(Link(m, Last(u), v[1]), v)
  BY <1>1, <1>2, KeepsChain
<1> QED  BY <1>1, <1>3, LinkFacts, CatChain

\* and a chain is closed.
LEMMA Closes ==
  ASSUME NEW m \in Mem, NEW w \in Chains, Once(w), Chain(m, w)
  PROVE  Circle(Link(m, Last(w), w[1]), w)
BY ChainFacts, KeepsChain, LinkFacts DEF Circle

\* Two chains are joined to a circle.
LEMMA JoinsCircle ==
  ASSUME NEW m \in Mem, NEW u \in Chains, NEW v \in Chains, Once(u), Once(v), Apart(u, v),
         Chain(m, u), Chain(m, v)
  PROVE  Circle(Link(Link(m, Last(u), v[1]), Last(v), u[1]), u ++ v)
<1>1. u \in Seq(Nodes) /\ v \in Seq(Nodes) /\ u # <<>> /\ v # <<>>  BY DEF Chains
<1>2. u ++ v \in Chains /\ (u ++ v)[1] = u[1] /\ Last(u ++ v) = Last(v)  BY <1>1, CatEnds
<1>3. Once(u ++ v)  BY <1>1, CatOnce
<1>4. Link(m, Last(u), v[1]) \in Mem  BY ChainFacts, LinkFacts
<1> QED  BY <1>2, <1>3, <1>4, Joins, Closes

\* Links elsewhere leave a chain and a circle as they are.
LEMMA Elsewhere ==
  ASSUME NEW m, NEW n, NEW w \in Chains, NEW S, SameBut(m, n, S), Items(w) \cap S = {}
  PROVE  /\ Chain(m, w) => Chain(n, w)
         /\ Circle(m, w) => Circle(n, w)
<1>1. \A i \in 1 .. Len(w) : w[i] \in Nodes \ S  BY ChainFacts DEF Items
<1>2. \A a, b \in Nodes \ S : Linked(m, a, b) => Linked(n, a, b)  BY DEF SameBut, Linked
<1>3. Len(w) \in Nat \ {0}  BY ChainFacts
<1>4. ASSUME Chain(m, w)  PROVE Chain(n, w)
  <2> SUFFICES ASSUME NEW i \in 1 .. Len(w) - 1  PROVE Linked(n, w[i], w[i + 1])  BY DEF Chain
  <2>1. i \in 1 .. Len(w) /\ i + 1 \in 1 .. Len(w)  BY <1>3
  <2> QED  BY <1>1, <1>2, <1>4, <2>1 DEF Chain
<1>5. w[1] \in Nodes \ S /\ Last(w) \in Nodes \ S  BY <1>1, <1>3 DEF Last
<1> QED  BY <1>2, <1>4, <1>5 DEF Circle

----------------------------------------------------------------------------
(* What the functions do to a circle.                                      *)

\* Memory is its next and its prev pointers.
LEMMA MemEqual ==
  ASSUME NEW m \in Mem, NEW n \in Mem, m.next = n.next, m.prev = n.prev  PROVE m = n
BY DEF Mem

\* Two stores, one in each direction, make a link;
LEMMA StoreLinks ==
  ASSUME NEW m \in Mem, NEW a \in Nodes, NEW b \in Nodes
  PROVE  [m EXCEPT !.next[a] = b, !.prev[b] = a] = Link(m, a, b)
<1> DEFINE n == [m EXCEPT !.next[a] = b, !.prev[b] = a]
<1>1. n \in Mem /\ n.next = [m.next EXCEPT ![a] = b] /\ n.prev = [m.prev EXCEPT ![b] = a]
  BY DEF Mem, Pointers
<1>2. Link(m, a, b) \in Mem  BY LinkFacts
<1>3. /\ Link(m, a, b).next = [m.next EXCEPT ![a] = b]
      /\ Link(m, a, b).prev = [m.prev EXCEPT ![b] = a]
  BY DEF Link
<1> HIDE DEF n
<1>4. n = Link(m, a, b)  BY <1>1, <1>2, <1>3, MemEqual
<1> QED  BY <1>4 DEF n

\* INIT_LIST_HEAD links a node to itself,
LEMMA InitLinks ==
  ASSUME NEW m \in Mem, NEW a \in Nodes
  PROVE  INIT_LIST_HEAD(m, a) = Link(m, a, a)
BY StoreLinks DEF INIT_LIST_HEAD

\* __list_del links the neighbours of an entry,
LEMMA DelLinks ==
  ASSUME NEW m \in Mem, NEW a \in Nodes, NEW b \in Nodes
  PROVE  __list_del(m, a, b) = Link(m, a, b)
<1>1. __list_del(m, a, b) \in Mem  BY DEF __list_del, Mem, Pointers
<1>2. /\ __list_del(m, a, b).next = [m.next EXCEPT ![a] = b]
      /\ __list_del(m, a, b).prev = [m.prev EXCEPT ![b] = a]
  BY DEF __list_del, Mem
<1>3. Link(m, a, b) \in Mem  BY LinkFacts
<1>4. /\ Link(m, a, b).next = [m.next EXCEPT ![a] = b]
      /\ Link(m, a, b).prev = [m.prev EXCEPT ![b] = a]
  BY DEF Link
<1> QED  BY <1>1, <1>2, <1>3, <1>4, MemEqual

\* __list_add makes two links.
LEMMA AddLinks ==
  ASSUME NEW m \in Mem, NEW a \in Nodes, NEW b \in Nodes, NEW e \in Nodes \ {a, b}
  PROVE  __list_add(m, e, a, b) = Link(Link(m, a, e), e, b)
<1>1. __list_add(m, e, a, b) \in Mem  BY DEF __list_add, Mem, Pointers
<1>2. /\ __list_add(m, e, a, b).next = [m.next EXCEPT ![e] = b, ![a] = e]
      /\ __list_add(m, e, a, b).prev = [m.prev EXCEPT ![b] = e, ![e] = a]
  BY DEF __list_add, Mem
<1>3. /\ Link(Link(m, a, e), e, b).next = [[m.next EXCEPT ![a] = e] EXCEPT ![e] = b]
      /\ Link(Link(m, a, e), e, b).prev = [[m.prev EXCEPT ![e] = a] EXCEPT ![b] = e]
  BY DEF Link
<1>4. /\ [m.next EXCEPT ![e] = b, ![a] = e] = [[m.next EXCEPT ![a] = e] EXCEPT ![e] = b]
      /\ [m.prev EXCEPT ![b] = e, ![e] = a] = [[m.prev EXCEPT ![e] = a] EXCEPT ![b] = e]
  BY DEF Mem
<1>5. Link(m, a, e) \in Mem  BY LinkFacts
<1>6. Link(Link(m, a, e), e, b) \in Mem  BY <1>5, LinkFacts
<1> QED  BY <1>1, <1>2, <1>3, <1>4, <1>6, MemEqual

\* The ends of a circle are neighbours.
LEMMA CircleEnds ==
  ASSUME NEW m, NEW w, Circle(m, w)
  PROVE  m.next[Last(w)] = w[1] /\ m.prev[w[1]] = Last(w)
BY DEF Circle, Linked

\* The neighbours of the node a circle ends with.
LEMMA LastsNeighbours ==
  ASSUME NEW m, NEW w \in Seq(Nodes), NEW x \in Nodes, Circle(m, w ++ One(x))
  PROVE  /\ w # <<>> => m.next[x] = w[1] /\ m.prev[x] = Last(w)
         /\ w = <<>> => m.next[x] = x /\ m.prev[x] = x
<1>1. One(x) \in Chains /\ One(x) \in Seq(Nodes) /\ Last(One(x)) = x /\ One(x)[1] = x  BY OneFacts
<1>2. CASE w = <<>>
  <2>1. w ++ One(x) = One(x)  BY <1>1, <1>2, CatEmpty
  <2> QED  BY <1>1, <1>2, <2>1, CircleEnds
<1>3. CASE w # <<>>
  <2>1. w \in Chains  BY <1>3 DEF Chains
  <2>2. Linked(m, Last(w), x) /\ Linked(m, x, w[1])  BY <1>1, <2>1, CatCircle
  <2> QED  BY <1>3, <2>2 DEF Linked
<1> QED  BY <1>2, <1>3

\* __list_add with the ends of a chain makes a circle with the new node,
LEMMA Added ==
  ASSUME NEW m \in Mem, NEW w \in Chains, Once(w), Chain(m, w), NEW e \in Nodes \ Items(w)
  PROVE  LET n == __list_add(m, e, Last(w), w[1])
         IN  n \in Mem /\ Circle(n, w ++ One(e)) /\ SameBut(m, n, Items(w) \cup {e})
<1> DEFINE n1 == Link(m, Last(w), e)
           n == Link(n1, e, w[1])
<1>1. /\ Last(w) \in Nodes /\ w[1] \in Nodes /\ Last(w) \in Items(w) /\ w[1] \in Items(w)
  BY ChainFacts
<1>2. n = __list_add(m, e, Last(w), w[1])  BY <1>1, AddLinks
<1>3. /\ One(e) \in Chains /\ Last(One(e)) = e /\ One(e)[1] = e
      /\ Items(One(e)) = {e} /\ Once(One(e))
      /\ Chain(m, One(e))
  BY OneFacts, OneChain
<1>4. Circle(n, w ++ One(e))  BY <1>3, JoinsCircle DEF Apart
<1>5. n1 \in Mem /\ SameBut(m, n1, Items(w) \cup {e})  BY <1>1, LinkFacts
<1>6. n \in Mem /\ SameBut(n1, n, Items(w) \cup {e})  BY <1>1, <1>5, LinkFacts
<1>7. SameBut(m, n, Items(w) \cup {e})  BY <1>5, <1>6 DEF SameBut
<1> HIDE DEF n
<1> QED  BY <1>2, <1>4, <1>6, <1>7

\* __list_del_entry leaves the circle of the other nodes,
LEMMA Removed ==
  ASSUME NEW m \in Mem, NEW w \in Chains, NEW x \in Nodes, Once(w), Circle(m, w ++ One(x))
  PROVE  LET n == __list_del_entry(m, x)
         IN  n \in Mem /\ Circle(n, w) /\ SameBut(m, n, Items(w))
<1>1. m.prev[x] = Last(w) /\ m.next[x] = w[1]  BY LastsNeighbours DEF Chains
<1>2. Last(w) \in Nodes /\ w[1] \in Nodes /\ Last(w) \in Items(w) /\ w[1] \in Items(w)
  BY ChainFacts
<1>3. __list_del_entry(m, x) = Link(m, Last(w), w[1])  BY <1>1, <1>2, DelLinks DEF __list_del_entry
<1>4. Chain(m, w)
  <2>1. One(x) \in Chains  BY OneFacts
  <2> QED  BY <2>1, CatCircle
<1> QED  BY <1>2, <1>3, <1>4, Closes, LinkFacts

\* list_replace puts the new node into the place of the old one.
LEMMA Replaced ==
  ASSUME NEW m \in Mem, NEW w \in Seq(Nodes), NEW old \in Nodes, Once(w ++ One(old)),
         Circle(m, w ++ One(old)), NEW new \in Nodes \ (Items(w) \cup {old})
  PROVE  LET n == list_replace(m, old, new)
         IN  /\ n \in Mem /\ Circle(n, w ++ One(new))
             /\ SameBut(m, n, Items(w) \cup {old, new})
<1> DEFINE nx == m.next[old]
           m1 == Link(m, new, nx)
           n == Link(m1, m1.prev[old], new)
<1>0. /\ One(old) \in Chains /\ One(old) \in Seq(Nodes) /\ Items(One(old)) = {old}
      /\ One(new) \in Chains /\ One(new) \in Seq(Nodes) /\ Once(One(new)) /\ Items(One(new)) = {new}
      /\ One(new)[1] = new /\ Last(One(new)) = new
  BY OneFacts
<1>1. nx \in Nodes /\ (w # <<>> => nx = w[1]) /\ (w = <<>> => nx = old)
  <2>1. w # <<>> => w[1] \in Nodes  BY ChainFacts DEF Chains
  <2> QED  BY <2>1, LastsNeighbours
<1>2. m1 \in Mem  BY <1>1, LinkFacts
<1>3. m1.prev[old] = IF w = <<>> THEN new ELSE Last(w)
  <2>0. /\ m1.prev[nx] = new
        /\ \A c \in Nodes \ {nx} : m1.prev[c] = m.prev[c]
    BY <1>1, LinkPointers
  <2>1. CASE w = <<>>  BY <1>1, <2>0, <2>1
  <2>2. CASE w # <<>>
    <3>1. old # w[1]  BY <1>0, <2>2, CatOnce, ChainFacts DEF Apart, Chains
    <3>2. m.prev[old] = Last(w)  BY <2>2, LastsNeighbours
    <3> QED  BY <1>1, <2>0, <2>2, <3>1, <3>2
  <2> QED  BY <2>1, <2>2
<1>4. m1.prev[old] \in Nodes  BY <1>3, ChainFacts DEF Chains
<1>5. list_replace(m, old, new) = n
  <2> DEFINE m2 == [m1 EXCEPT !.prev[new] = m1.prev[old]]
             m3 == [m2 EXCEPT !.next[m2.prev[new]] = new]
  <2>1. m1 = [m EXCEPT !.next[new] = m.next[old], !.prev[m.next[old]] = new]
    BY <1>1, StoreLinks
  <2>2. /\ m2 \in Mem /\ m2.next = m1.next /\ m2.prev = [m1.prev EXCEPT ![new] = m1.prev[old]]
        /\ m2.prev[new] = m1.prev[old]
    <3> HIDE DEF m1
    <3> QED  BY <1>2, <1>4 DEF Mem, Pointers
  <2>3. m3 \in Mem /\ m3.prev = m2.prev /\ m3.next = [m2.next EXCEPT ![m2.prev[new]] = new]
    <3> HIDE DEF m2
    <3> QED  BY <1>4, <2>2 DEF Mem, Pointers
  <2>4. n \in Mem  BY <1>2, <1>4, LinkFacts
  <2>5. n.next = m3.next /\ n.prev = m3.prev
    <3> HIDE DEF m1, m2, m3
    <3> QED  BY <2>2, <2>3 DEF Link
  <2>6. n = m3
    <3> HIDE DEF n, m3
    <3> QED  BY <2>3, <2>4, <2>5, MemEqual
  <2>7. list_replace(m, old, new) = m3  BY <2>1 DEF list_replace
  <2> HIDE DEF n, m3
  <2> QED  BY <2>6, <2>7
<1>6. n \in Mem  BY <1>2, <1>4, LinkFacts
<1>7. SameBut(m, n, Items(w) \cup {old, new})
  <2>1. nx \in Items(w) \cup {old, new} /\ m1.prev[old] \in Items(w) \cup {old, new}
    BY <1>1, <1>3, ChainFacts DEF Chains
  <2>2. SameBut(m, m1, Items(w) \cup {old, new})  BY <1>1, <2>1, LinkFacts
  <2>3. SameBut(m1, n, Items(w) \cup {old, new})  BY <1>2, <1>4, <2>1, LinkFacts
  <2> QED  BY <2>2, <2>3 DEF SameBut
<1>8. Circle(n, w ++ One(new))
  <2>1. CASE w = <<>>
    <3>1. n = Link(m1, Last(One(new)), One(new)[1]) /\ w ++ One(new) = One(new)
      BY <1>0, <1>3, <2>1, CatEmpty
    <3> QED  BY <1>0, <1>2, <3>1, Closes, OneChain
  <2>2. CASE w # <<>>
    <3>1. w \in Chains /\ Once(w) /\ Chain(m, w)  BY <1>0, <2>2, CatOnce, CatCircle DEF Chains
    <3>2. Circle(Link(Link(m, Last(One(new)), w[1]), Last(w), One(new)[1]), One(new) ++ w)
      BY <1>0, <3>1, JoinsCircle, OneChain DEF Apart
    <3>3. Circle(n, One(new) ++ w)  BY <1>0, <1>1, <1>3, <2>2, <3>2
    <3> QED  BY <1>0, <3>3, Turned
  <2> QED  BY <2>1, <2>2
<1> HIDE DEF n
<1> QED  BY <1>5, <1>6, <1>7, <1>8

----------------------------------------------------------------------------
(* The lists of all heads in memory.                                       *)

\* Memory m holds the lists L of the heads V, which are in use.
Holds(m, L, V) ==
  /\ m \in Mem /\ L \in [Heads -> Seq(Entries)] /\ V \subseteq Heads
  /\ \A h \in V : Circle(m, One(h) ++ L[h])
  /\ \A h \in Heads : Once(L[h])
  /\ \A h, g \in Heads : h # g => Apart(L[h], L[g])
  /\ \A h \in Heads \ V : L[h] = <<>>

\* The nodes that are on no list but those of the heads D.
Free(L, D) == D \cup {e \in Entries : \A k \in Heads \ D : e \notin Items(L[k])}

\* The elements of a sequence over S.
LEMMA ItemsIn ==
  ASSUME NEW S, NEW s \in Seq(S)  PROVE Items(s) \subseteq S
BY ElementOfSeq, LenProperties DEF Items

\* A head and the entries of its list.
LEMMA RingFacts ==
  ASSUME NEW h \in Heads, NEW s \in Seq(Entries)
  PROVE  /\ h \in Nodes /\ s \in Seq(Nodes) /\ One(h) \in Seq(Nodes) /\ One(h) \in Chains
         /\ One(h) ++ s \in Chains /\ Items(One(h) ++ s) = {h} \cup Items(s)
         /\ s ++ One(h) \in Chains
         /\ h \notin Items(s) /\ (Once(s) => Once(One(h) ++ s))
         /\ (One(h) ++ s)[1] = h
<1>1. h \in Nodes /\ s \in Seq(Nodes)  BY SeqMonotonic DEF Nodes
<1>2. /\ One(h) \in Seq(Nodes) /\ One(h) \in Chains /\ Items(One(h)) = {h} /\ Once(One(h))
      /\ One(h)[1] = h
  BY <1>1, OneFacts
<1>3. One(h) # <<>>  BY <1>2 DEF Chains
<1>4. h \notin Items(s)  BY ItemsIn, ListAssumption
<1>5. One(h) ++ s \in Chains /\ (One(h) ++ s)[1] = h /\ s ++ One(h) \in Chains
  BY <1>1, <1>2, <1>3, CatEnds
<1>6. Items(One(h) ++ s) = {h} \cup Items(s)  BY <1>1, <1>2, CatItems
<1>7. Once(s) => Once(One(h) ++ s)  BY <1>1, <1>2, <1>4, CatOnce DEF Apart
<1> QED  BY <1>1, <1>2, <1>4, <1>5, <1>6, <1>7

\* A call that changes the lists of the heads D, and nothing else that is in use.
LEMMA Changes ==
  ASSUME NEW m, NEW L, NEW V, Holds(m, L, V),
         NEW n \in Mem, NEW K \in [Heads -> Seq(Entries)], NEW W \in SUBSET Heads,
         NEW D \in SUBSET Heads, SameBut(m, n, Free(L, D)),
         \A k \in Heads \ D : K[k] = L[k] /\ (k \in W <=> k \in V),
         \A k \in D : /\ Once(K[k]) /\ Items(K[k]) \subseteq Free(L, D)
                      /\ k \in W => Circle(n, One(k) ++ K[k])
                      /\ k \notin W => K[k] = <<>>,
         \A k, l \in D : k # l => Apart(K[k], K[l])
  PROVE  Holds(n, K, W)
<1>1. \A k \in Heads : K[k] \in Seq(Entries)  OBVIOUS
<1>2. \A k \in Heads : Items(K[k]) \subseteq Entries  BY <1>1, ItemsIn
<1>3. ASSUME NEW k \in W  PROVE Circle(n, One(k) ++ K[k])
  <2>1. CASE k \in D  BY <2>1
  <2>2. CASE k \notin D
    <3>1. K[k] = L[k] /\ Circle(m, One(k) ++ K[k])  BY <2>2 DEF Holds
    <3>2. One(k) ++ K[k] \in Chains /\ Items(One(k) ++ K[k]) = {k} \cup Items(K[k])
      BY <1>1, RingFacts
    <3>3. k \notin Free(L, D)  BY <2>2, ListAssumption DEF Free
    <3>4. \A e \in Items(K[k]) : e \notin Free(L, D)
      BY <1>2, <2>2, <3>1, ListAssumption DEF Free
    <3>5. Items(One(k) ++ K[k]) \cap Free(L, D) = {}  BY <3>2, <3>3, <3>4
    <3> QED  BY <3>1, <3>2, <3>5, Elsewhere
  <2> QED  BY <2>1, <2>2
<1>4. \A k \in Heads : Once(K[k])  BY DEF Holds
<1>5. \A k \in Heads \ W : K[k] = <<>>  BY DEF Holds
<1>6. ASSUME NEW k \in Heads, NEW l \in Heads, k # l  PROVE Apart(K[k], K[l])
  <2>1. CASE k \notin D /\ l \notin D  BY <1>6, <2>1 DEF Holds
  <2>2. CASE k \in D /\ l \in D  BY <1>6, <2>2
  <2>3. CASE k \in D /\ l \notin D
    <3>1. \A e \in Items(K[k]) : e \in Free(L, D) /\ e \in Entries  BY <1>2, <2>3
    <3>2. \A e \in Items(K[k]) : e \notin Items(L[l])  BY <2>3, <3>1, ListAssumption DEF Free
    <3> QED  BY <2>3, <3>2 DEF Apart
  <2>4. CASE k \notin D /\ l \in D
    <3>1. \A e \in Items(K[l]) : e \in Free(L, D) /\ e \in Entries  BY <1>2, <2>4
    <3>2. \A e \in Items(K[l]) : e \notin Items(L[k])  BY <2>4, <3>1, ListAssumption DEF Free
    <3> QED  BY <2>4, <3>2 DEF Apart
  <2> QED  BY <2>1, <2>2, <2>3, <2>4
<1> QED  BY <1>3, <1>4, <1>5, <1>6 DEF Holds

\* The nodes of a list of D are free for D, and so is an entry on no list.
LEMMA OwnAreFree ==
  ASSUME NEW m, NEW L, NEW V, Holds(m, L, V), NEW D \in SUBSET Heads
  PROVE  /\ \A k \in D : {k} \cup Items(L[k]) \subseteq Free(L, D)
         /\ \A e \in Entries : (\A k \in Heads : e \notin Items(L[k])) => e \in Free(L, D)
<1>1. \A k \in Heads : L[k] \in Seq(Entries)  BY DEF Holds
<1>2. \A k \in Heads : Items(L[k]) \subseteq Entries  BY <1>1, ItemsIn
<1>3. \A k, l \in Heads : k # l => Items(L[k]) \cap Items(L[l]) = {}  BY DEF Holds, Apart
<1> QED  BY <1>2, <1>3 DEF Free

\* The case of one list.
LEMMA ChangesOne ==
  ASSUME NEW m, NEW L, NEW V, Holds(m, L, V), NEW n \in Mem, NEW h \in Heads,
         NEW s \in Seq(Entries), Once(s), Circle(n, One(h) ++ s),
         NEW T, T \subseteq {e \in Entries : \A k \in Heads : e \notin Items(L[k])},
         Items(s) \subseteq Items(L[h]) \cup T, SameBut(m, n, {h} \cup Items(L[h]) \cup T)
  PROVE  Holds(n, [L EXCEPT ![h] = s], V \cup {h})
<1> DEFINE K == [L EXCEPT ![h] = s]
<1>1. L \in [Heads -> Seq(Entries)] /\ V \subseteq Heads  BY DEF Holds
<1>2. K \in [Heads -> Seq(Entries)] /\ K[h] = s /\ \A k \in Heads \ {h} : K[k] = L[k]  BY <1>1
<1>3. {h} \cup Items(L[h]) \cup T \subseteq Free(L, {h})
  <2>1. {h} \cup Items(L[h]) \subseteq Free(L, {h})  BY OwnAreFree
  <2>2. T \subseteq Free(L, {h})  BY OwnAreFree
  <2> QED  BY <2>1, <2>2
<1>4. SameBut(m, n, Free(L, {h}))  BY <1>3 DEF SameBut
<1>5. Items(s) \subseteq Free(L, {h})  BY <1>3
<1> HIDE DEF K
<1> DEFINE W == V \cup {h}
           D == {h}
<1>6. /\ \A k \in Heads \ D : K[k] = L[k] /\ (k \in W <=> k \in V)
      /\ \A k \in D : /\ Once(K[k]) /\ Items(K[k]) \subseteq Free(L, D)
                      /\ k \in W => Circle(n, One(k) ++ K[k])
                      /\ k \notin W => K[k] = <<>>
      /\ \A k, l \in D : k # l => Apart(K[k], K[l])
  BY <1>2, <1>5
<1>7. W \in SUBSET Heads /\ D \in SUBSET Heads /\ SameBut(m, n, Free(L, D))  BY <1>1, <1>4
<1> HIDE DEF W, D
<1>8. Holds(n, K, W)  BY <1>2, <1>6, <1>7, Changes
<1> QED  BY <1>8 DEF K, W

\* Stores to entries on no list change nothing.
LEMMA ChangesNone ==
  ASSUME NEW m, NEW L, NEW V, Holds(m, L, V), NEW n \in Mem,
         NEW T, T \subseteq {e \in Entries : \A k \in Heads : e \notin Items(L[k])},
         SameBut(m, n, T)
  PROVE  Holds(n, L, V)
<1>1. SameBut(m, n, Free(L, {}))  BY DEF SameBut, Free
<1>2. L \in [Heads -> Seq(Entries)] /\ V \in SUBSET Heads /\ {} \in SUBSET Heads  BY DEF Holds
<1> QED  BY <1>1, <1>2, Changes

----------------------------------------------------------------------------
(* Pieces of a list.                                                       *)

\* A list cut behind its entry k.
LEMMA SplitAt ==
  ASSUME NEW S, NEW s \in Seq(S), NEW k \in 0 .. Len(s)
  PROVE  /\ First(s, k) \in Seq(S) /\ Rest(s, k) \in Seq(S) /\ s = First(s, k) ++ Rest(s, k)
         /\ Len(First(s, k)) = k /\ Len(Rest(s, k)) = Len(s) - k
         /\ \A p \in 1 .. k : First(s, k)[p] = s[p]
         /\ \A p \in 1 .. Len(s) - k : Rest(s, k)[p] = s[k + p]
         /\ (First(s, k) = <<>> <=> k = 0) /\ (Rest(s, k) = <<>> <=> k = Len(s))
<1>0. Len(s) \in Nat /\ k \in Int /\ k + 1 \in Int /\ Len(s) \in Int /\ 1 \in Int  BY LenProperties
<1>1. \A p \in 1 .. Len(s) : s[p] \in S  BY ElementOfSeq
<1>2. \A p \in 1 .. k : s[p] \in S  BY <1>0, <1>1
<1>3. /\ SubSeq(s, 1, k) \in Seq(S) /\ Len(SubSeq(s, 1, k)) = IF 1 <= k THEN (k - 1) + 1 ELSE 0
      /\ \A p \in 1 .. (k - 1) + 1 : SubSeq(s, 1, k)[p] = s[(1 + p) - 1]
  BY <1>0, <1>2, SubSeqProperties
<1>4. \A p \in k + 1 .. Len(s) : s[p] \in S  BY <1>0, <1>1
<1>5. /\ SubSeq(s, k + 1, Len(s)) \in Seq(S)
      /\ Len(SubSeq(s, k + 1, Len(s))) = IF k + 1 <= Len(s) THEN (Len(s) - (k + 1)) + 1 ELSE 0
      /\ \A p \in 1 .. (Len(s) - (k + 1)) + 1 : SubSeq(s, k + 1, Len(s))[p] = s[((k + 1) + p) - 1]
  BY <1>0, <1>4, SubSeqProperties
<1>6. SubSeq(s, 1, k) ++ SubSeq(s, k + 1, Len(s)) = s
  <2>1. 1 \in 1 .. Len(s) + 1 /\ k \in 1 - 1 .. Len(s) /\ Len(s) \in k .. Len(s)  BY <1>0
  <2> QED  BY <2>1, ConcatAdjacentSubSeq, SubSeqFull DEF ++
<1>7. Len(First(s, k)) = k /\ Len(Rest(s, k)) = Len(s) - k  BY <1>0, <1>3, <1>5 DEF First, Rest
<1>8. \A p \in 1 .. k : First(s, k)[p] = s[p]
  <2> SUFFICES ASSUME NEW p \in 1 .. k  PROVE First(s, k)[p] = s[p]  OBVIOUS
  <2>1. p \in 1 .. (k - 1) + 1 /\ (1 + p) - 1 = p  BY <1>0
  <2> QED  BY <1>3, <2>1 DEF First
<1>9. \A p \in 1 .. Len(s) - k : Rest(s, k)[p] = s[k + p]
  <2> SUFFICES ASSUME NEW p \in 1 .. Len(s) - k  PROVE Rest(s, k)[p] = s[k + p]  OBVIOUS
  <2>1. p \in 1 .. (Len(s) - (k + 1)) + 1 /\ ((k + 1) + p) - 1 = k + p  BY <1>0
  <2> QED  BY <1>5, <2>1 DEF Rest
<1>10. First(s, k) \in Seq(S) /\ Rest(s, k) \in Seq(S) /\ s = First(s, k) ++ Rest(s, k)
  BY <1>3, <1>5, <1>6 DEF First, Rest
<1>11. (First(s, k) = <<>> <=> k = 0) /\ (Rest(s, k) = <<>> <=> k = Len(s))
  <2>1. /\ First(s, k) = <<>> <=> Len(First(s, k)) = 0
        /\ Rest(s, k) = <<>> <=> Len(Rest(s, k)) = 0
    BY <1>10, EmptySeq
  <2> QED  BY <1>0, <1>7, <2>1
<1> QED  BY <1>7, <1>8, <1>9, <1>10, <1>11

\* A list cut at its ends.
LEMMA SplitEnds ==
  ASSUME NEW S, NEW s \in Seq(S)
  PROVE  /\ First(s, 0) = <<>> /\ Rest(s, 0) = s
         /\ First(s, Len(s)) = s /\ Rest(s, Len(s)) = <<>>
<1>1. Len(s) \in Nat  BY LenProperties
<1>2. 0 \in 0 .. Len(s) /\ Len(s) \in 0 .. Len(s)  BY <1>1
<1>3. First(s, 0) = <<>> /\ s = First(s, 0) ++ Rest(s, 0) /\ Rest(s, 0) \in Seq(S)  BY <1>2, SplitAt
<1>4. /\ Rest(s, Len(s)) = <<>> /\ s = First(s, Len(s)) ++ Rest(s, Len(s))
      /\ First(s, Len(s)) \in Seq(S)
  BY <1>2, SplitAt
<1> QED  BY <1>3, <1>4, CatEmpty

\* The pieces around entry i.
LEMMA SplitEntry ==
  ASSUME NEW S, NEW s \in Seq(S), NEW i \in 1 .. Len(s)
  PROVE  /\ s[i] \in S /\ i \in 0 .. Len(s) /\ i - 1 \in 0 .. Len(s) /\ One(s[i]) \in Seq(S)
         /\ First(s, i) = First(s, i - 1) ++ One(s[i])
         /\ Rest(s, i - 1) = One(s[i]) ++ Rest(s, i)
<1>0. Len(s) \in Nat /\ s[i] \in S  BY LenProperties, ElementOfSeq
<1>1. i \in 0 .. Len(s) /\ i - 1 \in 0 .. Len(s)  BY <1>0
<1>2. One(s[i]) \in Seq(S)  BY <1>0, OneFacts
<1>3. SubSeq(s, 1, i) = SubSeq(s, 1, i - 1) ++ <<s[i]>>
  <2>1. 1 \in 1 .. Len(s) /\ i \in 1 .. Len(s)  BY <1>0
  <2> QED  BY <2>1, SubSeqRecursiveSecond DEF ++
<1>4. SubSeq(s, i, Len(s)) = <<s[i]>> ++ SubSeq(s, i + 1, Len(s))
  <2>1. Len(s) \in i .. Len(s)  BY <1>0
  <2> QED  BY <2>1, SubSeqRecursiveFirst DEF ++
<1>5. (i - 1) + 1 = i  BY <1>0
<1> QED  BY <1>0, <1>1, <1>2, <1>3, <1>4, <1>5 DEF First, Rest, One

\* The node a list with the pieces u and v has before and behind the cut.
End(h, u) == IF u = <<>> THEN h ELSE Last(u)
Start(h, v) == IF v = <<>> THEN h ELSE v[1]

\* The nodes on both sides of a cut.
LEMMA EndsOf ==
  ASSUME NEW h \in Heads, NEW u \in Seq(Entries)
  PROVE  /\ Last(One(h) ++ u) = End(h, u) /\ (u ++ One(h))[1] = Start(h, u)
         /\ End(h, u) \in Nodes /\ Start(h, u) \in Nodes
         /\ End(h, u) \in {h} \cup Items(u) /\ Start(h, u) \in {h} \cup Items(u)
<1>1. /\ One(h) \in Seq(Nodes) /\ u \in Seq(Nodes) /\ h \in Nodes
      /\ Last(One(h)) = h /\ One(h)[1] = h
  BY RingFacts, OneFacts
<1>2. CASE u = <<>>
  <2>1. One(h) ++ u = One(h) /\ u ++ One(h) = One(h)  BY <1>1, <1>2, CatEmpty
  <2> QED  BY <1>1, <1>2, <2>1 DEF End, Start
<1>3. CASE u # <<>>
  <2>1. Last(One(h) ++ u) = Last(u) /\ (u ++ One(h))[1] = u[1]  BY <1>1, <1>3, CatEnds
  <2>2. u \in Chains  BY <1>1, <1>3 DEF Chains
  <2> QED  BY <1>3, <2>1, <2>2, ChainFacts DEF End, Start
<1> QED  BY <1>2, <1>3

\* The ring of h, begun behind a cut.
LEMMA RingCut ==
  ASSUME NEW h \in Heads, NEW u \in Seq(Entries), NEW v \in Seq(Entries), Once(u ++ v),
         NEW w, w = v ++ (One(h) ++ u)
  PROVE  /\ w \in Chains /\ Once(w) /\ \A m : Circle(m, One(h) ++ (u ++ v)) => Circle(m, w)
         /\ Last(w) = End(h, u) /\ w[1] = Start(h, v)
<1>1. u ++ v \in Seq(Entries)  BY CatSeq
<1>2. PICK a : a = One(h) ++ u  OBVIOUS
<1>3. /\ u \in Seq(Nodes) /\ v \in Seq(Nodes) /\ One(h) \in Seq(Nodes) /\ a \in Seq(Nodes)
      /\ a # <<>> /\ a[1] = h
  BY <1>2, RingFacts DEF Chains
<1>4. One(h) ++ (u ++ v) = a ++ v  BY <1>2, <1>3, Assoc
<1>5. ASSUME NEW m, Circle(m, One(h) ++ (u ++ v))  PROVE Circle(m, v ++ a)
  BY <1>3, <1>4, <1>5, Turned
<1>6. Once(v ++ a)
  <2>1. Once(One(h) ++ (u ++ v))  BY <1>1, RingFacts
  <2>2. Once(a) /\ Once(v) /\ Apart(a, v)  BY <1>3, <1>4, <2>1, CatOnce
  <2> QED  BY <1>3, <2>2, CatOnce DEF Apart
<1>7. v ++ a \in Chains /\ Last(v ++ a) = Last(a)  BY <1>3, CatEnds
<1>8. Last(a) = End(h, u)  BY <1>2, EndsOf
<1>9. (v ++ a)[1] = Start(h, v)
  <2>1. CASE v = <<>>
    <3>1. v ++ a = a  BY <1>3, <2>1, CatEmpty
    <3> QED  BY <1>3, <2>1, <3>1 DEF Start
  <2>2. CASE v # <<>>
    <3>1. (v ++ a)[1] = v[1]  BY <1>3, <2>2, CatEnds
    <3> QED  BY <2>2, <3>1 DEF Start
  <2> QED  BY <2>1, <2>2
<1>10. w = v ++ a  BY <1>2
<1> QED  BY <1>5, <1>6, <1>7, <1>8, <1>9, <1>10

\* The nodes of a ring that is cut.
LEMMA RingItems ==
  ASSUME NEW h \in Heads, NEW u \in Seq(Entries), NEW v \in Seq(Entries)
  PROVE  Items(v ++ (One(h) ++ u)) = {h} \cup Items(u) \cup Items(v)
<1>1. PICK a : a = One(h) ++ u  OBVIOUS
<1>2. v \in Seq(Nodes) /\ a \in Seq(Nodes) /\ Items(a) = {h} \cup Items(u)
  BY <1>1, RingFacts DEF Chains
<1>3. Items(v ++ a) = Items(v) \cup Items(a)  BY <1>2, CatItems
<1> QED  BY <1>1, <1>2, <1>3

----------------------------------------------------------------------------
(* The functions on the lists of all heads.                                *)

\* The entries on no list.
Off(L) == {e \in Entries : \A k \in Heads : e \notin Items(L[k])}

\* Four pieces.
LEMMA Assoc4 ==
  ASSUME NEW S, NEW a \in Seq(S), NEW b \in Seq(S), NEW c \in Seq(S), NEW d \in Seq(S)
  PROVE  ((a ++ b) ++ c) ++ d = a ++ ((b ++ c) ++ d)
<1>1. (a ++ b) ++ c = a ++ (b ++ c)  BY Assoc
<1>2. PICK e \in Seq(S) : e = b ++ c  BY CatSeq
<1>3. (a ++ e) ++ d = a ++ (e ++ d)  BY Assoc
<1> QED  BY <1>1, <1>2, <1>3

\* A list of three pieces.
LEMMA Cat3 ==
  ASSUME NEW S, NEW u \in Seq(S), NEW x \in Seq(S), NEW v \in Seq(S)
  PROVE  /\ (u ++ x) ++ v \in Seq(S)
         /\ Items((u ++ x) ++ v) = Items(u) \cup Items(x) \cup Items(v)
         /\ Once((u ++ x) ++ v) <=> /\ Once(u) /\ Once(x) /\ Once(v)
                                    /\ Apart(u, x) /\ Apart(u, v) /\ Apart(x, v)
<1>1. PICK a \in Seq(S) : a = u ++ x  BY CatSeq
<1>2. Items(a) = Items(u) \cup Items(x) /\ (Once(a) <=> Once(u) /\ Once(x) /\ Apart(u, x))
  BY <1>1, CatItems, CatOnce
<1>3. a ++ v \in Seq(S)  BY CatSeq
<1>4. Items(a ++ v) = Items(a) \cup Items(v)  BY CatItems
<1>5. Once(a ++ v) <=> Once(a) /\ Once(v) /\ Apart(a, v)  BY CatOnce
<1>6. Apart(a, v) <=> Apart(u, v) /\ Apart(x, v)  BY <1>2 DEF Apart
<1> QED  BY <1>1, <1>2, <1>3, <1>4, <1>5, <1>6

\* The ring of a list of three pieces, begun so that the middle one comes last.
LEMMA Around ==
  ASSUME NEW m, NEW h \in Heads, NEW u \in Seq(Nodes), NEW x \in Seq(Nodes), NEW v \in Seq(Nodes)
  PROVE  Circle(m, One(h) ++ ((u ++ x) ++ v)) <=> Circle(m, (v ++ (One(h) ++ u)) ++ x)
<1>1. One(h) \in Seq(Nodes)  BY RingFacts, EmptySeq
<1>2. PICK a \in Seq(Nodes) : a = One(h) ++ u  BY <1>1, CatSeq
<1>3. PICK b \in Seq(Nodes) : b = a ++ x  BY CatSeq
<1>4. b ++ v = One(h) ++ ((u ++ x) ++ v)  BY <1>1, <1>2, <1>3, Assoc4
<1>5. (v ++ a) ++ x = v ++ b  BY <1>3, Assoc
<1>6. Circle(m, b ++ v) <=> Circle(m, v ++ b)  BY Turned
<1> QED  BY <1>2, <1>4, <1>5, <1>6

\* An entry is put between two pieces.
LEMMA Inserts ==
  ASSUME NEW m, NEW L, NEW V, Holds(m, L, V), NEW h \in V, NEW e \in Off(L),
         NEW u \in Seq(Entries), NEW v \in Seq(Entries), L[h] = u ++ v
  PROVE  Holds(__list_add(m, e, End(h, u), Start(h, v)), [L EXCEPT ![h] = (u ++ One(e)) ++ v], V)
<1>1. /\ m \in Mem /\ h \in Heads /\ Once(u ++ v) /\ Circle(m, One(h) ++ (u ++ v))
      /\ e \in Entries /\ e \notin Items(u ++ v)
  BY DEF Holds, Off
<1>2. Items(u ++ v) = Items(u) \cup Items(v) /\ Once(u) /\ Once(v) /\ Apart(u, v)
  BY <1>1, CatItems, CatOnce
<1>4. PICK a : a = One(h) ++ u  OBVIOUS
<1>5. PICK w : w = v ++ a  OBVIOUS
<1>6. PICK n : n = __list_add(m, e, Last(w), w[1])  OBVIOUS
<1>7. /\ w \in Chains /\ Once(w) /\ Circle(m, w)
      /\ Last(w) = End(h, u) /\ w[1] = Start(h, v)
  BY <1>1, <1>4, <1>5, RingCut
<1>8. Items(w) = {h} \cup Items(u) \cup Items(v)  BY <1>1, <1>4, <1>5, RingItems
<1>9. u \in Seq(Nodes) /\ v \in Seq(Nodes) /\ One(h) \in Seq(Nodes) /\ a \in Seq(Nodes)
  BY <1>1, <1>4, RingFacts DEF Chains
<1>10. e \in Nodes \ Items(w)  BY <1>1, <1>2, <1>8, ListAssumption DEF Nodes
<1>11. One(e) \in Seq(Nodes) /\ One(e) \in Seq(Entries) /\ Items(One(e)) = {e} /\ Once(One(e))
  BY <1>1, <1>10, OneFacts
<1>12. n \in Mem /\ Circle(n, w ++ One(e)) /\ SameBut(m, n, Items(w) \cup {e})
  BY <1>1, <1>6, <1>7, <1>10, Added DEF Circle
<1>13. PICK t \in Seq(Entries) : t = (u ++ One(e)) ++ v  BY <1>11, Cat3
<1>14. Circle(n, One(h) ++ t)  BY <1>1, <1>4, <1>5, <1>9, <1>11, <1>12, <1>13, Around
<1>15. Items(t) = Items(u) \cup {e} \cup Items(v)  BY <1>11, <1>13, Cat3
<1>16. Once(t)
  <2>1. Apart(u, One(e)) /\ Apart(One(e), v)  BY <1>1, <1>2, <1>11 DEF Apart
  <2> QED  BY <1>2, <1>11, <1>13, <2>1, Cat3
<1>17. SameBut(m, n, {h} \cup Items(L[h]) \cup {e})
  <2>1. Items(w) \cup {e} = {h} \cup Items(L[h]) \cup {e}  BY <1>2, <1>8
  <2> QED  BY <1>12, <2>1
<1>18. {e} \subseteq {x \in Entries : \A l \in Heads : x \notin Items(L[l])}  BY DEF Off
<1>19. Items(t) \subseteq Items(L[h]) \cup {e}  BY <1>2, <1>15
<1>20. Holds(n, [L EXCEPT ![h] = t], V \cup {h})
  BY <1>1, <1>12, <1>14, <1>16, <1>17, <1>18, <1>19, ChangesOne
<1>21. V \cup {h} = V  OBVIOUS
<1> QED  BY <1>6, <1>7, <1>13, <1>20, <1>21

\* The nodes on both sides of a cut are linked.
LEMMA Neighbours ==
  ASSUME NEW m, NEW L, NEW V, Holds(m, L, V), NEW h \in V,
         NEW u \in Seq(Entries), NEW v \in Seq(Entries), L[h] = u ++ v
  PROVE  m.next[End(h, u)] = Start(h, v) /\ m.prev[Start(h, v)] = End(h, u)
<1>1. /\ m \in Mem /\ h \in Heads /\ Once(u ++ v) /\ Circle(m, One(h) ++ (u ++ v))
  BY DEF Holds
<1>2. PICK w : w = v ++ (One(h) ++ u)  OBVIOUS
<1>3. Circle(m, w) /\ Last(w) = End(h, u) /\ w[1] = Start(h, v)  BY <1>1, <1>2, RingCut
<1> QED  BY <1>3, CircleEnds

\* list_add behind, list_add_tail before the cut.
LEMMA ListAdds ==
  ASSUME NEW m, NEW L, NEW V, Holds(m, L, V), NEW h \in V, NEW e \in Off(L),
         NEW u \in Seq(Entries), NEW v \in Seq(Entries), L[h] = u ++ v
  PROVE  /\ Holds(list_add(m, e, End(h, u)), [L EXCEPT ![h] = (u ++ One(e)) ++ v], V)
         /\ Holds(list_add_tail(m, e, Start(h, v)), [L EXCEPT ![h] = (u ++ One(e)) ++ v], V)
BY Neighbours, Inserts DEF list_add, list_add_tail

\* The pieces around an entry.
LEMMA EntryFacts ==
  ASSUME NEW m, NEW L, NEW V, Holds(m, L, V), NEW h \in V, NEW x \in Entries,
         NEW u \in Seq(Entries), NEW v \in Seq(Entries), L[h] = (u ++ One(x)) ++ v
  PROVE  /\ m \in Mem /\ h \in Heads /\ x \in Nodes
         /\ One(x) \in Seq(Entries) /\ One(x) \in Seq(Nodes) /\ Items(One(x)) = {x}
         /\ u \in Seq(Nodes) /\ v \in Seq(Nodes)
         /\ Once(u) /\ Once(v) /\ Apart(u, v) /\ x \notin Items(u) /\ x \notin Items(v) /\ x # h
         /\ Items(L[h]) = Items(u) \cup {x} \cup Items(v)
         /\ Circle(m, (v ++ (One(h) ++ u)) ++ One(x))
<1>1. m \in Mem /\ h \in Heads /\ Once(L[h]) /\ Circle(m, One(h) ++ L[h])  BY DEF Holds
<1>2. /\ One(x) \in Seq(Entries) /\ One(x) \in Seq(Nodes) /\ Items(One(x)) = {x} /\ x \in Nodes
  BY OneFacts DEF Nodes
<1>3. u \in Seq(Nodes) /\ v \in Seq(Nodes)  BY <1>1, RingFacts
<1>4. Once(u) /\ Once(v) /\ Apart(u, v) /\ Apart(u, One(x)) /\ Apart(One(x), v)
  BY <1>1, <1>2, Cat3
<1>5. x \notin Items(u) /\ x \notin Items(v)  BY <1>2, <1>4 DEF Apart
<1>6. Items(L[h]) = Items(u) \cup {x} \cup Items(v)  BY <1>2, Cat3
<1>7. Circle(m, (v ++ (One(h) ++ u)) ++ One(x))  BY <1>1, <1>2, <1>3, Around
<1>8. x # h  BY <1>1, ListAssumption
<1> QED  BY <1>1, <1>2, <1>3, <1>4, <1>5, <1>6, <1>7, <1>8

\* An entry that a list loses is on no list.
LEMMA OffBecomes ==
  ASSUME NEW m, NEW L, NEW V, Holds(m, L, V), NEW h \in Heads, NEW s \in Seq(Entries),
         NEW x \in Entries, x \notin Items(s), x \in Off(L) \/ x \in Items(L[h])
  PROVE  x \in Off([L EXCEPT ![h] = s])
<1>1. L \in [Heads -> Seq(Entries)] /\ \A k \in Heads \ {h} : Apart(L[h], L[k])  BY DEF Holds
<1>2. \A k \in Heads \ {h} : x \notin Items(L[k])  BY <1>1 DEF Off, Apart
<1>3. PICK K : K = [L EXCEPT ![h] = s]  OBVIOUS
<1>4. K[h] = s /\ \A k \in Heads \ {h} : K[k] = L[k]  BY <1>1, <1>3
<1>5. \A k \in Heads : x \notin Items(K[k])  BY <1>2, <1>4
<1> QED  BY <1>3, <1>5 DEF Off

\* __list_del_entry takes the entry between two pieces off.
LEMMA Deletes ==
  ASSUME NEW m, NEW L, NEW V, Holds(m, L, V), NEW h \in V, NEW x \in Entries,
         NEW u \in Seq(Entries), NEW v \in Seq(Entries), L[h] = (u ++ One(x)) ++ v
  PROVE  /\ Holds(__list_del_entry(m, x), [L EXCEPT ![h] = u ++ v], V)
         /\ x \in Off([L EXCEPT ![h] = u ++ v])
<1>1. /\ m \in Mem /\ h \in Heads /\ x \in Nodes
      /\ One(x) \in Seq(Entries) /\ One(x) \in Seq(Nodes) /\ Items(One(x)) = {x}
      /\ u \in Seq(Nodes) /\ v \in Seq(Nodes)
      /\ Once(u) /\ Once(v) /\ Apart(u, v) /\ x \notin Items(u) /\ x \notin Items(v)
      /\ Items(L[h]) = Items(u) \cup {x} \cup Items(v)
      /\ Circle(m, (v ++ (One(h) ++ u)) ++ One(x))
  BY EntryFacts
<1>2. Once(u ++ v) /\ u ++ v \in Seq(Entries)  BY <1>1, CatOnce, CatSeq
<1>3. Items(u ++ v) = Items(u) \cup Items(v)  BY CatItems
<1>4. PICK w : w = v ++ (One(h) ++ u)  OBVIOUS
<1>5. w \in Chains /\ Once(w)  BY <1>1, <1>2, <1>4, RingCut
<1>6. Items(w) = {h} \cup Items(u) \cup Items(v)  BY <1>1, <1>4, RingItems
<1>7. PICK n : n = __list_del_entry(m, x)  OBVIOUS
<1>8. n \in Mem /\ Circle(n, w) /\ SameBut(m, n, Items(w))  BY <1>1, <1>4, <1>5, <1>7, Removed
<1>9. Circle(n, One(h) ++ (u ++ v))
  <2>1. One(h) \in Seq(Nodes) /\ One(h) ++ u \in Seq(Nodes)  BY <1>1, RingFacts, CatSeq
  <2>2. Circle(n, (One(h) ++ u) ++ v)  BY <1>1, <1>4, <1>8, <2>1, Turned
  <2> QED  BY <1>1, <2>1, <2>2, Assoc
<1>T. PICK T : T = {}  OBVIOUS
<1>10. /\ SameBut(m, n, {h} \cup Items(L[h]) \cup T)
       /\ T \subseteq {y \in Entries : \A l \in Heads : y \notin Items(L[l])}
  BY <1>1, <1>6, <1>8, <1>T DEF SameBut
<1>11. PICK t \in Seq(Entries) : t = u ++ v  BY <1>2
<1>12. /\ Once(t) /\ Circle(n, One(h) ++ t) /\ Items(t) \subseteq Items(L[h]) \cup T
       /\ x \notin Items(t)
  BY <1>1, <1>2, <1>3, <1>9, <1>11
<1>13. Holds(n, [L EXCEPT ![h] = t], V \cup {h})  BY <1>1, <1>8, <1>10, <1>12, ChangesOne
<1>14. V \cup {h} = V  OBVIOUS
<1>15. x \in Off([L EXCEPT ![h] = t])  BY <1>1, <1>12, OffBecomes
<1> QED  BY <1>7, <1>11, <1>13, <1>14, <1>15

\* list_replace puts an entry into the place of another one.
LEMMA ReplacesEntry ==
  ASSUME NEW m, NEW L, NEW V, Holds(m, L, V), NEW h \in V, NEW x \in Entries, NEW e \in Off(L),
         NEW u \in Seq(Entries), NEW v \in Seq(Entries), L[h] = (u ++ One(x)) ++ v
  PROVE  /\ Holds(list_replace(m, x, e), [L EXCEPT ![h] = (u ++ One(e)) ++ v], V)
         /\ x \in Off([L EXCEPT ![h] = (u ++ One(e)) ++ v])
<1>1. /\ m \in Mem /\ h \in Heads /\ x \in Nodes
      /\ One(x) \in Seq(Entries) /\ One(x) \in Seq(Nodes) /\ Items(One(x)) = {x}
      /\ u \in Seq(Nodes) /\ v \in Seq(Nodes)
      /\ Once(u) /\ Once(v) /\ Apart(u, v) /\ x \notin Items(u) /\ x \notin Items(v) /\ x # h
      /\ Items(L[h]) = Items(u) \cup {x} \cup Items(v)
      /\ Circle(m, (v ++ (One(h) ++ u)) ++ One(x))
  BY EntryFacts
<1>2. e \in Entries /\ e \notin Items(L[h]) /\ e # h  BY <1>1, ListAssumption DEF Off
<1>3. /\ One(e) \in Seq(Entries) /\ One(e) \in Seq(Nodes) /\ Items(One(e)) = {e} /\ Once(One(e))
      /\ e \in Nodes
  BY <1>2, OneFacts DEF Nodes
<1>4. PICK w : w = v ++ (One(h) ++ u)  OBVIOUS
<1>5. w \in Chains /\ Once(w) /\ w \in Seq(Nodes)
  <2>1. Once(u ++ v)  BY <1>1, CatOnce
  <2> QED  BY <1>1, <1>4, <2>1, RingCut DEF Chains
<1>6. Items(w) = {h} \cup Items(u) \cup Items(v)  BY <1>1, <1>4, RingItems
<1>7. Once(w ++ One(x))
  <2>1. Apart(w, One(x)) /\ Once(One(x))  BY <1>1, <1>6, OneFacts DEF Apart
  <2> QED  BY <1>1, <1>5, <2>1, CatOnce
<1>8. PICK n : n = list_replace(m, x, e)  OBVIOUS
<1>9. n \in Mem /\ Circle(n, w ++ One(e)) /\ SameBut(m, n, Items(w) \cup {x, e})
  <2>1. e \in Nodes \ (Items(w) \cup {x})  BY <1>1, <1>2, <1>3, <1>6
  <2>2. Circle(m, w ++ One(x))  BY <1>1, <1>4
  <2> QED  BY <1>1, <1>5, <1>7, <1>8, <2>1, <2>2, Replaced
<1>10. PICK t \in Seq(Entries) : t = (u ++ One(e)) ++ v  BY <1>3, Cat3
<1>11. Circle(n, One(h) ++ t)  BY <1>1, <1>3, <1>4, <1>9, <1>10, Around
<1>12. Items(t) = Items(u) \cup {e} \cup Items(v)  BY <1>3, <1>10, Cat3
<1>13. Once(t)
  <2>1. Apart(u, One(e)) /\ Apart(One(e), v)  BY <1>1, <1>2, <1>3 DEF Apart
  <2> QED  BY <1>1, <1>3, <1>10, <2>1, Cat3
<1>14. SameBut(m, n, {h} \cup Items(L[h]) \cup {e})
  <2>1. Items(w) \cup {x, e} = {h} \cup Items(L[h]) \cup {e}  BY <1>1, <1>6
  <2> QED  BY <1>9, <2>1
<1>15. {e} \subseteq {y \in Entries : \A l \in Heads : y \notin Items(L[l])}  BY DEF Off
<1>16. Items(t) \subseteq Items(L[h]) \cup {e} /\ x \notin Items(t)  BY <1>1, <1>2, <1>12
<1>17. Holds(n, [L EXCEPT ![h] = t], V \cup {h})
  BY <1>1, <1>9, <1>11, <1>13, <1>14, <1>15, <1>16, ChangesOne
<1>18. V \cup {h} = V  OBVIOUS
<1>19. x \in Off([L EXCEPT ![h] = t])  BY <1>1, <1>16, OffBecomes
<1> QED  BY <1>8, <1>10, <1>17, <1>18, <1>19

\* INIT_LIST_HEAD of a head with an empty list, and of an entry on no list.
LEMMA Initialises ==
  ASSUME NEW m, NEW L, NEW V, Holds(m, L, V), NEW h \in Heads, L[h] = <<>>
  PROVE  Holds(INIT_LIST_HEAD(m, h), L, V \cup {h})
<1>1. m \in Mem /\ L \in [Heads -> Seq(Entries)]  BY DEF Holds
<1>2. PICK t \in Seq(Entries) : t = L[h]  BY <1>1
<1>3. /\ h \in Nodes /\ One(h) \in Chains /\ Once(One(h)) /\ One(h)[1] = h /\ Last(One(h)) = h
      /\ One(h) \in Seq(Nodes)
  BY RingFacts, OneFacts, EmptySeq
<1>4. PICK n : n = Link(m, h, h)  OBVIOUS
<1>5. n \in Mem /\ \A S : h \in S => SameBut(m, n, S)  BY <1>1, <1>3, <1>4, LinkFacts
<1>6. Circle(n, One(h))  BY <1>1, <1>3, <1>4, OneChain, Closes
<1>7. One(h) ++ t = One(h)  BY <1>2, <1>3, CatEmpty
<1>8. Circle(n, One(h) ++ t) /\ Once(t)  BY <1>2, <1>6, <1>7 DEF Holds
<1>T. PICK T : T = {}  OBVIOUS
<1>9. /\ SameBut(m, n, {h} \cup Items(L[h]) \cup T) /\ Items(t) \subseteq Items(L[h]) \cup T
      /\ T \subseteq {y \in Entries : \A l \in Heads : y \notin Items(L[l])}
  BY <1>2, <1>5, <1>T
<1>10. Holds(n, [L EXCEPT ![h] = t], V \cup {h})  BY <1>5, <1>8, <1>9, ChangesOne
<1>11. [L EXCEPT ![h] = t] = L  BY <1>1, <1>2
<1>12. INIT_LIST_HEAD(m, h) = n  BY <1>1, <1>3, <1>4, InitLinks
<1> QED  BY <1>10, <1>11, <1>12

\* What becomes of the pointers of an entry on no list does not matter.
LEMMA ForgetsEntry ==
  ASSUME NEW m, NEW L, NEW V, Holds(m, L, V), NEW x \in Off(L)
  PROVE  /\ Holds(INIT_LIST_HEAD(m, x), L, V)
         /\ Holds([m EXCEPT !.next[x] = LIST_POISON1, !.prev[x] = LIST_POISON2], L, V)
         /\ Holds([m EXCEPT !.prev[x] = NULL], L, V)
         /\ Holds([m EXCEPT !.prev[x] = x, !.next[x] = x], L, V)
<1>1. m \in Mem /\ x \in Nodes  BY DEF Holds, Off, Nodes
<1>2. {x} \subseteq {e \in Entries : \A k \in Heads : e \notin Items(L[k])}  BY DEF Off
<1>3. INIT_LIST_HEAD(m, x) \in Mem /\ SameBut(m, INIT_LIST_HEAD(m, x), {x})
  BY <1>1, InitLinks, LinkFacts
<1>4. /\ [m EXCEPT !.next[x] = LIST_POISON1, !.prev[x] = LIST_POISON2] \in Mem
      /\ SameBut(m, [m EXCEPT !.next[x] = LIST_POISON1, !.prev[x] = LIST_POISON2], {x})
  BY <1>1 DEF Mem, Pointers, SameBut
<1>5. /\ [m EXCEPT !.prev[x] = NULL] \in Mem
      /\ SameBut(m, [m EXCEPT !.prev[x] = NULL], {x})
  BY <1>1 DEF Mem, Pointers, SameBut
<1>6. /\ [m EXCEPT !.prev[x] = x, !.next[x] = x] \in Mem
      /\ SameBut(m, [m EXCEPT !.prev[x] = x, !.next[x] = x], {x})
  BY <1>1 DEF Mem, Pointers, SameBut
<1> QED  BY <1>2, <1>3, <1>4, <1>5, <1>6, ChangesNone

\* The case of two lists.
LEMMA ChangesTwo ==
  ASSUME NEW m, NEW L, NEW V, Holds(m, L, V), NEW n \in Mem, NEW h \in Heads, NEW g \in Heads,
         h # g, NEW s \in Seq(Entries), NEW t \in Seq(Entries), NEW W \in SUBSET Heads,
         Once(s), Once(t), Apart(s, t),
         Items(s) \cup Items(t) \subseteq Items(L[h]) \cup Items(L[g]),
         SameBut(m, n, {h, g} \cup Items(L[h]) \cup Items(L[g])),
         \A k \in Heads \ {h, g} : k \in W <=> k \in V,
         h \in W => Circle(n, One(h) ++ s), h \notin W => s = <<>>,
         g \in W => Circle(n, One(g) ++ t), g \notin W => t = <<>>
  PROVE  Holds(n, [L EXCEPT ![h] = s, ![g] = t], W)
<1>1. L \in [Heads -> Seq(Entries)]  BY DEF Holds
<1>2. PICK K : K = [L EXCEPT ![h] = s, ![g] = t]  OBVIOUS
<1>3. /\ K \in [Heads -> Seq(Entries)] /\ K[h] = s /\ K[g] = t
      /\ \A k \in Heads \ {h, g} : K[k] = L[k]
  BY <1>1, <1>2
<1>4. PICK D \in SUBSET Heads : D = {h, g}  OBVIOUS
<1>5. {h, g} \cup Items(L[h]) \cup Items(L[g]) \subseteq Free(L, D)
  <2>1. \A k \in D : {k} \cup Items(L[k]) \subseteq Free(L, D)  BY OwnAreFree
  <2> QED  BY <1>4, <2>1
<1>6. SameBut(m, n, Free(L, D))  BY <1>5 DEF SameBut
<1>7. /\ \A k \in Heads \ D : K[k] = L[k] /\ (k \in W <=> k \in V)
      /\ \A k \in D : /\ Once(K[k]) /\ Items(K[k]) \subseteq Free(L, D)
                      /\ k \in W => Circle(n, One(k) ++ K[k])
                      /\ k \notin W => K[k] = <<>>
      /\ \A k, l \in D : k # l => Apart(K[k], K[l])
  <2>1. Apart(K[h], K[g]) /\ Apart(K[g], K[h])  BY <1>3 DEF Apart
  <2>2. Items(s) \subseteq Free(L, D) /\ Items(t) \subseteq Free(L, D)  BY <1>5
  <2> QED  BY <1>3, <1>4, <2>1, <2>2
<1>8. Holds(n, K, W)  BY <1>3, <1>6, <1>7, Changes
<1> QED  BY <1>2, <1>8

\* A list gets a new head.
LEMMA ReplacesHead ==
  ASSUME NEW m, NEW L, NEW V, Holds(m, L, V), NEW h \in V, NEW new \in Heads \ V
  PROVE  Holds(list_replace(m, h, new), [L EXCEPT ![new] = L[h], ![h] = <<>>], (V \ {h}) \cup {new})
<1>1. /\ m \in Mem /\ V \subseteq Heads /\ h \in Heads /\ L[h] \in Seq(Entries) /\ Once(L[h])
      /\ Circle(m, One(h) ++ L[h]) /\ L[new] = <<>>
  BY DEF Holds
<1>2. PICK s \in Seq(Entries) : s = L[h]  BY <1>1
<1>3. /\ s \in Seq(Nodes) /\ One(h) \in Seq(Nodes) /\ h \in Nodes /\ h \notin Items(s)
      /\ Once(One(h) ++ s)
  BY <1>1, <1>2, RingFacts
<1>4. new \in Nodes /\ One(new) \in Seq(Nodes) /\ new \notin Items(s)  BY RingFacts
<1>5. Circle(m, s ++ One(h))  BY <1>1, <1>2, <1>3, Turned
<1>6. Once(s ++ One(h))
  <2>1. Once(s) /\ Once(One(h)) /\ Apart(One(h), s)  BY <1>3, CatOnce
  <2> QED  BY <1>3, <2>1, CatOnce DEF Apart
<1>7. PICK n : n = list_replace(m, h, new)  OBVIOUS
<1>8. n \in Mem /\ Circle(n, s ++ One(new)) /\ SameBut(m, n, Items(s) \cup {h, new})
  <2>1. new \in Nodes \ (Items(s) \cup {h})  BY <1>4
  <2> QED  BY <1>1, <1>3, <1>5, <1>6, <1>7, <2>1, Replaced
<1>9. Circle(n, One(new) ++ s)  BY <1>3, <1>4, <1>8, Turned
<1>10. PICK t \in Seq(Entries) : t = <<>>  BY EmptySeq
<1>11. Items(t) = {} /\ Once(t)  BY <1>1, <1>10 DEF Items, Once
<1>12. SameBut(m, n, {new, h} \cup Items(L[new]) \cup Items(L[h]))  BY <1>2, <1>8 DEF SameBut
<1>13. PICK W \in SUBSET Heads : W = (V \ {h}) \cup {new}  BY <1>1
<1>14. Holds(n, [L EXCEPT ![new] = s, ![h] = t], W)
  <2>1. /\ Once(s) /\ Apart(s, t) /\ Items(s) \cup Items(t) \subseteq Items(L[new]) \cup Items(L[h])
    BY <1>1, <1>2, <1>11 DEF Apart
  <2>2. /\ \A k \in Heads \ {new, h} : k \in W <=> k \in V
        /\ new \in W /\ h \notin W /\ new # h
    BY <1>1, <1>13
  <2> QED  BY <1>1, <1>8, <1>9, <1>10, <1>11, <1>12, <2>1, <2>2, ChangesTwo
<1> QED  BY <1>2, <1>7, <1>10, <1>13, <1>14

\* A list of one piece, seen from its head.
LEMMA HeadsNeighbours ==
  ASSUME NEW m, NEW L, NEW V, Holds(m, L, V), NEW h \in V
  PROVE  m.next[h] = Start(h, L[h]) /\ m.prev[h] = End(h, L[h])
<1>1. h \in Heads /\ L[h] \in Seq(Entries)  BY DEF Holds
<1>2. PICK s \in Seq(Entries) : s = L[h]  BY <1>1
<1>3. PICK t \in Seq(Entries) : t = <<>>  BY EmptySeq
<1>4. s ++ t = s /\ t ++ s = s  BY <1>3, CatEmpty
<1>5. m.next[End(h, t)] = Start(h, s)  BY <1>2, <1>4, Neighbours
<1>6. m.prev[Start(h, t)] = End(h, s)  BY <1>2, <1>4, Neighbours
<1> QED  BY <1>2, <1>3, <1>5, <1>6 DEF Start, End

\* list_empty tells an empty list.
LEMMA Empty ==
  ASSUME NEW m, NEW L, NEW V, Holds(m, L, V), NEW h \in V
  PROVE  list_empty(m, h) <=> L[h] = <<>>
<1>1. h \in Heads /\ L[h] \in Seq(Entries)  BY DEF Holds
<1>2. PICK s \in Seq(Entries) : s = L[h]  BY <1>1
<1>3. m.next[h] = Start(h, s)  BY <1>2, HeadsNeighbours
<1>4. s # <<>> => Start(h, s) \in Entries
  BY ElementOfSeq, EmptySeq, LenProperties DEF Start
<1> QED  BY <1>1, <1>2, <1>3, <1>4, ListAssumption DEF Start, list_empty

\* __list_splice makes two links.
LEMMA SpliceLinks ==
  ASSUME NEW m \in Mem, NEW l \in Nodes, NEW a \in Nodes, NEW b \in Nodes,
         NEW c \in Nodes, NEW d \in Nodes, m.next[l] = c, m.prev[l] = d
  PROVE  __list_splice(m, l, a, b) = Link(Link(m, a, c), d, b)
<1>1. /\ __list_splice(m, l, a, b).next = [m.next EXCEPT ![a] = c, ![d] = b]
      /\ __list_splice(m, l, a, b).prev = [m.prev EXCEPT ![c] = a, ![b] = d]
      /\ __list_splice(m, l, a, b) \in Mem
  BY DEF __list_splice, Mem, Pointers
<1>2. /\ Link(Link(m, a, c), d, b).next = [m.next EXCEPT ![a] = c, ![d] = b]
      /\ Link(Link(m, a, c), d, b).prev = [m.prev EXCEPT ![c] = a, ![b] = d]
  BY DEF Link
<1>3. Link(Link(m, a, c), d, b) \in Mem  BY LinkFacts
<1> QED  BY <1>1, <1>2, <1>3, MemEqual

\* A list that is not empty is put between two pieces of another one.
LEMMA Splices ==
  ASSUME NEW m, NEW L, NEW V, Holds(m, L, V), NEW h \in V, NEW g \in V, g # h, L[g] # <<>>,
         NEW u \in Seq(Entries), NEW v \in Seq(Entries), L[h] = u ++ v
  PROVE  Holds(__list_splice(m, g, End(h, u), Start(h, v)),
               [L EXCEPT ![h] = (u ++ L[g]) ++ v, ![g] = <<>>], V \ {g})
<1>1. /\ m \in Mem /\ V \subseteq Heads /\ h \in Heads /\ g \in Heads /\ L[g] \in Seq(Entries)
      /\ Once(L[g]) /\ Once(u ++ v) /\ Circle(m, One(h) ++ (u ++ v)) /\ Circle(m, One(g) ++ L[g])
      /\ Apart(L[g], u ++ v)
  BY DEF Holds
<1>2. PICK t \in Seq(Entries) : t = L[g]  BY <1>1
<1>3. Items(u ++ v) = Items(u) \cup Items(v) /\ Once(u) /\ Once(v) /\ Apart(u, v)
  BY <1>1, CatItems, CatOnce
<1>4. /\ t \in Chains /\ t \in Seq(Nodes) /\ t # <<>> /\ g \in Nodes /\ One(g) \in Chains
      /\ u \in Seq(Nodes) /\ v \in Seq(Nodes)
  BY <1>1, <1>2, RingFacts DEF Chains
<1>5. m.next[g] = t[1] /\ m.prev[g] = Last(t)
  BY <1>2, <1>4, HeadsNeighbours DEF Start, End
<1>6. Chain(m, t)  BY <1>1, <1>2, <1>4, CatCircle
<1>7. PICK w : w = v ++ (One(h) ++ u)  OBVIOUS
<1>8. /\ w \in Chains /\ Once(w) /\ Circle(m, w)
      /\ Last(w) = End(h, u) /\ w[1] = Start(h, v)
  BY <1>1, <1>7, RingCut
<1>9. Items(w) = {h} \cup Items(u) \cup Items(v)  BY <1>1, <1>7, RingItems
<1>10. Apart(w, t)
  <2>1. h \notin Items(t)  BY <1>1, RingFacts
  <2> QED  BY <1>1, <1>2, <1>3, <1>9, <2>1 DEF Apart
<1>11. PICK n1 : n1 = Link(m, Last(w), t[1])  OBVIOUS
<1>12. PICK n : n = Link(n1, Last(t), w[1])  OBVIOUS
<1>13. /\ Last(w) \in Nodes /\ w[1] \in Nodes /\ Last(w) \in Items(w) /\ w[1] \in Items(w)
       /\ Last(t) \in Nodes /\ t[1] \in Nodes /\ Last(t) \in Items(t) /\ t[1] \in Items(t)
  BY <1>4, <1>8, ChainFacts
<1>14. Circle(n, w ++ t)
  BY <1>1, <1>2, <1>4, <1>6, <1>8, <1>10, <1>11, <1>12, JoinsCircle DEF Circle
<1>15. PICK S : S = Items(w) \cup Items(t)  OBVIOUS
<1>16. n1 \in Mem /\ SameBut(m, n1, S)  BY <1>1, <1>11, <1>13, <1>15, LinkFacts
<1>17. n \in Mem /\ SameBut(n1, n, S)  BY <1>12, <1>13, <1>15, <1>16, LinkFacts
<1>18. SameBut(m, n, {h, g} \cup Items(L[h]) \cup Items(L[g]))
  BY <1>2, <1>3, <1>9, <1>15, <1>16, <1>17 DEF SameBut
<1>19. __list_splice(m, g, End(h, u), Start(h, v)) = n
  BY <1>1, <1>4, <1>5, <1>8, <1>11, <1>12, <1>13, SpliceLinks
<1>20. PICK s \in Seq(Entries) : s = (u ++ t) ++ v  BY Cat3
<1>21. Circle(n, One(h) ++ s)  BY <1>1, <1>4, <1>7, <1>14, <1>20, Around
<1>22. Items(s) = Items(u) \cup Items(t) \cup Items(v)  BY <1>20, Cat3
<1>23. Once(s)
  <2>1. Apart(u, t) /\ Apart(t, v)  BY <1>1, <1>2, <1>3 DEF Apart
  <2> QED  BY <1>1, <1>2, <1>3, <1>20, <2>1, Cat3
<1>24. PICK z \in Seq(Entries) : z = <<>>  BY EmptySeq
<1>25. Items(z) = {} /\ Once(z)  BY <1>24 DEF Items, Once
<1>26. PICK W \in SUBSET Heads : W = V \ {g}  BY <1>1
<1>27. Holds(n, [L EXCEPT ![h] = s, ![g] = z], W)
  <2>1. Apart(s, z) /\ Items(s) \cup Items(z) \subseteq Items(L[h]) \cup Items(L[g])
    BY <1>2, <1>3, <1>22, <1>25 DEF Apart
  <2>2. /\ \A k \in Heads \ {h, g} : k \in W <=> k \in V
        /\ h \in W /\ g \notin W
    BY <1>1, <1>26
  <2> QED  BY <1>1, <1>17, <1>18, <1>21, <1>23, <1>24, <1>25, <2>1, <2>2, ChangesTwo
<1> QED  BY <1>2, <1>19, <1>20, <1>24, <1>26, <1>27

\* The four functions that splice.
LEMMA SplicesEach ==
  ASSUME NEW m, NEW L, NEW V, Holds(m, L, V), NEW h \in V, NEW g \in V, g # h
  PROVE  /\ Holds(list_splice(m, g, h), [L EXCEPT ![h] = L[g] ++ L[h], ![g] = <<>>],
                  IF L[g] = <<>> THEN V ELSE V \ {g})
         /\ Holds(list_splice_tail(m, g, h), [L EXCEPT ![h] = L[h] ++ L[g], ![g] = <<>>],
                  IF L[g] = <<>> THEN V ELSE V \ {g})
         /\ Holds(list_splice_init(m, g, h), [L EXCEPT ![h] = L[g] ++ L[h], ![g] = <<>>], V)
         /\ Holds(list_splice_tail_init(m, g, h), [L EXCEPT ![h] = L[h] ++ L[g], ![g] = <<>>], V)
<1>1. /\ m \in Mem /\ V \subseteq Heads /\ h \in Heads /\ g \in Heads
      /\ L[g] \in Seq(Entries) /\ L[h] \in Seq(Entries) /\ L \in [Heads -> Seq(Entries)]
  BY DEF Holds
<1>2. list_empty(m, g) <=> L[g] = <<>>  BY Empty
<1>3. PICK s \in Seq(Entries) : s = L[h]  BY <1>1
<1>4. PICK t \in Seq(Entries) : t = L[g]  BY <1>1
<1>5. PICK z \in Seq(Entries) : z = <<>>  BY EmptySeq
<1>6. z ++ s = s /\ s ++ z = s /\ z ++ t = t /\ t ++ z = t  BY <1>5, CatEmpty
<1>7. CASE t = <<>>
  <2>1. [L EXCEPT ![h] = s, ![g] = z] = L  BY <1>1, <1>3, <1>4, <1>5, <1>7
  <2>2. t ++ s = s /\ s ++ t = s  BY <1>5, <1>6, <1>7
  <2>3. /\ list_splice(m, g, h) = m /\ list_splice_tail(m, g, h) = m
        /\ list_splice_init(m, g, h) = m /\ list_splice_tail_init(m, g, h) = m
    BY <1>2, <1>4, <1>7
       DEF list_splice, list_splice_tail, list_splice_init, list_splice_tail_init
  <2> QED  BY <1>3, <1>4, <1>5, <1>7, <2>1, <2>2, <2>3
<1>8. CASE t # <<>>
  <2>1. PICK K1 : K1 = [L EXCEPT ![h] = t ++ s, ![g] = z]  OBVIOUS
  <2>2. PICK K2 : K2 = [L EXCEPT ![h] = s ++ t, ![g] = z]  OBVIOUS
  <2>3. K1[g] = <<>> /\ K2[g] = <<>>  BY <1>1, <1>5, <2>1, <2>2
  <2>4. Holds(list_splice(m, g, h), K1, V \ {g})
    <3>1. Holds(__list_splice(m, g, End(h, z), Start(h, s)),
                [L EXCEPT ![h] = (z ++ L[g]) ++ s, ![g] = <<>>], V \ {g})
      BY <1>3, <1>4, <1>6, <1>8, Splices
    <3>2. [L EXCEPT ![h] = (z ++ L[g]) ++ s, ![g] = <<>>] = K1  BY <1>4, <1>5, <1>6, <2>1
    <3>3. End(h, z) = h /\ Start(h, s) = m.next[h]  BY <1>3, <1>5, HeadsNeighbours DEF End
    <3> QED  BY <1>2, <1>4, <1>8, <3>1, <3>2, <3>3 DEF list_splice
  <2>5. Holds(list_splice_tail(m, g, h), K2, V \ {g})
    <3>1. Holds(__list_splice(m, g, End(h, s), Start(h, z)),
                [L EXCEPT ![h] = (s ++ L[g]) ++ z, ![g] = <<>>], V \ {g})
      BY <1>3, <1>4, <1>6, <1>8, Splices
    <3>2. (s ++ t) ++ z = s ++ t  BY <1>5, CatSeq, CatEmpty
    <3>3. [L EXCEPT ![h] = (s ++ L[g]) ++ z, ![g] = <<>>] = K2  BY <1>4, <1>5, <2>2, <3>2
    <3>4. Start(h, z) = h /\ End(h, s) = m.prev[h]  BY <1>3, <1>5, HeadsNeighbours DEF Start
    <3> QED  BY <1>2, <1>4, <1>8, <3>1, <3>3, <3>4 DEF list_splice_tail
  <2>6. (V \ {g}) \cup {g} = V  OBVIOUS
  <2>7. Holds(list_splice_init(m, g, h), K1, V)
    <3>1. Holds(INIT_LIST_HEAD(list_splice(m, g, h), g), K1, (V \ {g}) \cup {g})
      BY <1>1, <2>3, <2>4, Initialises
    <3> QED  BY <1>2, <1>4, <1>8, <2>6, <3>1 DEF list_splice_init
  <2>8. Holds(list_splice_tail_init(m, g, h), K2, V)
    <3>1. Holds(INIT_LIST_HEAD(list_splice_tail(m, g, h), g), K2, (V \ {g}) \cup {g})
      BY <1>1, <2>3, <2>5, Initialises
    <3> QED  BY <1>2, <1>4, <1>8, <2>6, <3>1 DEF list_splice_tail_init
  <2> QED  BY <1>3, <1>4, <1>5, <1>8, <2>1, <2>2, <2>4, <2>5, <2>7, <2>8
<1> QED  BY <1>7, <1>8

\* A link whose prev pointer is stored first.
LEMMA StoresPrevFirst ==
  ASSUME NEW m \in Mem, NEW a \in Nodes, NEW b \in Nodes
  PROVE  [m EXCEPT !.prev[b] = a, !.next[a] = b] = Link(m, a, b)
BY DelLinks DEF __list_del

\* The stores of the two cuts: tn is the end of the piece that is cut off, b
\* is what comes behind it.
LEMMA CutLinks ==
  ASSUME NEW m \in Mem, NEW g \in Nodes, NEW h \in Nodes, m.next[h] \in Nodes, NEW tn \in Nodes,
         NEW b \in Nodes, Linked(m, tn, b), b # m.next[h]
  PROVE  /\ __list_cut_position(m, g, h, tn) = Link(Link(Link(m, g, m.next[h]), tn, g), h, b)
         /\ list_cut_before(m, g, h, b) = Link(Link(Link(m, g, m.next[h]), tn, g), h, b)
<1>1. PICK t1 \in Nodes : t1 = m.next[h]  OBVIOUS
<1>2. PICK m1 \in Mem : m1 = Link(m, g, t1)  BY LinkFacts
<1>3. PICK m2 \in Mem : m2 = Link(m1, tn, g)  BY LinkFacts
<1>4. [m EXCEPT !.next[g] = t1, !.prev[t1] = g] = m1  BY <1>2, StoreLinks
<1>5. [m1 EXCEPT !.prev[g] = tn, !.next[tn] = g] = m2  BY <1>3, StoresPrevFirst
<1>6. [m2 EXCEPT !.next[h] = b, !.prev[b] = h] = Link(m2, h, b)  BY StoreLinks
<1>7. m1.prev[b] = tn  BY <1>1, <1>2, LinkPointers DEF Linked
<1>8. list_cut_before(m, g, h, b) = Link(m2, h, b)
  BY <1>1, <1>4, <1>5, <1>6, <1>7 DEF list_cut_before
<1>9. [m1 EXCEPT !.prev[g] = tn, !.next[tn] = g, !.next[h] = b, !.prev[b] = h]
        = [m2 EXCEPT !.next[h] = b, !.prev[b] = h]
  BY <1>5
<1>10. __list_cut_position(m, g, h, tn) = Link(m2, h, b)
  BY <1>1, <1>4, <1>6, <1>9 DEF __list_cut_position, Linked
<1> QED  BY <1>1, <1>2, <1>3, <1>8, <1>10


\* A piece that is not empty gets a head of its own.
LEMMA CutsPiece ==
  ASSUME NEW m, NEW L, NEW V, Holds(m, L, V), NEW h \in V, NEW g \in Heads, g # h, L[g] = <<>>,
         NEW t \in Seq(Entries), NEW v \in Seq(Entries), L[h] = t ++ v, t # <<>>
  PROVE  Holds(Link(Link(Link(m, g, t[1]), Last(t), g), h, Start(h, v)),
               [L EXCEPT ![g] = t, ![h] = v], V \cup {g})
<1>1. /\ m \in Mem /\ V \subseteq Heads /\ h \in Heads
      /\ Once(t ++ v) /\ Circle(m, One(h) ++ (t ++ v)) /\ L \in [Heads -> Seq(Entries)]
  BY DEF Holds
<1>2. Items(t ++ v) = Items(t) \cup Items(v) /\ Once(t) /\ Once(v) /\ Apart(t, v)
  BY <1>1, CatItems, CatOnce
<1>3. /\ t \in Chains /\ t \in Seq(Nodes) /\ v \in Seq(Nodes) /\ g \in Nodes /\ h \in Nodes
      /\ One(g) \in Chains /\ One(h) \in Chains /\ One(h) \in Seq(Nodes) /\ v ++ One(h) \in Chains
      /\ g \notin Items(t) /\ g \notin Items(v) /\ h \notin Items(t) /\ h \notin Items(v)
  BY <1>1, RingFacts DEF Chains
<1>4. PICK c \in Chains : c = v ++ One(h)  BY <1>3
<1>5. Chain(m, c) /\ Chain(m, t)
  <2>1. Circle(m, (One(h) ++ t) ++ v)  BY <1>1, <1>3, Assoc
  <2>2. One(h) ++ t \in Seq(Nodes)  BY <1>3, CatSeq
  <2>3. Circle(m, v ++ (One(h) ++ t))  BY <1>3, <2>1, <2>2, Turned
  <2>4. Circle(m, c ++ t)  BY <1>3, <1>4, <2>3, Assoc
  <2> QED  BY <1>3, <2>4, CatCircle
<1>6. Items(c) = Items(v) \cup {h}
  BY <1>3, <1>4, CatItems, OneFacts
<1>7. Once(c)
  <2>1. Apart(v, One(h)) /\ Once(One(h))  BY <1>3, OneFacts DEF Apart
  <2> QED  BY <1>2, <1>3, <1>4, <2>1, CatOnce
<1>8. Last(c) = h /\ c[1] = Start(h, v)
  <2>1. Last(c) = h  BY <1>3, <1>4, CatEnds, OneFacts DEF Chains
  <2> QED  BY <1>1, <1>4, <2>1, EndsOf
<1>9. PICK m1 : m1 = Link(m, g, t[1])  OBVIOUS
<1>10. PICK m2 : m2 = Link(m1, Last(t), g)  OBVIOUS
<1>11. PICK n : n = Link(m2, Last(c), c[1])  OBVIOUS
<1>12. /\ t[1] \in Nodes /\ Last(t) \in Nodes /\ t[1] \in Items(t) /\ Last(t) \in Items(t)
       /\ c[1] \in Nodes /\ Last(c) \in Nodes /\ c[1] \in Items(c) /\ Last(c) \in Items(c)
  BY <1>3, ChainFacts
<1>13. PICK S : S = {g} \cup Items(t)  OBVIOUS
<1>14. m1 \in Mem /\ SameBut(m, m1, S)  BY <1>1, <1>3, <1>9, <1>12, <1>13, LinkFacts
<1>15. m2 \in Mem /\ SameBut(m1, m2, S)  BY <1>3, <1>10, <1>12, <1>13, <1>14, LinkFacts
<1>16. n \in Mem /\ SameBut(m2, n, Items(c))  BY <1>11, <1>12, <1>15, LinkFacts
<1>17. SameBut(m, m2, S)  BY <1>14, <1>15 DEF SameBut
<1>18. Circle(m2, One(g) ++ t)
  <2>1. /\ Once(One(g)) /\ Apart(One(g), t) /\ One(g)[1] = g /\ Last(One(g)) = g /\ Chain(m, One(g))
    BY <1>3, OneFacts, OneChain DEF Apart
  <2> QED  BY <1>1, <1>2, <1>3, <1>5, <1>9, <1>10, <2>1, JoinsCircle
<1>19. Circle(n, One(g) ++ t)
  <2>1. One(g) ++ t \in Chains /\ Items(One(g) ++ t) = {g} \cup Items(t)  BY RingFacts
  <2>2. Items(One(g) ++ t) \cap Items(c) = {}  BY <1>2, <1>3, <1>6, <2>1 DEF Apart
  <2> QED  BY <1>16, <1>18, <2>1, <2>2, Elsewhere
<1>20. Circle(n, One(h) ++ v)
  <2>1. Items(c) \cap S = {}  BY <1>2, <1>3, <1>6, <1>13 DEF Apart
  <2>2. Chain(m2, c)  BY <1>5, <1>17, <2>1, Elsewhere
  <2>3. Circle(n, c)  BY <1>7, <1>11, <1>15, <2>2, Closes
  <2> QED  BY <1>3, <1>4, <2>3, Turned
<1>21. SameBut(m, n, {g, h} \cup Items(L[g]) \cup Items(L[h]))
  BY <1>2, <1>6, <1>13, <1>16, <1>17 DEF SameBut
<1>22. PICK W \in SUBSET Heads : W = V \cup {g}  BY <1>1
<1>23. /\ \A k \in Heads \ {g, h} : k \in W <=> k \in V
       /\ g \in W /\ h \in W
       /\ Items(t) \cup Items(v) \subseteq Items(L[g]) \cup Items(L[h])
  BY <1>1, <1>2, <1>22
<1>24. Holds(n, [L EXCEPT ![g] = t, ![h] = v], W)
  BY <1>1, <1>2, <1>16, <1>19, <1>20, <1>21, <1>23, ChangesTwo
<1> QED  BY <1>8, <1>9, <1>10, <1>11, <1>22, <1>24


\* The pieces at the ends of a list.
LEMMA PieceEnds ==
  ASSUME NEW m, NEW L, NEW V, Holds(m, L, V), NEW h \in V,
         NEW t \in Seq(Entries), NEW v \in Seq(Entries), L[h] = t ++ v, t # <<>>
  PROVE  /\ m.next[h] = t[1] /\ t[1] # Start(h, v) /\ t[1] \in Nodes /\ Last(t) \in Nodes
         /\ Linked(m, Last(t), Start(h, v)) /\ Start(h, v) \in Nodes /\ Last(t) # h
         /\ m.prev[h] = t[1] => t[1] = Last(t)
<1>1. /\ h \in Heads /\ Once(t ++ v) /\ L[h] \in Seq(Entries)  BY DEF Holds
<1>2. t \in Seq(Nodes) /\ v \in Seq(Nodes) /\ t \in Chains /\ h \notin Items(t)
  BY <1>1, RingFacts DEF Chains
<1>3. t[1] \in Items(t) /\ Last(t) \in Items(t) /\ t[1] \in Nodes /\ Last(t) \in Nodes
  BY <1>2, ChainFacts
<1>4. PICK s \in Seq(Entries) : s = t ++ v  BY <1>1
<1>5. s \in Chains /\ s # <<>> /\ s[1] = t[1]
  BY <1>2, <1>4, CatEnds DEF Chains
<1>6. m.next[h] = t[1]  BY <1>4, <1>5, HeadsNeighbours DEF Start
<1>7. m.prev[h] = Last(s)  BY <1>4, <1>5, HeadsNeighbours DEF End
<1>8. Linked(m, Last(t), Start(h, v))  BY Neighbours DEF Linked, End
<1>9. Start(h, v) \in Nodes /\ Start(h, v) \in {h} \cup Items(v)  BY <1>1, EndsOf
<1>10. Apart(t, v)  BY <1>1, CatOnce
<1>11. t[1] # Start(h, v) /\ Last(t) # h  BY <1>2, <1>3, <1>9, <1>10 DEF Apart
<1>12. Last(s) = t[1] => t[1] = Last(t)
  <2>1. v # <<>> => Last(s) \in Items(v)
    BY <1>2, <1>4, CatEnds, ChainFacts DEF Chains
  <2>2. v = <<>> => s = t  BY <1>4, CatEmpty
  <2> QED  BY <1>3, <1>10, <2>1, <2>2 DEF Apart
<1> QED  BY <1>3, <1>6, <1>7, <1>8, <1>9, <1>11, <1>12

\* The two functions that cut.
LEMMA Cuts ==
  ASSUME NEW m, NEW L, NEW V, Holds(m, L, V), NEW h \in V, NEW g \in Heads, g # h, L[g] = <<>>,
         NEW t \in Seq(Entries), NEW v \in Seq(Entries), L[h] = t ++ v
  PROVE  /\ Holds(list_cut_position(m, g, h, End(h, t)), [L EXCEPT ![g] = t, ![h] = v],
                  IF L[h] = <<>> THEN V ELSE V \cup {g})
         /\ Holds(list_cut_before(m, g, h, Start(h, v)), [L EXCEPT ![g] = t, ![h] = v],
                  V \cup {g})
<1>1. /\ m \in Mem /\ V \subseteq Heads /\ h \in Heads /\ L \in [Heads -> Seq(Entries)]
  BY DEF Holds
<1>2. list_empty(m, h) <=> L[h] = <<>>  BY Empty
<1>3. g \in Nodes /\ h \in Nodes  BY <1>1 DEF Nodes
<1>4. CASE t = <<>>
  <2>1. L[h] = v  BY <1>4, CatEmpty
  <2>2. [L EXCEPT ![g] = t, ![h] = v] = L  BY <1>1, <1>4, <2>1
  <2>3. Holds(INIT_LIST_HEAD(m, g), L, V \cup {g})  BY Initialises
  <2>4. End(h, t) = h /\ Start(h, v) = m.next[h]  BY <1>4, <2>1, HeadsNeighbours DEF End
  <2>5. list_cut_before(m, g, h, Start(h, v)) = INIT_LIST_HEAD(m, g)
    BY <2>4 DEF list_cut_before
  <2>6. list_cut_position(m, g, h, End(h, t)) = IF L[h] = <<>> THEN m ELSE INIT_LIST_HEAD(m, g)
    BY <1>2, <2>4 DEF list_cut_position
  <2> QED  BY <2>2, <2>3, <2>5, <2>6
<1>5. CASE t # <<>>
  <2>1. /\ m.next[h] = t[1] /\ t[1] # Start(h, v) /\ t[1] \in Nodes /\ Last(t) \in Nodes
        /\ Linked(m, Last(t), Start(h, v)) /\ Start(h, v) \in Nodes /\ Last(t) # h
        /\ m.prev[h] = t[1] => t[1] = Last(t)
    BY <1>5, PieceEnds
  <2>2. PICK n : n = Link(Link(Link(m, g, t[1]), Last(t), g), h, Start(h, v))  OBVIOUS
  <2>3. /\ __list_cut_position(m, g, h, Last(t)) = n
        /\ list_cut_before(m, g, h, Start(h, v)) = n
    BY <1>1, <1>3, <2>1, <2>2, CutLinks
  <2>4. Holds(n, [L EXCEPT ![g] = t, ![h] = v], V \cup {g})  BY <1>5, <2>2, CutsPiece
  <2>5. L[h] # <<>>
    <3>1. t \in Seq(Nodes) /\ v \in Seq(Nodes)  BY <1>1, RingFacts
    <3> QED  BY <1>5, <3>1, CatEnds DEF Chains
  <2>6. list_cut_position(m, g, h, End(h, t)) = n
    BY <1>2, <1>5, <2>1, <2>3, <2>5 DEF list_cut_position, list_is_singular, End
  <2> QED  BY <2>3, <2>4, <2>5, <2>6
<1> QED  BY <1>4, <1>5

\* list_bulk_move_tail makes three links.
LEMMA BulkLinks ==
  ASSUME NEW m \in Mem, NEW h \in Nodes, NEW x1 \in Nodes, NEW xn \in Nodes, NEW a \in Nodes,
         NEW b \in Nodes, Linked(m, a, x1), Linked(m, xn, b), Link(m, a, b).prev[h] \in Nodes
  PROVE  list_bulk_move_tail(m, h, x1, xn)
           = Link(Link(Link(m, a, b), Link(m, a, b).prev[h], x1), xn, h)
<1>1. PICK m1 \in Mem : m1 = Link(m, a, b)  BY LinkFacts
<1>2. PICK p \in Nodes : p = m1.prev[h]  BY <1>1
<1>3. PICK m2 \in Mem : m2 = Link(m1, p, x1)  BY LinkFacts
<1>4. [m EXCEPT !.next[a] = b, !.prev[b] = a] = m1  BY <1>1, StoreLinks
<1>5. [m1 EXCEPT !.next[p] = x1, !.prev[x1] = p] = m2  BY <1>3, StoreLinks
<1>6. [m2 EXCEPT !.next[xn] = h, !.prev[h] = xn] = Link(m2, xn, h)  BY StoreLinks
<1>7. m.prev[x1] = a /\ m.next[xn] = b  BY DEF Linked
<1>8. list_bulk_move_tail(m, h, x1, xn) = Link(m2, xn, h)
  BY <1>2, <1>4, <1>5, <1>6, <1>7 DEF list_bulk_move_tail
<1> QED  BY <1>1, <1>2, <1>3, <1>8


\* The middle one of three pieces, which is not empty, goes to the end.
LEMMA BulkMoves ==
  ASSUME NEW m, NEW L, NEW V, Holds(m, L, V), NEW h \in V, NEW u \in Seq(Entries),
         NEW x \in Seq(Entries), NEW v \in Seq(Entries), L[h] = (u ++ x) ++ v, x # <<>>
  PROVE  Holds(list_bulk_move_tail(m, h, x[1], Last(x)), [L EXCEPT ![h] = (u ++ v) ++ x], V)
<1>1. m \in Mem /\ h \in Heads /\ Once((u ++ x) ++ v) /\ Circle(m, One(h) ++ ((u ++ x) ++ v))
  BY DEF Holds
<1>2. /\ Once(u) /\ Once(x) /\ Once(v) /\ Apart(u, x) /\ Apart(u, v) /\ Apart(x, v)
      /\ Items((u ++ x) ++ v) = Items(u) \cup Items(x) \cup Items(v)
  BY <1>1, Cat3
<1>3. /\ u \in Seq(Nodes) /\ x \in Seq(Nodes) /\ v \in Seq(Nodes) /\ x \in Chains /\ h \in Nodes
      /\ h \notin Items(x)
  BY <1>1, RingFacts DEF Chains
<1>4. PICK w : w = v ++ (One(h) ++ u)  OBVIOUS
<1>5. w \in Chains /\ Once(w) /\ Last(w) = End(h, u) /\ w[1] = Start(h, v)
  <2>1. Once(u ++ v)  BY <1>2, CatOnce
  <2> QED  BY <1>1, <1>4, <2>1, RingCut
<1>6. Items(w) = {h} \cup Items(u) \cup Items(v)  BY <1>1, <1>4, RingItems
<1>7. Circle(m, w ++ x)  BY <1>1, <1>3, <1>4, Around
<1>8. Chain(m, w) /\ Chain(m, x) /\ Linked(m, Last(w), x[1]) /\ Linked(m, Last(x), w[1])
  BY <1>3, <1>5, <1>7, CatCircle
<1>9. /\ Last(w) \in Nodes /\ w[1] \in Nodes /\ Last(w) \in Items(w) /\ w[1] \in Items(w)
      /\ Last(x) \in Nodes /\ x[1] \in Nodes /\ Last(x) \in Items(x) /\ x[1] \in Items(x)
  BY <1>3, <1>5, ChainFacts
<1>10. PICK m1 \in Mem : m1 = Link(m, Last(w), w[1])  BY <1>1, <1>9, LinkFacts
<1>11. SameBut(m, m1, Items(w))  BY <1>1, <1>9, <1>10, LinkFacts
<1>12. PICK t \in Seq(Entries) : t = u ++ v  BY CatSeq
<1>13. PICK c : c = One(h) ++ t  OBVIOUS
<1>14. Once(t) /\ Items(t) = Items(u) \cup Items(v)  BY <1>2, <1>12, CatOnce, CatItems
<1>15. /\ c \in Chains /\ Items(c) = {h} \cup Items(t) /\ Once(c) /\ c[1] = h
       /\ One(h) \in Seq(Nodes) /\ t \in Seq(Nodes)
  BY <1>1, <1>13, <1>14, RingFacts
<1>16. Circle(m1, c)
  <2>1. Circle(m1, w)  BY <1>1, <1>5, <1>8, <1>10, Closes
  <2>2. One(h) ++ u \in Seq(Nodes)  BY <1>3, <1>15, CatSeq
  <2>3. Circle(m1, (One(h) ++ u) ++ v)  BY <1>3, <1>4, <2>1, <2>2, Turned
  <2> QED  BY <1>3, <1>12, <1>13, <1>15, <2>3, Assoc
<1>17. Chain(m1, x)
  <2>1. Items(x) \cap Items(w) = {}  BY <1>2, <1>3, <1>6 DEF Apart
  <2> QED  BY <1>3, <1>8, <1>11, <2>1, Elsewhere
<1>18. m1.prev[h] = Last(c) /\ Last(c) \in Nodes /\ Last(c) \in Items(c)
  BY <1>15, <1>16, CircleEnds, ChainFacts
<1>19. PICK m2 \in Mem : m2 = Link(m1, Last(c), x[1])  BY <1>9, <1>18, LinkFacts
<1>20. PICK n \in Mem : n = Link(m2, Last(x), h)  BY <1>3, <1>9, LinkFacts
<1>21. list_bulk_move_tail(m, h, x[1], Last(x)) = n
  <2>1. Link(m, Last(w), w[1]).prev[h] = Last(c)  BY <1>10, <1>18
  <2> QED  BY <1>1, <1>3, <1>8, <1>9, <1>10, <1>18, <1>19, <1>20, <2>1, BulkLinks
<1>22. Circle(n, c ++ x)
  <2>1. Apart(c, x)  BY <1>2, <1>3, <1>14, <1>15 DEF Apart
  <2> QED  BY <1>2, <1>3, <1>15, <1>16, <1>17, <1>19, <1>20, <2>1, JoinsCircle DEF Circle
<1>23. PICK s \in Seq(Entries) : s = t ++ x  BY CatSeq
<1>24. Circle(n, One(h) ++ s)  BY <1>3, <1>13, <1>15, <1>22, <1>23, Assoc
<1>25. Once(s) /\ Items(s) = Items(t) \cup Items(x)
  <2>1. Apart(t, x)  BY <1>2, <1>14 DEF Apart
  <2> QED  BY <1>2, <1>14, <1>23, <2>1, CatOnce, CatItems
<1>T. PICK T : T = {}  OBVIOUS
<1>26. PICK S : S = {h} \cup Items(L[h]) \cup T  OBVIOUS
<1>27. S = {h} \cup Items(u) \cup Items(x) \cup Items(v)  BY <1>2, <1>26, <1>T
<1>28. SameBut(m, n, S)
  <2>1. SameBut(m1, m2, S)  BY <1>9, <1>14, <1>15, <1>18, <1>19, <1>27, LinkFacts
  <2>2. SameBut(m2, n, S)  BY <1>3, <1>9, <1>20, <1>27, LinkFacts
  <2> QED  BY <1>6, <1>11, <1>27, <2>1, <2>2 DEF SameBut
<1>29. /\ T \subseteq {y \in Entries : \A l \in Heads : y \notin Items(L[l])}
       /\ Items(s) \subseteq Items(L[h]) \cup T
  BY <1>2, <1>14, <1>25, <1>T
<1>30. Holds(n, [L EXCEPT ![h] = s], V \cup {h})
  BY <1>1, <1>24, <1>25, <1>26, <1>28, <1>29, ChangesOne
<1>31. V \cup {h} = V  OBVIOUS
<1> QED  BY <1>12, <1>21, <1>23, <1>30, <1>31

\* The entry a piece begins with becomes the first of the list.
LEMMA RotatesToFront ==
  ASSUME NEW m, NEW L, NEW V, Holds(m, L, V), NEW h \in V, NEW u \in Seq(Entries),
         NEW v \in Seq(Entries), L[h] = u ++ v, v # <<>>
  PROVE  Holds(list_rotate_to_front(m, v[1], h), [L EXCEPT ![h] = v ++ u], V)
<1>1. m \in Mem /\ h \in Heads /\ Once(u ++ v) /\ Circle(m, One(h) ++ (u ++ v))
  BY DEF Holds
<1>2. /\ Once(u) /\ Once(v) /\ Apart(u, v) /\ Items(u ++ v) = Items(u) \cup Items(v)
  BY <1>1, CatOnce, CatItems
<1>3. /\ u \in Seq(Nodes) /\ v \in Seq(Nodes) /\ v \in Chains
      /\ h \in Nodes /\ One(h) \in Seq(Nodes)
      /\ h \notin Items(u) /\ h \notin Items(v)
  BY <1>1, RingFacts DEF Chains
<1>4. PICK w \in Chains : w = u ++ v  BY <1>3, CatEnds DEF Chains
<1>5. w \in Seq(Nodes) /\ Once(w) /\ Items(w) = Items(u) \cup Items(v)
  BY <1>1, <1>2, <1>4 DEF Chains
<1>6. Circle(m, w ++ One(h))  BY <1>1, <1>3, <1>4, <1>5, Turned
<1>7. PICK n1 : n1 = __list_del_entry(m, h)  OBVIOUS
<1>8. n1 \in Mem /\ Circle(n1, w) /\ SameBut(m, n1, Items(w))
  BY <1>1, <1>3, <1>5, <1>6, <1>7, Removed
<1>9. PICK t \in Seq(Entries) : t = v ++ u  BY CatSeq
<1>10. t \in Chains /\ t[1] = v[1]  BY <1>3, <1>9, CatEnds DEF Chains
<1>11. Once(t) /\ Items(t) = Items(u) \cup Items(v)
  <2>1. Apart(v, u)  BY <1>2 DEF Apart
  <2> QED  BY <1>2, <1>9, <2>1, CatOnce, CatItems
<1>12. Circle(n1, t)  BY <1>3, <1>4, <1>8, <1>9, Turned
<1>13. n1.prev[v[1]] = Last(t)  BY <1>10, <1>12, CircleEnds
<1>14. PICK n : n = __list_add(n1, h, Last(t), t[1])  OBVIOUS
<1>15. n \in Mem /\ Circle(n, t ++ One(h)) /\ SameBut(n1, n, Items(t) \cup {h})
  <2>1. h \in Nodes \ Items(t)  BY <1>3, <1>11
  <2> QED  BY <1>8, <1>10, <1>11, <1>12, <1>14, <2>1, Added DEF Circle
<1>16. list_rotate_to_front(m, v[1], h) = n
  BY <1>7, <1>10, <1>13, <1>14 DEF list_rotate_to_front, list_move_tail, list_add_tail
<1>17. Circle(n, One(h) ++ t)  BY <1>3, <1>10, <1>15, Turned DEF Chains
<1>T. PICK T : T = {}  OBVIOUS
<1>18. /\ T \subseteq {y \in Entries : \A l \in Heads : y \notin Items(L[l])}
       /\ Items(t) \subseteq Items(L[h]) \cup T
       /\ SameBut(m, n, {h} \cup Items(L[h]) \cup T)
  BY <1>2, <1>5, <1>8, <1>11, <1>15, <1>T DEF SameBut
<1>19. Holds(n, [L EXCEPT ![h] = t], V \cup {h})
  BY <1>1, <1>11, <1>15, <1>17, <1>18, ChangesOne
<1>20. V \cup {h} = V  OBVIOUS
<1> QED  BY <1>9, <1>16, <1>19, <1>20


\* The functions that take an entry off.
LEMMA DeletesEach ==
  ASSUME NEW m, NEW L, NEW V, Holds(m, L, V), NEW h \in V, NEW x \in Entries,
         NEW u \in Seq(Entries), NEW v \in Seq(Entries), L[h] = (u ++ One(x)) ++ v
  PROVE  /\ Holds(list_del(m, x), [L EXCEPT ![h] = u ++ v], V)
         /\ Holds(list_del_init(m, x), [L EXCEPT ![h] = u ++ v], V)
         /\ Holds(__list_del_clearprev(m, x), [L EXCEPT ![h] = u ++ v], V)
         /\ Holds(list_del_init_careful(m, x), [L EXCEPT ![h] = u ++ v], V)
         /\ x \in Off([L EXCEPT ![h] = u ++ v])
<1>1. PICK K : K = [L EXCEPT ![h] = u ++ v]  OBVIOUS
<1>2. PICK n : n = __list_del_entry(m, x)  OBVIOUS
<1>3. Holds(n, K, V) /\ x \in Off(K)  BY <1>1, <1>2, Deletes
<1>4. /\ Holds(INIT_LIST_HEAD(n, x), K, V)
      /\ Holds([n EXCEPT !.next[x] = LIST_POISON1, !.prev[x] = LIST_POISON2], K, V)
      /\ Holds([n EXCEPT !.prev[x] = NULL], K, V)
      /\ Holds([n EXCEPT !.prev[x] = x, !.next[x] = x], K, V)
  BY <1>3, ForgetsEntry
<1> QED  BY <1>1, <1>2, <1>3, <1>4
         DEF list_del, list_del_init, list_del_init_careful, __list_del_clearprev

\* An entry is taken off and put to the front or to the end of a list.
LEMMA Moves ==
  ASSUME NEW m, NEW L, NEW V, Holds(m, L, V), NEW h \in V, NEW g \in V, NEW x \in Entries,
         NEW u \in Seq(Entries), NEW v \in Seq(Entries), L[h] = (u ++ One(x)) ++ v,
         NEW K, K = [L EXCEPT ![h] = u ++ v]
  PROVE  /\ Holds(list_move(m, x, g), [K EXCEPT ![g] = One(x) ++ K[g]], V)
         /\ Holds(list_move_tail(m, x, g), [K EXCEPT ![g] = K[g] ++ One(x)], V)
<1>1. PICK n : n = __list_del_entry(m, x)  OBVIOUS
<1>2. Holds(n, K, V) /\ x \in Off(K)  BY <1>1, Deletes
<1>3. g \in Heads /\ K[g] \in Seq(Entries)  BY <1>2 DEF Holds
<1>4. PICK s \in Seq(Entries) : s = K[g]  BY <1>3
<1>5. PICK z \in Seq(Entries) : z = <<>>  BY EmptySeq
<1>6. One(x) \in Seq(Entries)  BY OneFacts
<1>7. z ++ s = s /\ s ++ z = s /\ z ++ One(x) = One(x) /\ (s ++ One(x)) ++ z = s ++ One(x)
  BY <1>5, <1>6, CatEmpty, CatSeq
<1>8. Holds(list_add(n, x, End(g, z)), [K EXCEPT ![g] = (z ++ One(x)) ++ s], V)
  BY <1>2, <1>4, <1>7, ListAdds
<1>9. Holds(list_add_tail(n, x, Start(g, z)), [K EXCEPT ![g] = (s ++ One(x)) ++ z], V)
  BY <1>2, <1>4, <1>7, ListAdds
<1>10. End(g, z) = g /\ Start(g, z) = g  BY <1>5 DEF End, Start
<1>11. list_move(m, x, g) = list_add(n, x, g) /\ list_move_tail(m, x, g) = list_add_tail(n, x, g)
  BY <1>1 DEF list_move, list_move_tail
<1> QED  BY <1>4, <1>7, <1>8, <1>9, <1>10, <1>11

\* The first entry becomes the last.
LEMMA RotatesLeft ==
  ASSUME NEW m, NEW L, NEW V, Holds(m, L, V), NEW h \in V, NEW x \in Entries,
         NEW v \in Seq(Entries), L[h] = One(x) ++ v
  PROVE  Holds(list_rotate_left(m, h), [L EXCEPT ![h] = v ++ One(x)], V)
<1>1. h \in Heads /\ L \in [Heads -> Seq(Entries)]  BY DEF Holds
<1>2. PICK z \in Seq(Entries) : z = <<>>  BY EmptySeq
<1>3. One(x) \in Seq(Entries) /\ One(x)[1] = x  BY OneFacts
<1>4. z ++ One(x) = One(x) /\ z ++ v = v  BY <1>2, <1>3, CatEmpty
<1>5. PICK K : K = [L EXCEPT ![h] = z ++ v]  OBVIOUS
<1>6. L[h] = (z ++ One(x)) ++ v  BY <1>4
<1>7. Holds(list_move_tail(m, x, h), [K EXCEPT ![h] = K[h] ++ One(x)], V)
  BY <1>5, <1>6, Moves
<1>8. [K EXCEPT ![h] = K[h] ++ One(x)] = [L EXCEPT ![h] = v ++ One(x)]
  BY <1>1, <1>4, <1>5
<1>9. L[h] # <<>> /\ L[h][1] = x
  <2>1. One(x) \in Seq(Nodes) /\ v \in Seq(Nodes) /\ One(x) # <<>>
    BY <1>1, <1>3, RingFacts, OneFacts, EmptySeq
  <2> QED  BY <1>3, <2>1, CatEnds DEF Chains
<1>10. m.next[h] = x /\ ~list_empty(m, h)  BY <1>9, HeadsNeighbours, Empty DEF Start
<1> QED  BY <1>7, <1>8, <1>10 DEF list_rotate_left

\* An entry between two pieces is changed.
LEMMA PutIn ==
  ASSUME NEW S, NEW u \in Seq(S), NEW v \in Seq(S), NEW x \in S, NEW e \in S
  PROVE  [(u ++ One(x)) ++ v EXCEPT ![Len(u) + 1] = e] = (u ++ One(e)) ++ v
<1>1. PICK n \in Nat : n = Len(u)  BY LenProperties
<1>2. PICK l \in Nat : l = Len(v)  BY LenProperties
<1>3. \A y \in S : /\ (u ++ One(y)) ++ v \in Seq(S) /\ Len((u ++ One(y)) ++ v) = n + 1 + l
                   /\ \A p \in 1 .. n + 1 + l :
                        ((u ++ One(y)) ++ v)[p] = IF p <= n THEN u[p] ELSE
                                                  IF p = n + 1 THEN y ELSE v[p - (n + 1)]
  <2> SUFFICES ASSUME NEW y \in S
               PROVE  /\ (u ++ One(y)) ++ v \in Seq(S) /\ Len((u ++ One(y)) ++ v) = n + 1 + l
                      /\ \A p \in 1 .. n + 1 + l :
                           ((u ++ One(y)) ++ v)[p] = IF p <= n THEN u[p] ELSE
                                                     IF p = n + 1 THEN y ELSE v[p - (n + 1)]
    OBVIOUS
  <2>1. One(y) \in Seq(S) /\ Len(One(y)) = 1 /\ One(y)[1] = y  BY OneFacts
  <2>2. PICK a \in Seq(S) : a = u ++ One(y)  BY <2>1, CatSeq
  <2>3. Len(a) = n + 1  BY <1>1, <2>1, <2>2, CatSeq
  <2>4. a ++ v \in Seq(S) /\ Len(a ++ v) = n + 1 + l  BY <1>2, <2>3, CatSeq
  <2>5. (\A p \in 1 .. n : a[p] = u[p]) /\ a[n + 1] = y
    <3>1. PICK o \in Seq(S) : o = One(y)  BY <2>1
    <3>2. /\ \A p \in 1 .. Len(u) : (u ++ o)[p] = u[p]
          /\ \A p \in 1 .. Len(o) : (u ++ o)[Len(u) + p] = o[p]
      BY CatAt
    <3>3. Len(o) = 1 /\ o[1] = y /\ a = u ++ o  BY <2>1, <2>2, <3>1
    <3>4. 1 \in 1 .. Len(o)  BY <3>3
    <3>5. a[Len(u) + 1] = y  BY <3>2, <3>3, <3>4
    <3> QED  BY <1>1, <3>2, <3>3, <3>5
  <2>6. /\ \A p \in 1 .. n + 1 : (a ++ v)[p] = a[p]
        /\ \A p \in 1 .. l : (a ++ v)[n + 1 + p] = v[p]
    <3>1. /\ \A p \in 1 .. Len(a) : (a ++ v)[p] = a[p]
          /\ \A p \in 1 .. Len(v) : (a ++ v)[Len(a) + p] = v[p]
      BY CatAt
    <3> QED  BY <1>2, <2>3, <3>1
  <2>7. ASSUME NEW p \in 1 .. n + 1 + l
        PROVE  (a ++ v)[p] = IF p <= n THEN u[p] ELSE IF p = n + 1 THEN y ELSE v[p - (n + 1)]
    <3>1. CASE p <= n + 1  BY <2>5, <2>6, <3>1
    <3>2. CASE p > n + 1
      <4>1. p - (n + 1) \in 1 .. l /\ n + 1 + (p - (n + 1)) = p  BY <3>2
      <4>2. (a ++ v)[n + 1 + (p - (n + 1))] = v[p - (n + 1)]  BY <2>6, <4>1
      <4> QED  BY <3>2, <4>1, <4>2
    <3> QED  BY <3>1, <3>2
  <2> QED  BY <2>2, <2>4, <2>7
<1>4. PICK s \in Seq(S) : s = (u ++ One(x)) ++ v  BY <1>3
<1>5. PICK t \in Seq(S) : t = (u ++ One(e)) ++ v  BY <1>3
<1>6. Len(s) = n + 1 + l /\ Len(t) = n + 1 + l  BY <1>3, <1>4, <1>5
<1>7. \A p \in 1 .. n + 1 + l : t[p] = IF p = n + 1 THEN e ELSE s[p]
  BY <1>1, <1>3, <1>4, <1>5
<1>8. [s EXCEPT ![n + 1] = e] \in Seq(S) /\ Len([s EXCEPT ![n + 1] = e]) = Len(s)
  BY <1>1, <1>6, ExceptSeq
<1>9. \A p \in 1 .. n + 1 + l : [s EXCEPT ![n + 1] = e][p] = IF p = n + 1 THEN e ELSE s[p]
  BY <1>6, LenProperties
<1>10. [s EXCEPT ![n + 1] = e] = t  BY <1>6, <1>7, <1>8, <1>9, SeqEqual
<1> QED  BY <1>1, <1>4, <1>5, <1>10


\* What list_swap does to the lists: the second entry is taken off, the first
\* one replaced by it, and put to where the second was.
LEMMA SwapsSteps ==
  ASSUME NEW m, NEW L, NEW V, Holds(m, L, V), NEW h \in V, NEW g \in V,
         NEW x \in Entries, NEW y \in Entries,
         NEW a \in Seq(Entries), NEW b \in Seq(Entries), L[g] = (a ++ One(y)) ++ b,
         NEW K1, K1 = [L EXCEPT ![g] = a ++ b],
         NEW u \in Seq(Entries), NEW v \in Seq(Entries), K1[h] = (u ++ One(x)) ++ v,
         NEW K2, K2 = [K1 EXCEPT ![h] = (u ++ One(y)) ++ v],
         NEW c \in Seq(Entries), NEW d \in Seq(Entries), K2[g] = c ++ d,
         End(g, c) = IF End(g, a) = x THEN y ELSE End(g, a)
  PROVE  Holds(list_swap(m, x, y), [K2 EXCEPT ![g] = (c ++ One(x)) ++ d], V)
<1>1. PICK n1 : n1 = list_del(m, y)  OBVIOUS
<1>2. Holds(n1, K1, V) /\ y \in Off(K1)  BY <1>1, DeletesEach
<1>3. PICK n2 : n2 = list_replace(n1, x, y)  OBVIOUS
<1>4. Holds(n2, K2, V) /\ x \in Off(K2)  BY <1>2, <1>3, ReplacesEntry
<1>5. Holds(list_add(n2, x, End(g, c)), [K2 EXCEPT ![g] = (c ++ One(x)) ++ d], V)
  BY <1>4, ListAdds
<1>6. m.prev[y] = End(g, a)
  <2>1. One(y) \in Seq(Entries) /\ One(y)[1] = y /\ One(y) # <<>>  BY OneFacts, EmptySeq
  <2>2. PICK t \in Seq(Entries) : t = One(y) ++ b  BY <2>1, CatSeq
  <2>3. L[g] = a ++ t  BY <2>1, <2>2, Assoc
  <2>4. Start(g, t) = y
    <3>1. g \in Heads  BY DEF Holds
    <3>2. One(y) \in Seq(Nodes) /\ b \in Seq(Nodes)  BY <2>1, <3>1, RingFacts
    <3> QED  BY <2>1, <2>2, <3>2, CatEnds DEF Chains, Start
  <2> QED  BY <2>3, <2>4, Neighbours
<1> QED  BY <1>1, <1>3, <1>5, <1>6 DEF list_swap

\* Entries of different lists.
LEMMA SwapsApart ==
  ASSUME NEW m, NEW L, NEW V, Holds(m, L, V), NEW h \in V, NEW g \in V, g # h,
         NEW x \in Entries, NEW y \in Entries,
         NEW a \in Seq(Entries), NEW b \in Seq(Entries), L[g] = (a ++ One(y)) ++ b,
         NEW u \in Seq(Entries), NEW v \in Seq(Entries), L[h] = (u ++ One(x)) ++ v
  PROVE  Holds(list_swap(m, x, y),
               [L EXCEPT ![h] = (u ++ One(y)) ++ v, ![g] = (a ++ One(x)) ++ b], V)
<1>1. /\ h \in Heads /\ g \in Heads /\ L \in [Heads -> Seq(Entries)] /\ Apart(L[h], L[g])
  BY DEF Holds
<1>2. PICK K1 : K1 = [L EXCEPT ![g] = a ++ b]  OBVIOUS
<1>3. K1[h] = (u ++ One(x)) ++ v  BY <1>1, <1>2
<1>4. PICK K2 : K2 = [K1 EXCEPT ![h] = (u ++ One(y)) ++ v]  OBVIOUS
<1>5. K2[g] = a ++ b  BY <1>1, <1>2, <1>4
<1>6. End(g, a) # x
  <2>1. One(x) \in Seq(Entries) /\ One(y) \in Seq(Entries) /\ Items(One(x)) = {x}  BY OneFacts
  <2>2. x \in Items(L[h]) /\ Items(a) \subseteq Items(L[g])  BY <2>1, Cat3
  <2>3. End(g, a) \in {g} \cup Items(a)  BY <1>1, EndsOf
  <2> QED  BY <1>1, <2>2, <2>3, ListAssumption DEF Apart
<1>7. Holds(list_swap(m, x, y), [K2 EXCEPT ![g] = (a ++ One(x)) ++ b], V)
  BY <1>2, <1>3, <1>4, <1>5, <1>6, SwapsSteps
<1>8. [K2 EXCEPT ![g] = (a ++ One(x)) ++ b]
        = [L EXCEPT ![h] = (u ++ One(y)) ++ v, ![g] = (a ++ One(x)) ++ b]
  BY <1>1, <1>2, <1>4
<1> QED  BY <1>7, <1>8

\* Entries of one list, the second one behind the first.
LEMMA SwapsForward ==
  ASSUME NEW m, NEW L, NEW V, Holds(m, L, V), NEW h \in V,
         NEW x \in Entries, NEW y \in Entries,
         NEW u \in Seq(Entries), NEW v \in Seq(Entries), NEW b \in Seq(Entries),
         L[h] = (((u ++ One(x)) ++ v) ++ One(y)) ++ b
  PROVE  Holds(list_swap(m, x, y), [L EXCEPT ![h] = (((u ++ One(y)) ++ v) ++ One(x)) ++ b], V)
<1>1. /\ h \in Heads /\ L \in [Heads -> Seq(Entries)] /\ Once(L[h])  BY DEF Holds
<1>2. /\ One(x) \in Seq(Entries) /\ One(y) \in Seq(Entries) /\ One(x) # <<>> /\ One(y) # <<>>
      /\ Last(One(x)) = x /\ Last(One(y)) = y
  BY OneFacts, EmptySeq
<1>3. PICK a \in Seq(Entries) : a = (u ++ One(x)) ++ v  BY <1>2, Cat3
<1>4. PICK c \in Seq(Entries) : c = (u ++ One(y)) ++ v  BY <1>2, Cat3
<1>5. L[h] = (a ++ One(y)) ++ b  BY <1>3
<1>6. PICK K1 : K1 = [L EXCEPT ![h] = a ++ b]  OBVIOUS
<1>7. PICK d \in Seq(Entries) : d = v ++ b  BY CatSeq
<1>8. a ++ b = (u ++ One(x)) ++ d /\ c ++ b = (u ++ One(y)) ++ d
  <2>1. u ++ One(x) \in Seq(Entries) /\ u ++ One(y) \in Seq(Entries)  BY <1>2, CatSeq
  <2> QED  BY <1>3, <1>4, <1>7, <2>1, Assoc
<1>9. K1[h] = (u ++ One(x)) ++ d  BY <1>1, <1>6, <1>8
<1>10. PICK K2 : K2 = [K1 EXCEPT ![h] = (u ++ One(y)) ++ d]  OBVIOUS
<1>11. K2[h] = c ++ b  BY <1>1, <1>6, <1>8, <1>10
<1>12. End(h, c) = IF End(h, a) = x THEN y ELSE End(h, a)
  <2>1. /\ u \in Seq(Nodes) /\ v \in Seq(Nodes) /\ One(x) \in Seq(Nodes) /\ One(y) \in Seq(Nodes)
    BY <1>1, <1>2, RingFacts
  <2>2. u ++ One(x) \in Seq(Nodes) /\ u ++ One(y) \in Seq(Nodes)  BY <2>1, CatSeq
  <2>3. CASE v = <<>>
    <3>1. a = u ++ One(x) /\ c = u ++ One(y)  BY <1>3, <1>4, <2>2, <2>3, CatEmpty
    <3>2. a # <<>> /\ Last(a) = x /\ c # <<>> /\ Last(c) = y
      BY <1>2, <2>1, <3>1, CatEnds DEF Chains
    <3> QED  BY <3>2 DEF End
  <2>4. CASE v # <<>>
    <3>1. a # <<>> /\ Last(a) = Last(v) /\ c # <<>> /\ Last(c) = Last(v)
      BY <1>3, <1>4, <2>1, <2>2, <2>4, CatEnds DEF Chains
    <3>2. Last(v) # x
      <4>1. Last(v) \in Items(v)  BY <2>1, <2>4, ChainFacts DEF Chains
      <4>2. a ++ One(y) \in Seq(Entries)  BY <1>2, CatSeq
      <4>3. Once(a ++ One(y))  BY <1>1, <1>5, <4>2, CatOnce
      <4>4. Once(a)  BY <1>2, <4>3, CatOnce
      <4>5. Apart(One(x), v)  BY <1>2, <1>3, <4>4, Cat3
      <4> QED  BY <4>1, <4>5, OneFacts DEF Apart
    <3> QED  BY <3>1, <3>2 DEF End
  <2> QED  BY <2>3, <2>4
<1>13. Holds(list_swap(m, x, y), [K2 EXCEPT ![h] = (c ++ One(x)) ++ b], V)
  BY <1>5, <1>6, <1>9, <1>10, <1>11, <1>12, SwapsSteps
<1>14. [K2 EXCEPT ![h] = (c ++ One(x)) ++ b] = [L EXCEPT ![h] = (c ++ One(x)) ++ b]
  BY <1>1, <1>6, <1>10
<1> QED  BY <1>4, <1>13, <1>14

\* Entries of one list, the second one before the first.
LEMMA SwapsBackward ==
  ASSUME NEW m, NEW L, NEW V, Holds(m, L, V), NEW h \in V,
         NEW x \in Entries, NEW y \in Entries,
         NEW u \in Seq(Entries), NEW v \in Seq(Entries), NEW b \in Seq(Entries),
         L[h] = (((u ++ One(y)) ++ v) ++ One(x)) ++ b
  PROVE  Holds(list_swap(m, x, y), [L EXCEPT ![h] = (((u ++ One(x)) ++ v) ++ One(y)) ++ b], V)
<1>1. /\ h \in Heads /\ L \in [Heads -> Seq(Entries)] /\ Once(L[h])  BY DEF Holds
<1>2. One(x) \in Seq(Entries) /\ One(y) \in Seq(Entries)  BY OneFacts
<1>3. PICK dx \in Seq(Entries) : dx = (v ++ One(x)) ++ b  BY <1>2, Cat3
<1>4. PICK dy \in Seq(Entries) : dy = (v ++ One(y)) ++ b  BY <1>2, Cat3
<1>5. PICK a \in Seq(Entries) : a = u ++ v  BY CatSeq
<1>6. /\ (((u ++ One(y)) ++ v) ++ One(x)) ++ b = (u ++ One(y)) ++ dx
      /\ (((u ++ One(x)) ++ v) ++ One(y)) ++ b = (u ++ One(x)) ++ dy
  <2>1. u ++ One(x) \in Seq(Entries) /\ u ++ One(y) \in Seq(Entries)  BY <1>2, CatSeq
  <2> QED  BY <1>2, <1>3, <1>4, <2>1, Assoc4
<1>7. u ++ dx = (a ++ One(x)) ++ b /\ u ++ dy = (a ++ One(y)) ++ b
  BY <1>2, <1>3, <1>4, <1>5, Assoc4
<1>8. PICK K1 : K1 = [L EXCEPT ![h] = u ++ dx]  OBVIOUS
<1>9. K1[h] = (a ++ One(x)) ++ b  BY <1>1, <1>7, <1>8
<1>10. PICK K2 : K2 = [K1 EXCEPT ![h] = (a ++ One(y)) ++ b]  OBVIOUS
<1>11. K2[h] = u ++ dy  BY <1>1, <1>7, <1>8, <1>10
<1>12. End(h, u) # x
  <2>1. L[h] = (u ++ One(y)) ++ dx  BY <1>6
  <2>2. Apart(u, dx)  BY <1>1, <1>2, <2>1, Cat3
  <2>3. x \in Items(dx)
    <3>1. Items(One(x)) = {x}  BY OneFacts
    <3> QED  BY <1>2, <1>3, <3>1, Cat3
  <2>4. End(h, u) \in {h} \cup Items(u)  BY <1>1, EndsOf
  <2> QED  BY <1>1, <2>2, <2>3, <2>4, ListAssumption DEF Apart
<1>13. L[h] = (u ++ One(y)) ++ dx  BY <1>6
<1>14. Holds(list_swap(m, x, y), [K2 EXCEPT ![h] = (u ++ One(x)) ++ dy], V)
  BY <1>8, <1>9, <1>10, <1>11, <1>12, <1>13, SwapsSteps
<1>15. [K2 EXCEPT ![h] = (u ++ One(x)) ++ dy] = [L EXCEPT ![h] = (u ++ One(x)) ++ dy]
  BY <1>1, <1>8, <1>10
<1> QED  BY <1>6, <1>14, <1>15


----------------------------------------------------------------------------
(* The calls: positions become pieces.                                     *)

\* What list_add_tail puts before position i comes behind the first Before(s, i).
Before(s, i) == IF i = 0 THEN Len(s) ELSE i - 1

\* The node at position i is on both sides of a cut.
LEMMA Places ==
  ASSUME Holds(mem, lists, live), NEW h \in live, NEW i \in 0 .. Len(lists[h])
  PROVE  /\ lists[h] = First(lists[h], i) ++ Rest(lists[h], i)
         /\ First(lists[h], i) \in Seq(Entries) /\ Rest(lists[h], i) \in Seq(Entries)
         /\ At(h, i) = End(h, First(lists[h], i))
         /\ LET k == Before(lists[h], i)
            IN  /\ lists[h] = First(lists[h], k) ++ Rest(lists[h], k)
                /\ First(lists[h], k) \in Seq(Entries) /\ Rest(lists[h], k) \in Seq(Entries)
                /\ At(h, i) = Start(h, Rest(lists[h], k))
<1>1. lists[h] \in Seq(Entries)  BY DEF Holds
<1>2. PICK s \in Seq(Entries) : s = lists[h]  BY <1>1
<1>3. PICK n \in Nat : n = Len(s)  BY LenProperties
<1>4. PICK k \in 0 .. n : k = Before(s, i)  BY <1>2, <1>3 DEF Before
<1>A. i \in 0 .. Len(s) /\ k \in 0 .. Len(s)  BY <1>2, <1>3
<1>5. /\ First(s, i) \in Seq(Entries) /\ Rest(s, i) \in Seq(Entries)
      /\ s = First(s, i) ++ Rest(s, i)
      /\ Len(First(s, i)) = i /\ (\A p \in 1 .. i : First(s, i)[p] = s[p])
      /\ (First(s, i) = <<>> <=> i = 0)
  BY <1>A, SplitAt
<1>6. /\ First(s, k) \in Seq(Entries) /\ Rest(s, k) \in Seq(Entries)
      /\ s = First(s, k) ++ Rest(s, k)
      /\ (\A p \in 1 .. n - k : Rest(s, k)[p] = s[k + p]) /\ (Rest(s, k) = <<>> <=> k = n)
  <2>1. /\ First(s, k) \in Seq(Entries) /\ Rest(s, k) \in Seq(Entries)
        /\ s = First(s, k) ++ Rest(s, k) /\ (Rest(s, k) = <<>> <=> k = Len(s))
        /\ \A p \in 1 .. Len(s) - k : Rest(s, k)[p] = s[k + p]
    BY <1>A, SplitAt
  <2> QED  BY <1>3, <2>1
<1>7. At(h, i) = End(h, First(s, i))
  <2>1. i > 0 => i \in 1 .. i  BY <1>2, <1>3
  <2> QED  BY <1>2, <1>5, <2>1 DEF At, End, Last
<1>8. At(h, i) = Start(h, Rest(s, k))
  <2>1. CASE i = 0  BY <1>2, <1>3, <1>4, <1>6, <2>1 DEF At, Start, Before
  <2>2. CASE i > 0
    <3>1. k = i - 1 /\ k < n /\ 1 \in 1 .. n - k /\ k + 1 = i  BY <1>2, <1>3, <1>4, <2>2 DEF Before
    <3>2. Rest(s, k)[1] = s[i]  BY <1>6, <3>1
    <3> QED  BY <1>2, <1>6, <2>2, <3>1, <3>2 DEF At, Start
  <2> QED  BY <1>2, <1>3, <2>1, <2>2
<1> QED  BY <1>2, <1>4, <1>5, <1>6, <1>7, <1>8

\* The pieces around entry i of a list.
LEMMA Entry ==
  ASSUME Holds(mem, lists, live), NEW h \in live, NEW i \in 1 .. Len(lists[h])
  PROVE  /\ lists[h] = (First(lists[h], i - 1) ++ One(At(h, i))) ++ Rest(lists[h], i)
         /\ At(h, i) \in Entries
         /\ First(lists[h], i - 1) \in Seq(Entries) /\ Rest(lists[h], i) \in Seq(Entries)
         /\ Len(First(lists[h], i - 1)) = i - 1 /\ Without(lists[h], i) =
              First(lists[h], i - 1) ++ Rest(lists[h], i)
<1>1. lists[h] \in Seq(Entries)  BY DEF Holds
<1>2. PICK s \in Seq(Entries) : s = lists[h]  BY <1>1
<1>3. PICK n \in Nat : n = Len(s)  BY LenProperties
<1>4. i \in 0 .. n /\ i - 1 \in 0 .. n /\ i # 0  BY <1>2, <1>3
<1>5. /\ First(s, i - 1) \in Seq(Entries) /\ Len(First(s, i - 1)) = i - 1  BY <1>3, <1>4, SplitAt
<1>6. /\ Rest(s, i) \in Seq(Entries) /\ s = First(s, i) ++ Rest(s, i)  BY <1>3, <1>4, SplitAt
<1>7. s[i] \in Entries /\ First(s, i) = First(s, i - 1) ++ One(s[i])  BY <1>2, SplitEntry
<1>8. At(h, i) = s[i]  BY <1>2, <1>4 DEF At
<1>9. Without(s, i) = First(s, i - 1) ++ Rest(s, i)  BY DEF Without, ++
<1> QED  BY <1>2, <1>5, <1>6, <1>7, <1>8, <1>9

\* INIT_LIST_HEAD of a head that is not in use.
LEMMA InitHeadHolds ==
  ASSUME Holds(mem, lists, live), NEW h \in Heads, InitHead(h)
  PROVE  Holds(mem, lists, live)'
<1>1. lists[h] = <<>>  BY DEF Holds, InitHead
<1>2. Holds(INIT_LIST_HEAD(mem, h), lists, live \cup {h})  BY <1>1, Initialises
<1> QED  BY <1>2 DEF InitHead

\* The entries on no list.
LEMMA OffListIs ==
  ASSUME Holds(mem, lists, live)  PROVE OffList = Off(lists)
BY DEF OffList, Off

\* list_add and list_add_tail.
LEMMA AddHolds ==
  ASSUME Holds(mem, lists, live), NEW h \in live, NEW i \in 0 .. Len(lists[h]), NEW e \in Entries,
         Add(h, i, e)
  PROVE  Holds(mem, lists, live)'
<1>1. e \in Off(lists)  BY OffListIs DEF Add
<1>2. PICK s : s = lists[h]  OBVIOUS
<1>3. PICK k : k = Before(s, i)  OBVIOUS
<1>4. /\ s = First(s, i) ++ Rest(s, i)
      /\ First(s, i) \in Seq(Entries) /\ Rest(s, i) \in Seq(Entries)
      /\ At(h, i) = End(h, First(s, i))
      /\ s = First(s, k) ++ Rest(s, k)
      /\ First(s, k) \in Seq(Entries) /\ Rest(s, k) \in Seq(Entries)
      /\ At(h, i) = Start(h, Rest(s, k))
  BY <1>2, <1>3, Places
<1>5. /\ Holds(list_add(mem, e, At(h, i)),
               [lists EXCEPT ![h] = (First(s, i) ++ One(e)) ++ Rest(s, i)], live)
      /\ Holds(list_add_tail(mem, e, At(h, i)),
               [lists EXCEPT ![h] = (First(s, k) ++ One(e)) ++ Rest(s, k)], live)
  <2>1. PICK a \in Seq(Entries), b \in Seq(Entries) : a = First(s, i) /\ b = Rest(s, i)  BY <1>4
  <2>2. PICK c \in Seq(Entries), d \in Seq(Entries) : c = First(s, k) /\ d = Rest(s, k)  BY <1>4
  <2>3. Holds(list_add(mem, e, End(h, a)), [lists EXCEPT ![h] = (a ++ One(e)) ++ b], live)
    BY <1>1, <1>2, <1>4, <2>1, ListAdds
  <2>4. Holds(list_add_tail(mem, e, Start(h, d)), [lists EXCEPT ![h] = (c ++ One(e)) ++ d], live)
    BY <1>1, <1>2, <1>4, <2>2, ListAdds
  <2> QED  BY <1>4, <2>1, <2>2, <2>3, <2>4
<1>6. /\ live' = live
      /\ \/ /\ mem' = list_add(mem, e, At(h, i))
            /\ lists' = [lists EXCEPT ![h] = (First(s, i) ++ One(e)) ++ Rest(s, i)]
         \/ /\ mem' = list_add_tail(mem, e, At(h, i))
            /\ lists' = [lists EXCEPT ![h] = (First(s, k) ++ One(e)) ++ Rest(s, k)]
  BY <1>2, <1>3 DEF Add, Now, Before, ++, One
<1> QED  BY <1>5, <1>6


\* list_del, list_del_init, list_del_init_careful and __list_del_clearprev.
LEMMA DelHolds ==
  ASSUME Holds(mem, lists, live), NEW h \in live, NEW i \in 1 .. Len(lists[h]), Del(h, i)
  PROVE  Holds(mem, lists, live)'
<1>1. PICK x \in Entries, u \in Seq(Entries), v \in Seq(Entries) :
        /\ x = At(h, i) /\ lists[h] = (u ++ One(x)) ++ v /\ Without(lists[h], i) = u ++ v
  BY Entry
<1>2. /\ live' = live /\ lists' = [lists EXCEPT ![h] = u ++ v]
      /\ mem' \in {list_del(mem, x), __list_del_clearprev(mem, x),
                   list_del_init(mem, x), list_del_init_careful(mem, x)}
  BY <1>1 DEF Del, Now
<1>3. /\ Holds(list_del(mem, x), [lists EXCEPT ![h] = u ++ v], live)
      /\ Holds(list_del_init(mem, x), [lists EXCEPT ![h] = u ++ v], live)
      /\ Holds(__list_del_clearprev(mem, x), [lists EXCEPT ![h] = u ++ v], live)
      /\ Holds(list_del_init_careful(mem, x), [lists EXCEPT ![h] = u ++ v], live)
  BY <1>1, DeletesEach
<1> QED  BY <1>2, <1>3

\* list_replace and list_replace_init of an entry,
LEMMA ReplaceEntryHolds ==
  ASSUME Holds(mem, lists, live), NEW h \in live, NEW i \in 1 .. Len(lists[h]), NEW e \in Entries,
         ReplaceEntry(h, i, e)
  PROVE  Holds(mem, lists, live)'
<1>1. PICK x \in Entries, u \in Seq(Entries), v \in Seq(Entries) :
        /\ x = At(h, i) /\ lists[h] = (u ++ One(x)) ++ v /\ Len(u) = i - 1
  BY Entry
<1>2. Len(u) + 1 = i  BY <1>1
<1>3. [(u ++ One(x)) ++ v EXCEPT ![Len(u) + 1] = e] = (u ++ One(e)) ++ v  BY PutIn
<1>4. [lists[h] EXCEPT ![i] = e] = (u ++ One(e)) ++ v  BY <1>1, <1>2, <1>3
<1>5. e \in Off(lists)  BY OffListIs DEF ReplaceEntry
<1>6. PICK K : K = [lists EXCEPT ![h] = (u ++ One(e)) ++ v]  OBVIOUS
<1>7. /\ live' = live /\ lists' = K
      /\ mem' \in {list_replace(mem, x, e), list_replace_init(mem, x, e)}
  BY <1>1, <1>4, <1>6 DEF ReplaceEntry, Now
<1>8. Holds(list_replace(mem, x, e), K, live) /\ x \in Off(K)  BY <1>1, <1>5, <1>6, ReplacesEntry
<1>9. Holds(list_replace_init(mem, x, e), K, live)  BY <1>8, ForgetsEntry DEF list_replace_init
<1> QED  BY <1>7, <1>8, <1>9

\* and of a head.
LEMMA ReplaceHeadHolds ==
  ASSUME Holds(mem, lists, live), NEW h \in live, NEW new \in Heads, ReplaceHead(h, new)
  PROVE  Holds(mem, lists, live)'
<1>1. new \in Heads \ live  BY DEF ReplaceHead
<1>2. PICK K : K = [lists EXCEPT ![new] = lists[h], ![h] = <<>>]  OBVIOUS
<1>3. PICK W : W = (live \ {h}) \cup {new}  OBVIOUS
<1>4. Holds(list_replace(mem, h, new), K, W)  BY <1>1, <1>2, <1>3, ReplacesHead
<1>5. h \in Heads /\ lists \in [Heads -> Seq(Entries)]  BY DEF Holds
<1>6. K[h] = <<>>  BY <1>2, <1>5
<1>7. Holds(list_replace_init(mem, h, new), K, W \cup {h})
  BY <1>4, <1>5, <1>6, Initialises DEF list_replace_init
<1>8. W \cup {h} = live \cup {new}  BY <1>3
<1>9. /\ lists' = K
      /\ \/ mem' = list_replace(mem, h, new) /\ live' = W
         \/ mem' = list_replace_init(mem, h, new) /\ live' = live \cup {new}
  BY <1>2, <1>3 DEF ReplaceHead, Now2
<1> QED  BY <1>4, <1>7, <1>8, <1>9

\* list_move and list_move_tail.
LEMMA MoveHolds ==
  ASSUME Holds(mem, lists, live), NEW h \in live, NEW i \in 1 .. Len(lists[h]), NEW g \in live,
         Move(h, i, g)
  PROVE  Holds(mem, lists, live)'
<1>1. PICK x \in Entries, u \in Seq(Entries), v \in Seq(Entries) :
        /\ x = At(h, i) /\ lists[h] = (u ++ One(x)) ++ v /\ Without(lists[h], i) = u ++ v
  BY Entry
<1>2. PICK K : K = [lists EXCEPT ![h] = u ++ v]  OBVIOUS
<1>3. /\ Holds(list_move(mem, x, g), [K EXCEPT ![g] = One(x) ++ K[g]], live)
      /\ Holds(list_move_tail(mem, x, g), [K EXCEPT ![g] = K[g] ++ One(x)], live)
  BY <1>1, <1>2, Moves
<1>4. /\ live' = live
      /\ \/ mem' = list_move(mem, x, g) /\ lists' = [K EXCEPT ![g] = One(x) ++ K[g]]
         \/ mem' = list_move_tail(mem, x, g) /\ lists' = [K EXCEPT ![g] = K[g] ++ One(x)]
  BY <1>1, <1>2 DEF Move, Relocated, ++, One
<1> QED  BY <1>3, <1>4

\* list_bulk_move_tail.
LEMMA BulkMoveTailHolds ==
  ASSUME Holds(mem, lists, live), NEW h \in live, NEW i \in 1 .. Len(lists[h]),
         NEW j \in 1 .. Len(lists[h]), BulkMoveTail(h, i, j)
  PROVE  Holds(mem, lists, live)'
<1>1. lists[h] \in Seq(Entries)  BY DEF Holds
<1>2. PICK s \in Seq(Entries) : s = lists[h]  BY <1>1
<1>3. PICK n \in Nat : n = Len(s)  BY LenProperties
<1>4. i \in 1 .. n /\ j \in 1 .. n /\ i <= j /\ i \in Nat /\ j \in Nat
  BY <1>2, <1>3 DEF BulkMoveTail
<1>5. j \in 0 .. Len(s) /\ i - 1 \in 0 .. j  BY <1>3, <1>4
<1>6. PICK a \in Seq(Entries), v \in Seq(Entries) :
        /\ a = First(s, j) /\ v = Rest(s, j) /\ s = a ++ v /\ Len(a) = j
        /\ \A p \in 1 .. j : a[p] = s[p]
  BY <1>5, SplitAt
<1>7. PICK u \in Seq(Entries), x \in Seq(Entries) :
        /\ u = First(a, i - 1) /\ x = Rest(a, i - 1) /\ a = u ++ x /\ Len(u) = i - 1
        /\ (x = <<>> <=> i - 1 = j) /\ Len(x) = j - (i - 1)
        /\ (\A p \in 1 .. i - 1 : u[p] = a[p]) /\ \A p \in 1 .. j - (i - 1) : x[p] = a[i - 1 + p]
  <2>1. PICK k \in 0 .. Len(a) : k = i - 1  BY <1>5, <1>6
  <2>2. /\ First(a, k) \in Seq(Entries) /\ Rest(a, k) \in Seq(Entries)
        /\ a = First(a, k) ++ Rest(a, k) /\ Len(First(a, k)) = k
        /\ (Rest(a, k) = <<>> <=> k = Len(a)) /\ Len(Rest(a, k)) = Len(a) - k
        /\ \A p \in 1 .. k : First(a, k)[p] = a[p]
        /\ \A p \in 1 .. Len(a) - k : Rest(a, k)[p] = a[k + p]
    BY SplitAt
  <2> QED  BY <1>6, <2>1, <2>2
<1>8. x # <<>> /\ x[1] = s[i] /\ Last(x) = s[j]
  <2>1. i - 1 # j /\ 1 \in 1 .. j - (i - 1) /\ j - (i - 1) \in 1 .. j - (i - 1)
        /\ i - 1 + 1 = i /\ i - 1 + (j - (i - 1)) = j /\ i \in 1 .. j /\ j \in 1 .. j
    BY <1>4
  <2> QED  BY <1>6, <1>7, <2>1 DEF Last
<1>9. u = First(s, i - 1)
  <2>1. i - 1 \in 0 .. Len(s)  BY <1>3, <1>4
  <2>2. /\ First(s, i - 1) \in Seq(Entries) /\ Len(First(s, i - 1)) = i - 1
        /\ \A p \in 1 .. i - 1 : First(s, i - 1)[p] = s[p]
    BY <2>1, SplitAt
  <2>3. \A p \in 1 .. i - 1 : p \in 1 .. j  BY <1>4
  <2>4. \A p \in 1 .. i - 1 : u[p] = First(s, i - 1)[p]  BY <1>6, <1>7, <2>2, <2>3
  <2> QED  BY <1>7, <2>2, <2>4, SeqEqual
<1>10. x = SubSeq(s, i, j)
  <2>1. /\ SubSeq(s, i, j) \in Seq(Entries) /\ Len(SubSeq(s, i, j)) = j - i + 1
        /\ \A p \in 1 .. j - i + 1 : SubSeq(s, i, j)[p] = s[i + p - 1]
    BY <1>3, <1>4, SubSeqProperties
  <2>2. Len(x) = j - i + 1  BY <1>4, <1>7
  <2>3. ASSUME NEW p \in 1 .. j - i + 1  PROVE x[p] = SubSeq(s, i, j)[p]
    <3>1. p \in 1 .. j - (i - 1) /\ i - 1 + p \in 1 .. j /\ i + p - 1 = i - 1 + p  BY <1>4
    <3> QED  BY <1>6, <1>7, <2>1, <3>1
  <2> QED  BY <2>1, <2>2, <2>3, SeqEqual
<1>11. At(h, i) = x[1] /\ At(h, j) = Last(x)  BY <1>2, <1>4, <1>8 DEF At
<1>12. /\ live' = live /\ mem' = list_bulk_move_tail(mem, h, x[1], Last(x))
       /\ lists' = [lists EXCEPT ![h] = (u ++ v) ++ x]
  BY <1>2, <1>6, <1>9, <1>10, <1>11 DEF BulkMoveTail, Now, ++
<1>13. lists[h] = (u ++ x) ++ v  BY <1>2, <1>6, <1>7
<1>14. Holds(list_bulk_move_tail(mem, h, x[1], Last(x)), [lists EXCEPT ![h] = (u ++ v) ++ x], live)
  BY <1>8, <1>13, BulkMoves
<1> QED  BY <1>12, <1>14


\* list_rotate_left and list_rotate_to_front.
LEMMA RotateHolds ==
  ASSUME Holds(mem, lists, live), NEW h \in live, NEW i \in 0 .. Len(lists[h]), Rotate(h, i)
  PROVE  Holds(mem, lists, live)'
<1>1. h \in Heads /\ lists \in [Heads -> Seq(Entries)]  BY DEF Holds
<1>2. PICK s \in Seq(Entries) : s = lists[h]  BY <1>1
<1>3. ASSUME mem' = list_rotate_left(mem, h), live' = live,
             lists' = [lists EXCEPT ![h] = IF s = <<>> THEN <<>> ELSE Rest(s, 1) ++ First(s, 1)]
      PROVE  Holds(mem, lists, live)'
  <2>1. CASE s = <<>>
    <3>1. mem' = mem  BY <1>2, <1>3, <2>1, Empty DEF list_rotate_left
    <3>2. lists' = lists  BY <1>1, <1>2, <1>3, <2>1
    <3> QED  BY <1>3, <3>1, <3>2
  <2>2. CASE s # <<>>
    <3>1. Len(s) \in Nat /\ Len(s) # 0  BY <2>2, LenProperties, EmptySeq
    <3>2. 1 \in 1 .. Len(lists[h])  BY <1>2, <3>1
    <3>3. /\ s = (First(s, 1 - 1) ++ One(At(h, 1))) ++ Rest(s, 1)
          /\ At(h, 1) \in Entries /\ Rest(s, 1) \in Seq(Entries)
      BY <1>2, <3>2, Entry
    <3>4. PICK x \in Entries, v \in Seq(Entries) : x = At(h, 1) /\ v = Rest(s, 1)  BY <3>3
    <3>5. First(s, 1 - 1) = <<>>  BY SplitEnds
    <3>6. One(x) \in Seq(Entries)  BY OneFacts
    <3>7. s = One(x) ++ v  BY <3>3, <3>4, <3>5, <3>6, CatEmpty
    <3>8. First(s, 1) = One(x)
      <4>1. 1 \in 1 .. Len(s) /\ At(h, 1) = s[1]  BY <1>2, <3>2 DEF At
      <4>2. First(s, 1) = First(s, 1 - 1) ++ One(s[1])  BY <4>1, SplitEntry
      <4> QED  BY <3>4, <3>5, <3>6, <4>1, <4>2, CatEmpty
    <3>9. Holds(list_rotate_left(mem, h), [lists EXCEPT ![h] = v ++ One(x)], live)
      BY <1>2, <3>7, RotatesLeft
    <3> QED  BY <1>3, <2>2, <3>4, <3>8, <3>9
  <2> QED  BY <2>1, <2>2
<1>4. ASSUME i > 0, mem' = list_rotate_to_front(mem, At(h, i), h), live' = live,
             lists' = [lists EXCEPT ![h] = Rest(s, i - 1) ++ First(s, i - 1)]
      PROVE  Holds(mem, lists, live)'
  <2>1. Before(s, i) = i - 1  BY <1>4 DEF Before
  <2>2. PICK u \in Seq(Entries), v \in Seq(Entries) :
          /\ u = First(s, i - 1) /\ v = Rest(s, i - 1) /\ s = u ++ v /\ At(h, i) = Start(h, v)
    BY <1>2, <2>1, Places
  <2>3. v # <<>> /\ At(h, i) = v[1]
    <3>1. i \in 1 .. Len(lists[h])  BY <1>1, <1>4, LenProperties
    <3>2. At(h, i) \in Entries  BY <3>1, Entry
    <3> QED  BY <1>1, <2>2, <3>2, ListAssumption DEF Start
  <2>4. Holds(list_rotate_to_front(mem, v[1], h), [lists EXCEPT ![h] = v ++ u], live)
    BY <1>2, <2>2, <2>3, RotatesToFront
  <2> QED  BY <1>4, <2>2, <2>3, <2>4
<1>5. /\ live' = live
      /\ \/ /\ mem' = list_rotate_left(mem, h)
            /\ lists' = [lists EXCEPT ![h] = IF s = <<>> THEN <<>> ELSE Rest(s, 1) ++ First(s, 1)]
         \/ /\ i > 0 /\ mem' = list_rotate_to_front(mem, At(h, i), h)
            /\ lists' = [lists EXCEPT ![h] = Rest(s, i - 1) ++ First(s, i - 1)]
  BY <1>2 DEF Rotate, Now, ++
<1> QED  BY <1>3, <1>4, <1>5

\* list_cut_position and list_cut_before.
LEMMA CutHolds ==
  ASSUME Holds(mem, lists, live), NEW h \in live, NEW i \in 0 .. Len(lists[h]), NEW g \in Heads,
         Cut(g, h, i)
  PROVE  Holds(mem, lists, live)'
<1>1. PICK s : s = lists[h]  OBVIOUS
<1>2. PICK k : k = Before(s, i)  OBVIOUS
<1>3. PICK a \in Seq(Entries), b \in Seq(Entries) :
        a = First(s, i) /\ b = Rest(s, i) /\ s = a ++ b /\ At(h, i) = End(h, a)
  BY <1>1, Places
<1>4. PICK c \in Seq(Entries), d \in Seq(Entries) :
        c = First(s, k) /\ d = Rest(s, k) /\ s = c ++ d /\ At(h, i) = Start(h, d)
  BY <1>1, <1>2, Places
<1>5. /\ g # h /\ lists[g] = <<>>
      /\ \/ /\ mem' = list_cut_position(mem, g, h, At(h, i))
            /\ lists' = [lists EXCEPT ![g] = First(s, i), ![h] = Rest(s, i)]
            /\ live' = IF s = <<>> THEN live ELSE live \cup {g}
         \/ /\ mem' = list_cut_before(mem, g, h, At(h, i))
            /\ lists' = [lists EXCEPT ![g] = First(s, k), ![h] = Rest(s, k)]
            /\ live' = live \cup {g}
  BY <1>1, <1>2 DEF Cut, Now2, Before
<1>6. Holds(list_cut_position(mem, g, h, End(h, a)), [lists EXCEPT ![g] = a, ![h] = b],
            IF s = <<>> THEN live ELSE live \cup {g})
  <2>1. lists[h] = a ++ b  BY <1>1, <1>3
  <2>2. Holds(list_cut_position(mem, g, h, End(h, a)), [lists EXCEPT ![g] = a, ![h] = b],
              IF lists[h] = <<>> THEN live ELSE live \cup {g})
    BY <1>5, <2>1, Cuts
  <2> QED  BY <1>1, <2>2
<1>7. Holds(list_cut_before(mem, g, h, Start(h, d)), [lists EXCEPT ![g] = c, ![h] = d],
            live \cup {g})
  BY <1>1, <1>4, <1>5, Cuts
<1> QED  BY <1>3, <1>4, <1>5, <1>6, <1>7

\* list_splice and its three variants.
LEMMA SpliceHolds ==
  ASSUME Holds(mem, lists, live), NEW h \in live, NEW g \in live, Splice(g, h)
  PROVE  Holds(mem, lists, live)'
<1>1. g # h  BY DEF Splice
<1>2. PICK K1 : K1 = [lists EXCEPT ![h] = lists[g] ++ lists[h], ![g] = <<>>]  OBVIOUS
<1>3. PICK K2 : K2 = [lists EXCEPT ![h] = lists[h] ++ lists[g], ![g] = <<>>]  OBVIOUS
<1>4. PICK W : W = IF lists[g] = <<>> THEN live ELSE live \ {g}  OBVIOUS
<1>5. /\ Holds(list_splice(mem, g, h), K1, W) /\ Holds(list_splice_tail(mem, g, h), K2, W)
      /\ Holds(list_splice_init(mem, g, h), K1, live)
      /\ Holds(list_splice_tail_init(mem, g, h), K2, live)
  BY <1>1, <1>2, <1>3, <1>4, SplicesEach
<1>6. \/ mem' = list_splice(mem, g, h) /\ live' = W /\ lists' = K1
      \/ mem' = list_splice_tail(mem, g, h) /\ live' = W /\ lists' = K2
      \/ mem' = list_splice_init(mem, g, h) /\ live' = live /\ lists' = K1
      \/ mem' = list_splice_tail_init(mem, g, h) /\ live' = live /\ lists' = K2
  BY <1>2, <1>3, <1>4 DEF Splice, Now2, ++
<1> QED  BY <1>5, <1>6

\* The pieces around two entries of a list.
LEMMA TwoEntries ==
  ASSUME NEW S, NEW s \in Seq(S), NEW j \in 1 .. Len(s), NEW i \in 1 .. j - 1
  PROVE  \E u, v, b \in Seq(S) : /\ s = (((u ++ One(s[i])) ++ v) ++ One(s[j])) ++ b
                                 /\ Len(u) = i - 1 /\ Len(v) = j - 1 - i
<1>1. PICK n \in Nat : n = Len(s)  BY LenProperties
<1>2. j \in 0 .. Len(s) /\ i \in Nat /\ j \in Nat  BY <1>1
<1>3. PICK k \in 0 .. Len(s) : k = j - 1  BY <1>1
<1>4. PICK a \in Seq(S) : /\ a = First(s, k) /\ Len(a) = k /\ \A p \in 1 .. k : a[p] = s[p]
  BY SplitAt
<1>5. PICK b \in Seq(S) : b = Rest(s, j) /\ s = First(s, j) ++ b  BY <1>2, SplitAt
<1>6. First(s, j) = First(s, j - 1) ++ One(s[j])  BY SplitEntry
<1>7. s = (a ++ One(s[j])) ++ b  BY <1>3, <1>4, <1>5, <1>6
<1>8. i \in 1 .. Len(a) /\ i \in 0 .. Len(a) /\ a[i] = s[i]  BY <1>2, <1>3, <1>4
<1>9. PICK q \in 0 .. Len(a) : q = i - 1  BY <1>2, <1>8
<1>10. PICK u \in Seq(S) : u = First(a, q) /\ Len(u) = q  BY SplitAt
<1>11. PICK v \in Seq(S) : v = Rest(a, i) /\ Len(v) = Len(a) - i /\ a = First(a, i) ++ v
  BY <1>8, SplitAt
<1>12. First(a, i) = First(a, i - 1) ++ One(a[i])  BY <1>8, SplitEntry
<1>13. a = (u ++ One(s[i])) ++ v  BY <1>8, <1>9, <1>10, <1>11, <1>12
<1>14. Len(u) = i - 1 /\ Len(v) = j - 1 - i  BY <1>3, <1>4, <1>9, <1>10, <1>11
<1> QED  BY <1>7, <1>13, <1>14


\* A sequence with one or two elements changed, as a function.
LEMMA SeqIsFunction ==
  ASSUME NEW S, NEW s \in Seq(S)
  PROVE  /\ s = [p \in DOMAIN s |-> s[p]]
         /\ \A i, y : [s EXCEPT ![i] = y] = [p \in DOMAIN s |-> IF p = i THEN y ELSE s[p]]
         /\ \A i, j, y, x : i # j => [s EXCEPT ![i] = y, ![j] = x] =
              [p \in DOMAIN s |-> IF p = i THEN y ELSE IF p = j THEN x ELSE s[p]]
<1>1. PICK n \in Nat : s \in [1 .. n -> S]  BY SeqDef
<1> QED  BY <1>1

\* The lists after a swap, list by list.
LEMMA SwappedLists ==
  ASSUME Holds(mem, lists, live), NEW h \in live, NEW i \in 1 .. Len(lists[h]),
         NEW g \in live, NEW j \in 1 .. Len(lists[g]), Swap(h, i, g, j)
  PROVE  /\ h # g => lists' = [lists EXCEPT ![h] = [lists[h] EXCEPT ![i] = At(g, j)],
                                            ![g] = [lists[g] EXCEPT ![j] = At(h, i)]]
         /\ h = g => i # j /\ lists' = [lists EXCEPT ![h] =
                                          [lists[h] EXCEPT ![i] = At(h, j), ![j] = At(h, i)]]
<1>1. h \in Heads /\ g \in Heads /\ lists \in [Heads -> Seq(Entries)]  BY DEF Holds
<1>2. PICK x, y : x = At(h, i) /\ y = At(g, j)  OBVIOUS
<1>3. lists' = [k \in Heads |-> [p \in DOMAIN lists[k] |->
                 IF k = h /\ p = i THEN y ELSE IF k = g /\ p = j THEN x ELSE lists[k][p]]]
  BY <1>2 DEF Swap
<1>4. \A k \in Heads : lists[k] = [p \in DOMAIN lists[k] |-> lists[k][p]]
  BY <1>1, SeqIsFunction
<1>5. ASSUME h # g
      PROVE  lists' = [lists EXCEPT ![h] = [lists[h] EXCEPT ![i] = y],
                                    ![g] = [lists[g] EXCEPT ![j] = x]]
  <2>1. PICK a, b : /\ a = [p \in DOMAIN lists[h] |-> IF p = i THEN y ELSE lists[h][p]]
                    /\ b = [p \in DOMAIN lists[g] |-> IF p = j THEN x ELSE lists[g][p]]
    OBVIOUS
  <2>2. a = [lists[h] EXCEPT ![i] = y] /\ b = [lists[g] EXCEPT ![j] = x]
    <3>1. lists[h] \in Seq(Entries) /\ lists[g] \in Seq(Entries)  BY <1>1
    <3> QED  BY <2>1, <3>1, SeqIsFunction
  <2>3. lists'[h] = a /\ lists'[g] = b  BY <1>1, <1>3, <1>5, <2>1
  <2>4. \A k \in Heads \ {h, g} : lists'[k] = lists[k]  BY <1>3, <1>4
  <2>5. lists' = [k \in Heads |-> lists'[k]]  BY <1>3
  <2>6. lists' = [lists EXCEPT ![h] = a, ![g] = b]
    <3>1. PICK K : K = [lists EXCEPT ![h] = a, ![g] = b]  OBVIOUS
    <3>2. /\ K = [k \in Heads |-> K[k]] /\ K[h] = a /\ K[g] = b
          /\ \A k \in Heads \ {h, g} : K[k] = lists[k]
      BY <1>1, <1>5, <3>1
    <3>3. \A k \in Heads : K[k] = lists'[k]  BY <2>3, <2>4, <3>2
    <3> QED  BY <2>5, <3>1, <3>2, <3>3
  <2> QED  BY <2>2, <2>6
<1>6. ASSUME h = g
      PROVE  i # j /\ lists' = [lists EXCEPT ![h] = [lists[h] EXCEPT ![i] = y, ![j] = x]]
  <2>1. i # j  BY <1>6 DEF Swap
  <2>2. PICK a : a = [p \in DOMAIN lists[h] |->
                        IF p = i THEN y ELSE IF p = j THEN x ELSE lists[h][p]]
    OBVIOUS
  <2>3. a = [lists[h] EXCEPT ![i] = y, ![j] = x]
    <3>1. lists[h] \in Seq(Entries)  BY <1>1
    <3> QED  BY <2>1, <2>2, <3>1, SeqIsFunction
  <2>4. lists'[h] = a  BY <1>1, <1>3, <1>6, <2>2
  <2>5. \A k \in Heads \ {h} : lists'[k] = lists[k]  BY <1>3, <1>4, <1>6
  <2>6. lists' = [k \in Heads |-> lists'[k]]  BY <1>3
  <2>7. lists' = [lists EXCEPT ![h] = a]
    <3>1. PICK K : K = [lists EXCEPT ![h] = a]  OBVIOUS
    <3>2. K = [k \in Heads |-> K[k]] /\ K[h] = a /\ \A k \in Heads \ {h} : K[k] = lists[k]
      BY <1>1, <3>1
    <3>3. \A k \in Heads : K[k] = lists'[k]  BY <2>4, <2>5, <3>2
    <3> QED  BY <2>6, <3>1, <3>2, <3>3
  <2> QED  BY <2>1, <2>3, <2>7
<1> QED  BY <1>2, <1>5, <1>6


\* Two entries between pieces are changed, in either order.
LEMMA PutTwo ==
  ASSUME NEW S, NEW u \in Seq(S), NEW v \in Seq(S), NEW b \in Seq(S),
         NEW x \in S, NEW y \in S, NEW c \in S, NEW d \in S
  PROVE  /\ [(((u ++ One(x)) ++ v) ++ One(y)) ++ b
               EXCEPT ![Len(u) + 1] = c, ![Len(u) + 1 + Len(v) + 1] = d]
              = (((u ++ One(c)) ++ v) ++ One(d)) ++ b
         /\ [(((u ++ One(x)) ++ v) ++ One(y)) ++ b
               EXCEPT ![Len(u) + 1 + Len(v) + 1] = d, ![Len(u) + 1] = c]
              = (((u ++ One(c)) ++ v) ++ One(d)) ++ b
<1>1. ASSUME NEW p \in S, NEW q \in S
      PROVE  /\ (((u ++ One(p)) ++ v) ++ One(q)) ++ b = (u ++ One(p)) ++ ((v ++ One(q)) ++ b)
             /\ (v ++ One(q)) ++ b \in Seq(S) /\ (u ++ One(p)) ++ v \in Seq(S)
             /\ Len((u ++ One(p)) ++ v) = Len(u) + 1 + Len(v)
  <2>1. PICK o \in Seq(S) : o = One(p)  BY OneFacts
  <2>2. PICK r \in Seq(S) : r = One(q)  BY OneFacts
  <2>3. Len(o) = 1  BY <2>1, OneFacts
  <2>4. PICK a \in Seq(S) : a = u ++ o  BY CatSeq
  <2>5. Len(a) = Len(u) + 1  BY <2>3, <2>4, CatSeq
  <2>6. ((a ++ v) ++ r) ++ b = a ++ ((v ++ r) ++ b)  BY Assoc4
  <2>7. (v ++ r) ++ b \in Seq(S)  BY Cat3
  <2>8. a ++ v \in Seq(S) /\ Len(a ++ v) = Len(a) + Len(v)  BY CatSeq
  <2> QED  BY <2>1, <2>2, <2>4, <2>5, <2>6, <2>7, <2>8
<1>2. PICK F : F = [p \in S |-> [q \in S |-> (((u ++ One(p)) ++ v) ++ One(q)) ++ b]]  OBVIOUS
<1>3. PICK i, j : i = Len(u) + 1 /\ j = Len(u) + 1 + Len(v) + 1  OBVIOUS
<1>4. ASSUME NEW p \in S, NEW q \in S  PROVE [F[p][q] EXCEPT ![i] = c] = F[c][q]
  <2>1. PICK r \in Seq(S) : r = (v ++ One(q)) ++ b  BY <1>1
  <2>2. [(u ++ One(p)) ++ r EXCEPT ![Len(u) + 1] = c] = (u ++ One(c)) ++ r  BY PutIn
  <2>3. F[p][q] = (u ++ One(p)) ++ r /\ F[c][q] = (u ++ One(c)) ++ r  BY <1>1, <1>2, <2>1
  <2> QED  BY <1>3, <2>2, <2>3
<1>5. ASSUME NEW p \in S, NEW q \in S  PROVE [F[p][q] EXCEPT ![j] = d] = F[p][d]
  <2>1. PICK a \in Seq(S) : a = (u ++ One(p)) ++ v  BY <1>1
  <2>2. Len(a) + 1 = j  BY <1>1, <1>3, <2>1
  <2>3. [(a ++ One(q)) ++ b EXCEPT ![Len(a) + 1] = d] = (a ++ One(d)) ++ b  BY PutIn
  <2>4. F[p][q] = (a ++ One(q)) ++ b /\ F[p][d] = (a ++ One(d)) ++ b  BY <1>2, <2>1
  <2> QED  BY <2>2, <2>3, <2>4
<1>6. [F[x][y] EXCEPT ![i] = c] = F[c][y] /\ [F[c][y] EXCEPT ![j] = d] = F[c][d]  BY <1>4, <1>5
<1>7. [F[x][y] EXCEPT ![j] = d] = F[x][d] /\ [F[x][d] EXCEPT ![i] = c] = F[c][d]  BY <1>4, <1>5
<1>8. /\ [F[x][y] EXCEPT ![i] = c, ![j] = d] = F[c][d]
      /\ [F[x][y] EXCEPT ![j] = d, ![i] = c] = F[c][d]
  BY <1>6, <1>7
<1>9. /\ F[x][y] = (((u ++ One(x)) ++ v) ++ One(y)) ++ b
      /\ F[c][d] = (((u ++ One(c)) ++ v) ++ One(d)) ++ b
  BY <1>2
<1> QED  BY <1>3, <1>8, <1>9

\* list_swap, of entries of two lists or of one, neighbours or not.
LEMMA SwapHolds ==
  ASSUME Holds(mem, lists, live), NEW h \in live, NEW i \in 1 .. Len(lists[h]),
         NEW g \in live, NEW j \in 1 .. Len(lists[g]), Swap(h, i, g, j)
  PROVE  Holds(mem, lists, live)'
<1>1. lists[h] \in Seq(Entries) /\ lists[g] \in Seq(Entries)  BY DEF Holds
<1>2. PICK x, y : x = At(h, i) /\ y = At(g, j)  OBVIOUS
<1>3. live' = live /\ mem' = list_swap(mem, x, y)  BY <1>2 DEF Swap
<1>4. CASE h # g
  <2>1. PICK u \in Seq(Entries), v \in Seq(Entries) :
          lists[h] = (u ++ One(x)) ++ v /\ Len(u) = i - 1 /\ x \in Entries
    BY <1>2, Entry
  <2>2. PICK a \in Seq(Entries), b \in Seq(Entries) :
          lists[g] = (a ++ One(y)) ++ b /\ Len(a) = j - 1 /\ y \in Entries
    BY <1>2, Entry
  <2>3. [lists[h] EXCEPT ![i] = y] = (u ++ One(y)) ++ v
    <3>1. Len(u) + 1 = i  BY <2>1
    <3>2. [(u ++ One(x)) ++ v EXCEPT ![Len(u) + 1] = y] = (u ++ One(y)) ++ v  BY <2>1, <2>2, PutIn
    <3> QED  BY <2>1, <3>1, <3>2
  <2>4. [lists[g] EXCEPT ![j] = x] = (a ++ One(x)) ++ b
    <3>1. Len(a) + 1 = j  BY <2>2
    <3>2. [(a ++ One(y)) ++ b EXCEPT ![Len(a) + 1] = x] = (a ++ One(x)) ++ b  BY <2>1, <2>2, PutIn
    <3> QED  BY <2>2, <3>1, <3>2
  <2>5. lists' = [lists EXCEPT ![h] = [lists[h] EXCEPT ![i] = y], ![g] = [lists[g] EXCEPT ![j] = x]]
    BY <1>2, <1>4, SwappedLists
  <2>6. Holds(list_swap(mem, x, y),
              [lists EXCEPT ![h] = (u ++ One(y)) ++ v, ![g] = (a ++ One(x)) ++ b], live)
    BY <1>4, <2>1, <2>2, SwapsApart
  <2> QED  BY <1>3, <2>3, <2>4, <2>5, <2>6
<1>5. CASE h = g
  <2>1. PICK s \in Seq(Entries) : s = lists[h]  BY <1>1
  <2>2. PICK n \in Nat : n = Len(s)  BY LenProperties
  <2>3. i \in 1 .. n /\ j \in 1 .. n /\ i \in Nat /\ j \in Nat  BY <1>5, <2>1, <2>2
  <2>4. x = s[i] /\ y = s[j]  BY <1>2, <1>5, <2>1, <2>3 DEF At
  <2>5. x \in Entries /\ y \in Entries  BY <2>2, <2>3, <2>4, ElementOfSeq
  <2>6. i # j /\ lists' = [lists EXCEPT ![h] = [s EXCEPT ![i] = y, ![j] = x]]
    BY <1>2, <1>5, <2>1, SwappedLists
  <2>7. CASE i < j
    <3>1. j \in 1 .. Len(s) /\ i \in 1 .. j - 1  BY <2>2, <2>3, <2>7
    <3>2. PICK u, v, b \in Seq(Entries) : /\ s = (((u ++ One(x)) ++ v) ++ One(y)) ++ b
                                          /\ Len(u) = i - 1 /\ Len(v) = j - 1 - i
      BY <2>4, <3>1, TwoEntries
    <3>3. [s EXCEPT ![i] = y, ![j] = x] = (((u ++ One(y)) ++ v) ++ One(x)) ++ b
      <4>1. Len(u) + 1 = i /\ Len(u) + 1 + Len(v) + 1 = j  BY <2>3, <3>2
      <4>2. [(((u ++ One(x)) ++ v) ++ One(y)) ++ b
               EXCEPT ![Len(u) + 1] = y, ![Len(u) + 1 + Len(v) + 1] = x]
              = (((u ++ One(y)) ++ v) ++ One(x)) ++ b
        BY <2>5, PutTwo
      <4> QED  BY <3>2, <4>1, <4>2
    <3>4. Holds(list_swap(mem, x, y),
                [lists EXCEPT ![h] = (((u ++ One(y)) ++ v) ++ One(x)) ++ b], live)
      BY <2>1, <2>5, <3>2, SwapsForward
    <3> QED  BY <1>3, <2>6, <3>3, <3>4
  <2>8. CASE j < i
    <3>1. i \in 1 .. Len(s) /\ j \in 1 .. i - 1  BY <2>2, <2>3, <2>8
    <3>2. PICK u, v, b \in Seq(Entries) : /\ s = (((u ++ One(y)) ++ v) ++ One(x)) ++ b
                                          /\ Len(u) = j - 1 /\ Len(v) = i - 1 - j
      BY <2>4, <3>1, TwoEntries
    <3>3. [s EXCEPT ![i] = y, ![j] = x] = (((u ++ One(x)) ++ v) ++ One(y)) ++ b
      <4>1. Len(u) + 1 = j /\ Len(u) + 1 + Len(v) + 1 = i  BY <2>3, <3>2
      <4>2. [(((u ++ One(y)) ++ v) ++ One(x)) ++ b
               EXCEPT ![Len(u) + 1 + Len(v) + 1] = y, ![Len(u) + 1] = x]
              = (((u ++ One(x)) ++ v) ++ One(y)) ++ b
        BY <2>5, PutTwo
      <4> QED  BY <3>2, <4>1, <4>2
    <3>4. Holds(list_swap(mem, x, y),
                [lists EXCEPT ![h] = (((u ++ One(x)) ++ v) ++ One(y)) ++ b], live)
      BY <2>1, <2>5, <3>2, SwapsBackward
    <3> QED  BY <1>3, <2>6, <3>3, <3>4
  <2> QED  BY <2>3, <2>6, <2>7, <2>8
<1> QED  BY <1>4, <1>5


----------------------------------------------------------------------------
(* The loop. r is what the loop has not seen yet: the rest of the list as  *)
(* it is now, and of the list as it was when the loop began. pos is where  *)
(* r begins, n the node behind it.                                         *)

Looping(l, L, h, u, r) ==
  /\ l.head = h /\ l.seen \in Seq(Entries) /\ l.start \in Seq(Entries)
  /\ L[h] = u ++ r /\ l.start = l.seen ++ r /\ l.pos = Start(h, r)
  /\ r # <<>> => \E q \in Seq(Entries) : r = One(l.pos) ++ q /\ l.n = Start(h, q)

Loops == [head : Pointers, pos : Pointers, n : Pointers, seen : Seq(Entries), start : Seq(Entries)]

InLoop ==
  /\ loop \in Loops
  /\ Idle \/ \E h \in live : \E u, r \in Seq(Entries) : Looping(loop, lists, h, u, r)

\* A sequence that is not empty, begun with its first element.
LEMMA Begun ==
  ASSUME NEW S, NEW r \in Seq(S), r # <<>>
  PROVE  \E q \in Seq(S) : r = One(r[1]) ++ q /\ r[1] \in S
<1>1. 1 \in 1 .. Len(r)  BY LenProperties, EmptySeq
<1>2. 1 \in 0 .. Len(r)  BY <1>1
<1>3. PICK q \in Seq(S) : q = Rest(r, 1) /\ r = First(r, 1) ++ q  BY <1>2, SplitAt
<1>4. First(r, 1) = First(r, 1 - 1) ++ One(r[1]) /\ One(r[1]) \in Seq(S) /\ r[1] \in S
  BY <1>1, SplitEntry
<1>5. First(r, 1 - 1) = <<>>  BY SplitEnds
<1> QED  BY <1>3, <1>4, <1>5, CatEmpty

\* The node behind an entry.
LEMMA NextOf ==
  ASSUME NEW m, NEW L, NEW V, Holds(m, L, V), NEW h \in V, NEW y \in Entries,
         NEW u \in Seq(Entries), NEW q \in Seq(Entries), L[h] = u ++ (One(y) ++ q)
  PROVE  m.next[y] = Start(h, q)
<1>1. h \in Heads  BY DEF Holds
<1>2. One(y) \in Seq(Entries) /\ One(y) # <<>> /\ Last(One(y)) = y  BY OneFacts, EmptySeq
<1>3. PICK a \in Seq(Entries) : a = u ++ One(y)  BY <1>2, CatSeq
<1>4. L[h] = a ++ q  BY <1>2, <1>3, Assoc
<1>5. End(h, a) = y
  <2>1. u \in Seq(Nodes) /\ One(y) \in Seq(Nodes)  BY <1>1, <1>2, RingFacts
  <2> QED  BY <1>2, <1>3, <2>1, CatEnds DEF End, Chains
<1> QED  BY <1>4, <1>5, Neighbours

\* A loop whose n is the successor of its pos.
LEMMA Advances ==
  ASSUME NEW m, NEW L, NEW V, Holds(m, L, V), NEW h \in V, NEW u \in Seq(Entries),
         NEW r \in Seq(Entries), L[h] = u ++ r, NEW l, l.head = h, l.seen \in Seq(Entries),
         l.start = l.seen ++ r, l.pos = Start(h, r), l.n = m.next[l.pos]
  PROVE  Looping(l, L, h, u, r)
<1>1. l.start \in Seq(Entries)  BY CatSeq
<1>2. ASSUME r # <<>>
      PROVE  \E q \in Seq(Entries) : r = One(l.pos) ++ q /\ l.n = Start(h, q)
  <2>1. PICK q \in Seq(Entries) : r = One(r[1]) ++ q /\ r[1] \in Entries  BY <1>2, Begun
  <2>2. PICK y \in Entries : y = r[1]  BY <2>1
  <2>3. l.pos = y  BY <1>2, <2>2 DEF Start
  <2>4. L[h] = u ++ (One(y) ++ q)  BY <2>1, <2>2
  <2>5. m.next[y] = Start(h, q)  BY <2>4, NextOf
  <2> QED  BY <2>1, <2>2, <2>3, <2>5
<1> QED  BY <1>1, <1>2 DEF Looping

\* Pieces are found again where they were put together.
LEMMA SplitBack ==
  ASSUME NEW S, NEW u \in Seq(S), NEW v \in Seq(S)
  PROVE  First(u ++ v, Len(u)) = u /\ Rest(u ++ v, Len(u)) = v /\ Len(u) \in 0 .. Len(u ++ v)
<1>A. /\ \A p \in 1 .. Len(u) : (u ++ v)[p] = u[p]
      /\ \A p \in 1 .. Len(v) : (u ++ v)[Len(u) + p] = v[p]
  BY CatAt
<1>1. PICK s \in Seq(S) : s = u ++ v /\ Len(s) = Len(u) + Len(v)  BY CatSeq
<1>2. PICK n \in Nat : n = Len(u)  BY LenProperties
<1>3. PICK l \in Nat : l = Len(v)  BY LenProperties
<1>4. n \in 0 .. Len(s) /\ Len(s) - n = l  BY <1>1, <1>2, <1>3
<1>5. /\ \A p \in 1 .. Len(u) : s[p] = u[p]
      /\ \A p \in 1 .. Len(v) : s[Len(u) + p] = v[p]
  BY <1>A, <1>1
<1>6. /\ First(s, n) \in Seq(S) /\ Rest(s, n) \in Seq(S)
      /\ Len(First(s, n)) = n /\ Len(Rest(s, n)) = Len(s) - n
      /\ \A p \in 1 .. n : First(s, n)[p] = s[p]
      /\ \A p \in 1 .. Len(s) - n : Rest(s, n)[p] = s[n + p]
  BY <1>4, SplitAt
<1>7. First(s, n) = u
  <2>1. \A p \in 1 .. n : First(s, n)[p] = u[p]  BY <1>2, <1>5, <1>6
  <2> QED  BY <1>2, <1>6, <2>1, SeqEqual
<1>8. Rest(s, n) = v
  <2>1. Len(Rest(s, n)) = Len(v)  BY <1>3, <1>4, <1>6
  <2>2. \A p \in 1 .. Len(v) : Rest(s, n)[p] = v[p]  BY <1>2, <1>3, <1>4, <1>5, <1>6
  <2> QED  BY <1>6, <2>1, <2>2, SeqEqual
<1> QED  BY <1>1, <1>2, <1>4, <1>7, <1>8

\* The entry between two pieces is found where it is.
LEMMA Found ==
  ASSUME NEW u \in Seq(Entries), NEW q \in Seq(Entries), NEW e \in Entries,
         Once((u ++ One(e)) ++ q)
  PROVE  LET s == (u ++ One(e)) ++ q
         IN  /\ \E k \in DOMAIN s : s[k] = e
             /\ \A k \in DOMAIN s : s[k] = e => Without(s, k) = u ++ q
<1>1. One(e) \in Seq(Entries) /\ Len(One(e)) = 1 /\ One(e)[1] = e /\ DOMAIN One(e) = {1}
  BY OneFacts
<1>2. PICK o \in Seq(Entries) : o = One(e)  BY <1>1
<1>3. PICK a \in Seq(Entries) : a = u ++ o /\ Len(a) = Len(u) + 1  BY <1>1, <1>2, CatSeq
<1>4. PICK b \in Seq(Entries) : b = o ++ q  BY CatSeq
<1>5. PICK s \in Seq(Entries) : s = a ++ q  BY CatSeq
<1>6. s = u ++ b  BY <1>2, <1>3, <1>4, <1>5, Assoc
<1>7. First(s, Len(u)) = u /\ Rest(s, Len(a)) = q
  BY <1>5, <1>6, SplitBack
<1>8. PICK n \in Nat : n = Len(u)  BY LenProperties
<1>9. n + 1 \in DOMAIN s /\ s[n + 1] = e
  <2>A. o[1] = e /\ Len(o) = 1  BY <1>1, <1>2
  <2>1. 1 \in 1 .. Len(o) /\ o[1] = e  BY <2>A
  <2>2. a[Len(u) + 1] = e
    <3>1. \A p \in 1 .. Len(o) : (u ++ o)[Len(u) + p] = o[p]  BY CatAt
    <3> QED  BY <1>3, <2>1, <3>1
  <2>3. DOMAIN s = 1 .. Len(a) + Len(q) /\ \A p \in 1 .. Len(a) : s[p] = a[p]  BY <1>5, CatAt
  <2>4. Len(q) \in Nat  BY LenProperties
  <2>5. n + 1 \in 1 .. Len(a) /\ n + 1 \in 1 .. Len(a) + Len(q)  BY <1>3, <1>8, <2>4
  <2> QED  BY <1>8, <2>2, <2>3, <2>5
<1>10. Once(s)  BY <1>2, <1>3, <1>5
<1>11. ASSUME NEW i \in DOMAIN s, s[i] = e  PROVE Without(s, i) = u ++ q
  <2>1. i = n + 1  BY <1>9, <1>10, <1>11 DEF Once
  <2>2. Without(s, i) = First(s, i - 1) ++ Rest(s, i)  BY DEF Without, ++
  <2>3. i - 1 = Len(u) /\ i = Len(a)  BY <1>3, <1>8, <2>1
  <2> QED  BY <1>7, <2>2, <2>3
<1> QED  BY <1>2, <1>3, <1>5, <1>9, <1>11

\* A loop begins with the whole list before it.
LEMMA LoopBeginHolds ==
  ASSUME Holds(mem, lists, live), InLoop, NEW h \in live, LoopBegin(h)
  PROVE  Holds(mem, lists, live)' /\ InLoop'
<1>1. /\ h \in Heads /\ mem \in Mem /\ lists[h] \in Seq(Entries)  BY DEF Holds
<1>2. /\ mem' = mem /\ live' = live /\ lists' = lists
      /\ loop' = [head |-> h, pos |-> mem.next[h], n |-> mem.next[mem.next[h]],
                  seen |-> <<>>, start |-> lists[h]]
  BY DEF LoopBegin
<1>3. PICK s \in Seq(Entries) : s = lists[h]  BY <1>1
<1>4. PICK z \in Seq(Entries) : z = <<>>  BY EmptySeq
<1>5. z ++ s = s  BY <1>4, CatEmpty
<1>6. mem.next[h] = Start(h, s) /\ Start(h, s) \in Nodes  BY <1>1, <1>3, HeadsNeighbours, EndsOf
<1>7. mem.next[h] \in Pointers /\ mem.next[mem.next[h]] \in Pointers /\ h \in Pointers
  BY <1>1, <1>6 DEF Mem, Pointers, Nodes
<1>8. loop' \in Loops  BY <1>1, <1>2, <1>4, <1>7 DEF Loops
<1>9. PICK l : l = loop'  OBVIOUS
<1>10. /\ l.head = h /\ l.seen \in Seq(Entries) /\ l.start = l.seen ++ s /\ l.pos = Start(h, s)
       /\ l.n = mem.next[l.pos]
  BY <1>2, <1>3, <1>4, <1>5, <1>6, <1>9
<1>11. lists[h] = z ++ s  BY <1>3, <1>5
<1>12. Looping(l, lists, h, z, s)  BY <1>10, <1>11, Advances
<1>13. Looping(loop', lists', h, z, s)  BY <1>2, <1>9, <1>12
<1> QED  BY <1>2, <1>8, <1>13 DEF InLoop

\* The lists and the memory after a round, and the loop after it.
LEMMA Round ==
  ASSUME Holds(mem, lists, live), InLoop, LoopBody, loop.head \in live, loop.pos \in Entries,
         NEW u \in Seq(Entries), NEW q \in Seq(Entries),
         lists[loop.head] = (u ++ One(loop.pos)) ++ q
  PROVE  /\ Holds(mem, lists, live)' /\ live' = live
         /\ \/ lists'[loop.head] = (u ++ One(loop.pos)) ++ q
            \/ lists'[loop.head] = u ++ q
         /\ loop' = [loop EXCEPT !.pos = loop.n, !.n = mem'.next[loop.n],
                                 !.seen = Append(@, loop.pos)]
<1>1. PICK i : i = CHOOSE k \in DOMAIN lists[loop.head] : lists[loop.head][k] = loop.pos  OBVIOUS
<1>2. /\ live' = live
      /\ \/ /\ mem' = mem /\ lists' = lists
            /\ loop' = [loop EXCEPT !.pos = LoopNext(mem).pos, !.n = LoopNext(mem).n,
                                    !.seen = Append(@, loop.pos)]
         \/ /\ mem' = list_del(mem, loop.pos)
            /\ lists' = [lists EXCEPT ![loop.head] = Without(@, i)]
            /\ loop' = [loop EXCEPT !.pos = LoopNext(list_del(mem, loop.pos)).pos,
                                    !.n = LoopNext(list_del(mem, loop.pos)).n,
                                    !.seen = Append(@, loop.pos)]
         \/ \E g \in live \ {loop.head} :
              /\ mem' = list_move(mem, loop.pos, g)
              /\ lists' = [[lists EXCEPT ![loop.head] = Without(@, i)]
                             EXCEPT ![g] = <<loop.pos>> \o @]
              /\ loop' = [loop EXCEPT !.pos = LoopNext(list_move(mem, loop.pos, g)).pos,
                                      !.n = LoopNext(list_move(mem, loop.pos, g)).n,
                                      !.seen = Append(@, loop.pos)]
  BY <1>1 DEF LoopBody, Now, Relocated
<1>3. PICK h \in live : h = loop.head  OBVIOUS
<1>A. PICK e \in Entries : e = loop.pos  OBVIOUS
<1>4. h \in Heads /\ lists \in [Heads -> Seq(Entries)] /\ Once(lists[h])  BY DEF Holds
<1>5. lists[h] = (u ++ One(e)) ++ q  BY <1>3, <1>A
<1>6. Without(lists[h], i) = u ++ q
  <2>1. /\ \E k \in DOMAIN lists[h] : lists[h][k] = e
        /\ \A k \in DOMAIN lists[h] : lists[h][k] = e => Without(lists[h], k) = u ++ q
    BY <1>4, <1>5, Found
  <2>2. i \in DOMAIN lists[loop.head] /\ lists[loop.head][i] = loop.pos  BY <1>1, <1>3, <1>A, <2>1
  <2> QED  BY <1>3, <1>A, <2>1, <2>2
<1>7. PICK K : K = [lists EXCEPT ![h] = u ++ q]  OBVIOUS
<1>8. K[h] = u ++ q  BY <1>4, <1>7
<1>9. \A m : LoopNext(m).pos = loop.n /\ LoopNext(m).n = m.next[loop.n]  BY DEF LoopNext
<1>10. /\ live' = live
       /\ \/ mem' = mem /\ lists' = lists
          \/ mem' = list_del(mem, e) /\ lists' = [lists EXCEPT ![h] = Without(@, i)]
          \/ \E g \in live \ {h} :
               /\ mem' = list_move(mem, e, g)
               /\ lists' = [[lists EXCEPT ![h] = Without(@, i)] EXCEPT ![g] = <<e>> \o @]
  BY <1>2, <1>3, <1>A
<1>11. loop' = [loop EXCEPT !.pos = loop.n, !.n = mem'.next[loop.n], !.seen = Append(@, loop.pos)]
  BY <1>2, <1>9
<1>12. CASE mem' = mem /\ lists' = lists  BY <1>3, <1>A, <1>5, <1>10, <1>11, <1>12
<1>13. CASE mem' = list_del(mem, e) /\ lists' = [lists EXCEPT ![h] = Without(@, i)]
  <2>1. Holds(list_del(mem, e), K, live)  BY <1>5, <1>7, DeletesEach
  <2>2. lists' = K  BY <1>6, <1>7, <1>13
  <2> QED  BY <1>3, <1>A, <1>8, <1>10, <1>11, <1>13, <2>1, <2>2
<1>14. ASSUME NEW g \in live \ {h}, mem' = list_move(mem, e, g),
              lists' = [[lists EXCEPT ![h] = Without(@, i)] EXCEPT ![g] = <<e>> \o @]
       PROVE  Holds(mem, lists, live)' /\ lists'[h] = u ++ q
  <2>1. Holds(list_move(mem, e, g), [K EXCEPT ![g] = One(e) ++ K[g]], live)  BY <1>5, <1>7, Moves
  <2>2. lists' = [K EXCEPT ![g] = One(e) ++ K[g]]  BY <1>6, <1>7, <1>14 DEF ++, One
  <2>3. lists'[h] = K[h]  BY <1>4, <1>7, <2>2
  <2> QED  BY <1>8, <1>10, <1>14, <2>1, <2>2, <2>3
<1> QED  BY <1>3, <1>A, <1>10, <1>11, <1>12, <1>13, <1>14

\* A round takes the first entry of the rest, whatever the body does to it.
LEMMA LoopBodyHolds ==
  ASSUME Holds(mem, lists, live), InLoop, LoopBody
  PROVE  Holds(mem, lists, live)' /\ InLoop'
<1>1. ~Idle /\ loop.pos # loop.head /\ loop \in Loops  BY DEF LoopBody, InLoop
<1>2. PICK h \in live, u \in Seq(Entries), r \in Seq(Entries) : Looping(loop, lists, h, u, r)
  BY <1>1 DEF InLoop
<1>3. h \in Heads  BY DEF Holds
<1>4. r # <<>> /\ loop.head = h  BY <1>1, <1>2 DEF Looping, Start
<1>5. PICK q \in Seq(Entries) : r = One(loop.pos) ++ q /\ loop.n = Start(h, q)
  BY <1>2, <1>4 DEF Looping
<1>6. loop.pos \in Entries
  <2>1. r[1] \in Entries  BY <1>4, Begun
  <2> QED  BY <1>2, <1>4, <2>1 DEF Looping, Start
<1>7. PICK e \in Entries : e = loop.pos  BY <1>6
<1>8. One(e) \in Seq(Entries)  BY OneFacts
<1>9. lists[h] = (u ++ One(e)) ++ q  BY <1>2, <1>5, <1>7, <1>8, Assoc DEF Looping
<1>10. /\ Holds(mem, lists, live)' /\ live' = live
       /\ lists'[h] = (u ++ One(e)) ++ q \/ lists'[h] = u ++ q
       /\ loop' = [loop EXCEPT !.pos = loop.n, !.n = mem'.next[loop.n], !.seen = Append(@, e)]
  <2>1. lists[loop.head] = (u ++ One(loop.pos)) ++ q /\ loop.head \in live  BY <1>4, <1>7, <1>9
  <2>2. /\ Holds(mem, lists, live)' /\ live' = live
        /\ \/ lists'[loop.head] = (u ++ One(loop.pos)) ++ q
           \/ lists'[loop.head] = u ++ q
        /\ loop' = [loop EXCEPT !.pos = loop.n, !.n = mem'.next[loop.n],
                                !.seen = Append(@, loop.pos)]
    BY <1>6, <2>1, Round
  <2> QED  BY <1>4, <1>7, <2>2
<1>11. PICK v \in Seq(Entries) : lists'[h] = v ++ q  BY <1>8, <1>10, CatSeq
<1>12. PICK l : l = loop'  OBVIOUS
<1>13. Append(loop.seen, e) = loop.seen ++ One(e) /\ loop.seen ++ One(e) \in Seq(Entries)
  BY <1>1, <1>8, AppendIsConcat, CatSeq DEF Loops, ++, One
<1>14. /\ l.head = h /\ l.seen = loop.seen ++ One(e) /\ l.pos = Start(h, q)
       /\ l.n = mem'.next[l.pos]
       /\ l.start = loop.start
  BY <1>1, <1>4, <1>5, <1>10, <1>12, <1>13 DEF Loops
<1>15. l.start = l.seen ++ q
  <2>1. loop.start = loop.seen ++ (One(e) ++ q) /\ loop.seen \in Seq(Entries)
    BY <1>2, <1>5, <1>7 DEF Looping
  <2> QED  BY <1>8, <1>14, <2>1, Assoc
<1>16. PICK m1, L1 : m1 = mem' /\ L1 = lists'  OBVIOUS
<1>17. Holds(m1, L1, live)  BY <1>10, <1>16
<1>18. Looping(l, L1, h, v, q)
  <2>1. L1[h] = v ++ q /\ l.n = m1.next[l.pos] /\ l.seen \in Seq(Entries)
    BY <1>11, <1>13, <1>14, <1>16
  <2> QED  BY <1>14, <1>15, <1>17, <2>1, Advances
<1>19. loop' \in Loops
  <2>1. Start(h, q) \in Nodes /\ mem' \in Mem  BY <1>3, <1>10, EndsOf DEF Holds
  <2>2. loop.n \in Pointers /\ mem'.next[loop.n] \in Pointers
    BY <1>5, <2>1 DEF Mem, Pointers
  <2>3. Append(loop.seen, e) \in Seq(Entries)  BY <1>13
  <2> QED  BY <1>1, <1>10, <2>2, <2>3 DEF Loops
<1>20. Looping(loop', lists', h, v, q)  BY <1>12, <1>16, <1>18
<1> QED  BY <1>10, <1>19, <1>20 DEF InLoop

\* The loop is left.
LEMMA LoopEndHolds ==
  ASSUME Holds(mem, lists, live), InLoop, LoopEnd
  PROVE  Holds(mem, lists, live)' /\ InLoop'
<1>1. mem' = mem /\ live' = live /\ lists' = lists /\ loop' = NoLoop  BY DEF LoopEnd
<1>2. NoLoop \in Loops  BY EmptySeq DEF NoLoop, Loops, Pointers
<1> QED  BY <1>1, <1>2 DEF InLoop, Idle


----------------------------------------------------------------------------
(* The inductive invariant.                                                *)

IInv == Holds(mem, lists, live) /\ InLoop

\* Initially no head is in use.
LEMMA InitIInv ==
  ASSUME Init  PROVE IInv
<1>1. mem \in Mem  BY DEF Init, Mem, Pointers
<1>2. lists \in [Heads -> Seq(Entries)] /\ live = {} /\ \A h \in Heads : lists[h] = <<>>
  BY EmptySeq DEF Init
<1>3. \A h \in Heads : Once(lists[h])  BY <1>2 DEF Once
<1>4. \A h, g \in Heads : Apart(lists[h], lists[g])  BY <1>2 DEF Apart, Items
<1>5. loop = NoLoop /\ NoLoop \in Loops  BY EmptySeq DEF Init, NoLoop, Loops, Pointers
<1> QED  BY <1>1, <1>2, <1>3, <1>4, <1>5 DEF IInv, Holds, InLoop, Idle

\* A call leaves the loop idle.
LEMMA StaysIdle ==
  ASSUME InLoop, Idle, loop' = loop  PROVE InLoop'
BY DEF InLoop, Idle

\* Every call and every step of the loop keeps the invariant.
LEMMA NextIInv ==
  ASSUME IInv, [Next]_vars  PROVE IInv'
<1> USE DEF IInv
<1>1. CASE UNCHANGED vars
  <2>1. mem' = mem /\ lists' = lists /\ live' = live /\ loop' = loop  BY <1>1 DEF vars
  <2> QED  BY <2>1 DEF InLoop, Idle
<1>2. ASSUME NEW h \in Heads, InitHead(h)  PROVE IInv'
  BY <1>2, InitHeadHolds, StaysIdle DEF InitHead
<1>3. ASSUME NEW h \in live, NEW i \in 0 .. Len(lists[h]),
             \/ \E e \in Entries : Add(h, i, e) \/ ReplaceEntry(h, i, e)
             \/ Del(h, i) \/ Rotate(h, i)
             \/ \E j \in 0 .. Len(lists[h]) : BulkMoveTail(h, i, j)
             \/ \E g \in live : Move(h, i, g) \/ \E j \in 0 .. Len(lists[g]) : Swap(h, i, g, j)
             \/ \E g \in Heads : Cut(g, h, i)
      PROVE  IInv'
  <2>A. /\ lists \in [Heads -> Seq(Entries)] /\ live \subseteq Heads
        /\ \A g \in live : lists[g] \in Seq(Entries) /\ Len(lists[g]) \in Nat
    BY LenProperties DEF Holds
  <2>B. i > 0 => i \in 1 .. Len(lists[h])  BY <2>A
  <2>1. ASSUME NEW e \in Entries, Add(h, i, e)  PROVE IInv'
    BY <2>1, AddHolds, StaysIdle DEF Add
  <2>2. ASSUME NEW e \in Entries, ReplaceEntry(h, i, e)  PROVE IInv'
    <3>1. i > 0 /\ Idle /\ loop' = loop  BY <2>2 DEF ReplaceEntry
    <3> QED  BY <2>2, <2>B, <3>1, ReplaceEntryHolds, StaysIdle
  <2>3. ASSUME Del(h, i)  PROVE IInv'
    <3>1. i > 0 /\ Idle /\ loop' = loop  BY <2>3 DEF Del
    <3> QED  BY <2>3, <2>B, <3>1, DelHolds, StaysIdle
  <2>4. ASSUME Rotate(h, i)  PROVE IInv'
    BY <2>4, RotateHolds, StaysIdle DEF Rotate
  <2>5. ASSUME NEW j \in 0 .. Len(lists[h]), BulkMoveTail(h, i, j)  PROVE IInv'
    <3>1. i > 0 /\ i <= j /\ Idle /\ loop' = loop  BY <2>5 DEF BulkMoveTail
    <3>2. i \in 1 .. Len(lists[h]) /\ j \in 1 .. Len(lists[h])  BY <2>A, <3>1
    <3> QED  BY <2>5, <3>1, <3>2, BulkMoveTailHolds, StaysIdle
  <2>6. ASSUME NEW g \in live, Move(h, i, g)  PROVE IInv'
    <3>1. i > 0 /\ Idle /\ loop' = loop  BY <2>6 DEF Move
    <3> QED  BY <2>6, <2>B, <3>1, MoveHolds, StaysIdle
  <2>7. ASSUME NEW g \in live, NEW j \in 0 .. Len(lists[g]), Swap(h, i, g, j)  PROVE IInv'
    <3>1. i > 0 /\ j > 0 /\ Idle /\ loop' = loop  BY <2>7 DEF Swap
    <3>2. i \in 1 .. Len(lists[h]) /\ j \in 1 .. Len(lists[g])  BY <2>A, <3>1
    <3> QED  BY <2>7, <3>1, <3>2, SwapHolds, StaysIdle
  <2>8. ASSUME NEW g \in Heads, Cut(g, h, i)  PROVE IInv'
    BY <2>8, CutHolds, StaysIdle DEF Cut
  <2> QED  BY <1>3, <2>1, <2>2, <2>3, <2>4, <2>5, <2>6, <2>7, <2>8
<1>4. ASSUME NEW h \in live, NEW g \in Heads, ReplaceHead(h, g)  PROVE IInv'
  BY <1>4, ReplaceHeadHolds, StaysIdle DEF ReplaceHead
<1>5. ASSUME NEW h \in live, NEW g \in live, Splice(g, h)  PROVE IInv'
  BY <1>5, SpliceHolds, StaysIdle DEF Splice
<1>6. ASSUME NEW h \in live, LoopBegin(h)  PROVE IInv'
  BY <1>6, LoopBeginHolds
<1>7. CASE LoopBody  BY <1>7, LoopBodyHolds
<1>8. CASE LoopEnd  BY <1>8, LoopEndHolds
<1> QED  BY <1>1, <1>2, <1>3, <1>4, <1>5, <1>6, <1>7, <1>8 DEF Next

\* The rings, index by index.
LEMMA HoldsRepresents ==
  ASSUME Holds(mem, lists, live)  PROVE Represents
<1>1. ASSUME NEW h \in live, NEW i \in 1 .. Len(lists[h]) + 1
      PROVE  LET j == IF i = Len(lists[h]) + 1 THEN 1 ELSE i + 1
             IN  mem.next[Ring(h)[i]] = Ring(h)[j] /\ mem.prev[Ring(h)[j]] = Ring(h)[i]
  <2>1. h \in Heads /\ lists[h] \in Seq(Entries) /\ Circle(mem, One(h) ++ lists[h])  BY DEF Holds
  <2>2. PICK n \in Nat : n = Len(lists[h])  BY <2>1, LenProperties
  <2>3. PICK w : w = One(h) ++ lists[h]  OBVIOUS
  <2>4. Len(w) = n + 1
    <3>1. lists[h] \in Seq(Nodes) /\ One(h) \in Seq(Nodes) /\ Len(One(h)) = 1
      BY <2>1, RingFacts, OneFacts
    <3>2. Len(w) = Len(One(h)) + Len(lists[h])  BY <2>3, <3>1, CatSeq
    <3> QED  BY <2>2, <3>1, <3>2
  <2>5. Ring(h) = w  BY <2>3 DEF Ring, ++, One
  <2>6. Chain(mem, w) /\ Linked(mem, w[n + 1], w[1])  BY <2>1, <2>3, <2>4 DEF Circle, Last
  <2>7. \A p \in 1 .. n : Linked(mem, w[p], w[p + 1])  BY <2>4, <2>6 DEF Chain
  <2>8. CASE i = n + 1  BY <2>2, <2>5, <2>6, <2>8 DEF Linked
  <2>9. CASE i # n + 1
    <3>1. i \in 1 .. n  BY <2>2, <2>9
    <3> QED  BY <2>2, <2>5, <2>7, <2>9, <3>1 DEF Linked
  <2> QED  BY <2>8, <2>9
<1>2. ASSUME NEW h \in Heads, NEW g \in Heads, NEW i \in DOMAIN lists[h], NEW j \in DOMAIN lists[g],
             lists[h][i] = lists[g][j]
      PROVE  h = g /\ i = j
  <2>1. Once(lists[h]) /\ (h # g => Apart(lists[h], lists[g]))  BY DEF Holds
  <2>2. lists[h][i] \in Items(lists[h]) /\ lists[g][j] \in Items(lists[g])  BY DEF Items
  <2>3. h = g  BY <1>2, <2>1, <2>2 DEF Apart
  <2> QED  BY <1>2, <2>1, <2>3 DEF Once
<1>3. \A h \in Heads \ live : lists[h] = <<>>  BY DEF Holds
<1> QED  BY <1>1, <1>2, <1>3 DEF Represents

\* What the loop has seen and what is left make the list it began with.
LEMMA InLoopSeesAll ==
  ASSUME IInv  PROVE LoopSeesAll
<1> SUFFICES ASSUME ~Idle
             PROVE  /\ loop.seen = First(loop.start, Len(loop.seen))
                    /\ IF loop.pos = loop.head THEN loop.seen = loop.start
                       ELSE /\ Len(loop.seen) < Len(loop.start)
                            /\ loop.pos = loop.start[Len(loop.seen) + 1]
  BY DEF LoopSeesAll
<1>1. PICK h \in live, u \in Seq(Entries), r \in Seq(Entries) : Looping(loop, lists, h, u, r)
  BY DEF IInv, InLoop
<1>2. h \in Heads  BY DEF IInv, Holds
<1>3. PICK s \in Seq(Entries) : s = loop.seen  BY <1>1 DEF Looping
<1>4. loop.start = s ++ r /\ loop.head = h /\ loop.pos = Start(h, r)  BY <1>1, <1>3 DEF Looping
<1>5. First(s ++ r, Len(s)) = s  BY SplitBack
<1>6. CASE r = <<>>
  <2>1. s ++ r = s  BY <1>6, CatEmpty
  <2> QED  BY <1>3, <1>4, <1>5, <1>6, <2>1 DEF Start
<1>7. CASE r # <<>>
  <2>1. r[1] \in Entries  BY <1>7, Begun
  <2>2. loop.pos = r[1] /\ loop.pos # loop.head  BY <1>2, <1>4, <1>7, <2>1, ListAssumption DEF Start
  <2>3. Len(r) \in Nat /\ Len(r) # 0 /\ Len(s) \in Nat  BY <1>7, LenProperties, EmptySeq
  <2>4. 1 \in 1 .. Len(r)  BY <2>3
  <2>5. \A p \in 1 .. Len(r) : (s ++ r)[Len(s) + p] = r[p]  BY CatAt
  <2>6. Len(s ++ r) = Len(s) + Len(r)  BY CatSeq
  <2>7. (s ++ r)[Len(s) + 1] = r[1]  BY <2>4, <2>5
  <2>8. Len(s) < Len(s ++ r)  BY <2>3, <2>6
  <2> QED  BY <1>3, <1>4, <1>5, <2>2, <2>7, <2>8
<1> QED  BY <1>6, <1>7

\* The inductive invariant: the memory holds the lists, and a running loop is
\* where the rest of its list begins.
THEOREM ListInvariance == Spec => []IInv
<1>1. Init => IInv  BY InitIInv
<1>2. IInv /\ [Next]_vars => IInv'  BY NextIInv
<1> QED  BY <1>1, <1>2, PTL DEF Spec

\* Whatever functions of list.h are called in whatever order, for any number
\* of heads and entries: next and prev pointers of every list are those the
\* comments of the functions promise, and no entry is on two lists.
THEOREM RingsAreWhole == Spec => []Represents
<1>1. IInv => Represents  BY HoldsRepresents DEF IInv
<1> QED  BY <1>1, ListInvariance, PTL

\* list_for_each_entry_safe sees each entry the list had when it began, in
\* order and once, when its body removes the entry or moves it to another list.
THEOREM LoopSeesEach == Spec => []LoopSeesAll
<1>1. IInv => LoopSeesAll  BY InLoopSeesAll
<1> QED  BY <1>1, ListInvariance, PTL
=============================================================================
