-------------------------------- MODULE List --------------------------------
(***************************************************************************)
(* The doubly linked lists of container/list.h, which the allocator, the   *)
(* thread pool and the coroutine runtime keep their objects in.            *)
(*                                                                         *)
(* mem holds the two pointers of every struct list_head. The functions of  *)
(* list.h are operators from memory to memory, written store by store in   *)
(* the order of the code: stores through a pointer that an earlier store   *)
(* has changed are what is easy to get wrong in them. lists is a history   *)
(* variable: the list that the comment of each function promises. That the *)
(* memory represents it, forwards and backwards, is the property.          *)
(*                                                                         *)
(* Callers keep the rules in the comments: an entry that is added is on no *)
(* list, one that is removed is on the list, and a head whose list was     *)
(* taken away is not used before it is initialised again.                  *)
(***************************************************************************)
EXTENDS Naturals, Sequences, FiniteSets

CONSTANTS
  Heads, Entries,  \* the struct list_head of the lists and of their entries
  NULL,            \* the null pointer
  LIST_POISON1, LIST_POISON2

Nodes == Heads \cup Entries

ASSUME ListAssumption ==
  /\ IsFiniteSet(Nodes) /\ Heads \cap Entries = {}
  /\ {NULL, LIST_POISON1, LIST_POISON2} \cap Nodes = {}

VARIABLES
  mem,    \* next and prev of every node
  live,   \* the heads that are in use
  lists,  \* the list of every head, as the comments promise it
  loop    \* a list_for_each_entry_safe that is running: its head, pos and n,
          \* the entries its body has seen, and the list when it began

vars == <<mem, live, lists, loop>>

NoLoop == [head |-> NULL, pos |-> NULL, n |-> NULL, seen |-> <<>>, start |-> <<>>]

Init ==
  /\ mem = [next |-> [x \in Nodes |-> NULL], prev |-> [x \in Nodes |-> NULL]]
  /\ live = {}
  /\ lists = [h \in Heads |-> <<>>]
  /\ loop = NoLoop

----------------------------------------------------------------------------
(* The functions. A definition whose name starts with Bad is a slip a      *)
(* change of the next definition could make; nothing else uses it.         *)

INIT_LIST_HEAD(m, list) == [m EXCEPT !.next[list] = list, !.prev[list] = list]

__list_add(m, new, prev, next) ==
  [m EXCEPT !.prev[next] = new, !.next[new] = next,
            !.prev[new] = prev, !.next[prev] = new]

list_add(m, new, head) == __list_add(m, new, head, m.next[head])
list_add_tail(m, new, head) == __list_add(m, new, m.prev[head], head)

__list_del(m, prev, next) == [m EXCEPT !.prev[next] = prev, !.next[prev] = next]
__list_del_entry(m, entry) == __list_del(m, m.prev[entry], m.next[entry])

list_del(m, entry) ==
  [__list_del_entry(m, entry) EXCEPT !.next[entry] = LIST_POISON1,
                                     !.prev[entry] = LIST_POISON2]

__list_del_clearprev(m, entry) ==
  [__list_del_entry(m, entry) EXCEPT !.prev[entry] = NULL]

list_del_init(m, entry) == INIT_LIST_HEAD(__list_del_entry(m, entry), entry)

list_del_init_careful(m, entry) ==
  [__list_del_entry(m, entry) EXCEPT !.prev[entry] = entry, !.next[entry] = entry]

\* old->prev is read after the store through new->next: they are the same
\* pointer when old is an empty list.
list_replace(m, old, new) ==
  LET m1 == [m EXCEPT !.next[new] = m.next[old], !.prev[m.next[old]] = new]
      m2 == [m1 EXCEPT !.prev[new] = m1.prev[old]]
  IN  [m2 EXCEPT !.next[m2.prev[new]] = new]

list_replace_init(m, old, new) == INIT_LIST_HEAD(list_replace(m, old, new), old)

\* Neighbours are not looked for.
BadSwap(m, entry1, entry2) ==
  list_add(list_replace(list_del(m, entry2), entry1, entry2), entry1, m.prev[entry2])

list_swap(m, entry1, entry2) ==
  LET m1 == list_replace(list_del(m, entry2), entry1, entry2)
      pos == m.prev[entry2]
  IN  list_add(m1, entry1, IF pos = entry1 THEN entry2 ELSE pos)

list_move(m, list, head) == list_add(__list_del_entry(m, list), list, head)
list_move_tail(m, list, head) == list_add_tail(__list_del_entry(m, list), list, head)

list_bulk_move_tail(m, head, first, last) ==
  LET m1 == [m EXCEPT !.next[m.prev[first]] = m.next[last],
                      !.prev[m.next[last]] = m.prev[first]]
      m2 == [m1 EXCEPT !.next[m1.prev[head]] = first, !.prev[first] = m1.prev[head]]
  IN  [m2 EXCEPT !.next[last] = head, !.prev[head] = last]

list_empty(m, head) == m.next[head] = head
list_is_singular(m, head) == ~list_empty(m, head) /\ m.next[head] = m.prev[head]

list_rotate_left(m, head) ==
  IF list_empty(m, head) THEN m ELSE list_move_tail(m, m.next[head], head)

list_rotate_to_front(m, list, head) == list_move_tail(m, head, list)

__list_cut_position(m, list, head, entry) ==
  LET new_first == m.next[entry]
      m1 == [m EXCEPT !.next[list] = m.next[head], !.prev[m.next[head]] = list]
  IN  [m1 EXCEPT !.prev[list] = entry, !.next[entry] = list,
                 !.next[head] = new_first, !.prev[new_first] = head]

list_cut_position(m, list, head, entry) ==
  IF \/ list_empty(m, head)
     \/ list_is_singular(m, head) /\ m.next[head] # entry /\ head # entry
  THEN m
  ELSE IF entry = head THEN INIT_LIST_HEAD(m, list)
  ELSE __list_cut_position(m, list, head, entry)

list_cut_before(m, list, head, entry) ==
  LET m1 == [m EXCEPT !.next[list] = m.next[head], !.prev[m.next[head]] = list]
      m2 == [m1 EXCEPT !.prev[list] = m1.prev[entry], !.next[m1.prev[entry]] = list]
  IN  IF m.next[head] = entry THEN INIT_LIST_HEAD(m, list)
      ELSE [m2 EXCEPT !.next[head] = entry, !.prev[entry] = head]

__list_splice(m, list, prev, next) ==
  [m EXCEPT !.prev[m.next[list]] = prev, !.next[prev] = m.next[list],
            !.next[m.prev[list]] = next, !.prev[next] = m.prev[list]]

list_splice(m, list, head) ==
  IF list_empty(m, list) THEN m ELSE __list_splice(m, list, head, m.next[head])

list_splice_tail(m, list, head) ==
  IF list_empty(m, list) THEN m ELSE __list_splice(m, list, m.prev[head], head)

list_splice_init(m, list, head) ==
  IF list_empty(m, list) THEN m ELSE INIT_LIST_HEAD(list_splice(m, list, head), list)

list_splice_tail_init(m, list, head) ==
  IF list_empty(m, list) THEN m
  ELSE INIT_LIST_HEAD(list_splice_tail(m, list, head), list)

----------------------------------------------------------------------------
(* What the comments promise of a list, as sequences.                      *)

Items(s) == {s[i] : i \in DOMAIN s}
OffList == Entries \ UNION {Items(lists[h]) : h \in Heads}
Idle == loop = NoLoop

\* Position 0 of a list is its head.
At(h, i) == IF i = 0 THEN h ELSE lists[h][i]
First(s, i) == SubSeq(s, 1, i)
Rest(s, i) == SubSeq(s, i + 1, Len(s))
Without(s, i) == First(s, i - 1) \o Rest(s, i)

\* The lists with the list of h changed to s.
Now(h, s) == lists' = [lists EXCEPT ![h] = s]
Now2(h, s, g, t) == lists' = [lists EXCEPT ![h] = s, ![g] = t]

\* Entry i of h is taken off and the list of g put together around it.
Relocated(h, i, g, Around(_)) ==
  lists' = LET off == [lists EXCEPT ![h] = Without(@, i)]
           IN  [off EXCEPT ![g] = Around(@)]

----------------------------------------------------------------------------
(* Calls. h and g are heads in use, i and j positions.                     *)

InitHead(h) ==
  /\ Idle /\ h \notin live
  /\ mem' = INIT_LIST_HEAD(mem, h)
  /\ live' = live \cup {h}
  /\ UNCHANGED <<lists, loop>>

\* list_add behind, list_add_tail before the node at position i.
Add(h, i, e) ==
  /\ Idle /\ e \in OffList
  /\ \/ /\ mem' = list_add(mem, e, At(h, i))
        /\ Now(h, First(lists[h], i) \o <<e>> \o Rest(lists[h], i))
     \/ /\ mem' = list_add_tail(mem, e, At(h, i))
        /\ LET k == IF i = 0 THEN Len(lists[h]) ELSE i - 1
           IN  Now(h, First(lists[h], k) \o <<e>> \o Rest(lists[h], k))
  /\ UNCHANGED <<live, loop>>

Del(h, i) ==
  /\ Idle /\ i > 0
  /\ mem' \in {list_del(mem, At(h, i)), __list_del_clearprev(mem, At(h, i)),
               list_del_init(mem, At(h, i)), list_del_init_careful(mem, At(h, i))}
  /\ Now(h, Without(lists[h], i))
  /\ UNCHANGED <<live, loop>>

ReplaceEntry(h, i, e) ==
  /\ Idle /\ i > 0 /\ e \in OffList
  /\ mem' \in {list_replace(mem, At(h, i), e), list_replace_init(mem, At(h, i), e)}
  /\ Now(h, [lists[h] EXCEPT ![i] = e])
  /\ UNCHANGED <<live, loop>>

\* A list gets a new head.
ReplaceHead(h, new) ==
  /\ Idle /\ new \notin live
  /\ \/ mem' = list_replace(mem, h, new) /\ live' = (live \ {h}) \cup {new}
     \/ mem' = list_replace_init(mem, h, new) /\ live' = live \cup {new}
  /\ Now2(new, lists[h], h, <<>>)
  /\ UNCHANGED loop

Swap(h, i, g, j) ==
  /\ Idle /\ i > 0 /\ j > 0 /\ <<h, i>> # <<g, j>>
  /\ mem' = list_swap(mem, At(h, i), At(g, j))
  /\ lists' = [k \in Heads |-> [p \in DOMAIN lists[k] |->
                 IF <<k, p>> = <<h, i>> THEN At(g, j)
                 ELSE IF <<k, p>> = <<g, j>> THEN At(h, i) ELSE lists[k][p]]]
  /\ UNCHANGED <<live, loop>>

Move(h, i, g) ==
  /\ Idle /\ i > 0
  /\ \/ mem' = list_move(mem, At(h, i), g)
        /\ Relocated(h, i, g, LAMBDA s : <<At(h, i)>> \o s)
     \/ mem' = list_move_tail(mem, At(h, i), g)
        /\ Relocated(h, i, g, LAMBDA s : s \o <<At(h, i)>>)
  /\ UNCHANGED <<live, loop>>

BulkMoveTail(h, i, j) ==
  /\ Idle /\ 0 < i /\ i <= j
  /\ mem' = list_bulk_move_tail(mem, h, At(h, i), At(h, j))
  /\ Now(h, First(lists[h], i - 1) \o Rest(lists[h], j) \o SubSeq(lists[h], i, j))
  /\ UNCHANGED <<live, loop>>

\* To the left by one entry, or until entry i is the first.
Rotate(h, i) ==
  /\ Idle
  /\ \/ /\ mem' = list_rotate_left(mem, h)
        /\ Now(h, IF lists[h] = <<>> THEN <<>> ELSE Rest(lists[h], 1) \o First(lists[h], 1))
     \/ /\ i > 0 /\ mem' = list_rotate_to_front(mem, At(h, i), h)
        /\ Now(h, Rest(lists[h], i - 1) \o First(lists[h], i - 1))
  /\ UNCHANGED <<live, loop>>

\* The entries up to i, or before i, get the head g; nothing on an empty
\* list is cut at a position.
Cut(g, h, i) ==
  LET k == IF i = 0 THEN Len(lists[h]) ELSE i - 1
  IN  /\ Idle /\ g # h /\ lists[g] = <<>>
      /\ \/ /\ mem' = list_cut_position(mem, g, h, At(h, i))
            /\ Now2(g, First(lists[h], i), h, Rest(lists[h], i))
            /\ live' = IF lists[h] = <<>> THEN live ELSE live \cup {g}
         \/ /\ mem' = list_cut_before(mem, g, h, At(h, i))
            /\ Now2(g, First(lists[h], k), h, Rest(lists[h], k))
            /\ live' = live \cup {g}
      /\ UNCHANGED loop

\* The list of g goes to the front or to the end of that of h. Without the
\* initialisation the head g is left as it is.
Splice(g, h) ==
  /\ Idle /\ g # h
  /\ \/ /\ mem' = list_splice(mem, g, h)
        /\ live' = IF lists[g] = <<>> THEN live ELSE live \ {g}
        /\ Now2(h, lists[g] \o lists[h], g, <<>>)
     \/ /\ mem' = list_splice_tail(mem, g, h)
        /\ live' = IF lists[g] = <<>> THEN live ELSE live \ {g}
        /\ Now2(h, lists[h] \o lists[g], g, <<>>)
     \/ /\ mem' = list_splice_init(mem, g, h) /\ UNCHANGED live
        /\ Now2(h, lists[g] \o lists[h], g, <<>>)
     \/ /\ mem' = list_splice_tail_init(mem, g, h) /\ UNCHANGED live
        /\ Now2(h, lists[h] \o lists[g], g, <<>>)
  /\ UNCHANGED loop

----------------------------------------------------------------------------
(* list_for_each_entry_safe                                                *)

LoopBegin(h) ==
  /\ Idle
  /\ loop' = [head |-> h, pos |-> mem.next[h], n |-> mem.next[mem.next[h]],
              seen |-> <<>>, start |-> lists[h]]
  /\ UNCHANGED <<mem, live, lists>>

\* pos = pos->next after the body, as in list_for_each_entry.
BadNext(m) == [pos |-> m.next[loop.pos], n |-> m.next[loop.n]]

\* The pointers for the next round, after a body that left memory m.
LoopNext(m) == [pos |-> loop.n, n |-> m.next[loop.n]]

\* The body leaves pos where it is, takes it off or moves it to another list.
LoopBody ==
  LET h == loop.head
      e == loop.pos
      i == CHOOSE k \in DOMAIN lists[h] : lists[h][k] = e
      Goes(m) == /\ mem' = m
                 /\ loop' = [loop EXCEPT !.pos = LoopNext(m).pos, !.n = LoopNext(m).n,
                                         !.seen = Append(@, e)]
  IN  /\ ~Idle /\ e # h
      /\ \/ Goes(mem) /\ UNCHANGED lists
         \/ Goes(list_del(mem, e)) /\ Now(h, Without(lists[h], i))
         \/ \E g \in live \ {h} : /\ Goes(list_move(mem, e, g))
                                  /\ Relocated(h, i, g, LAMBDA s : <<e>> \o s)
      /\ UNCHANGED live

LoopEnd ==
  /\ ~Idle /\ loop.pos = loop.head
  /\ loop' = NoLoop
  /\ UNCHANGED <<mem, live, lists>>

----------------------------------------------------------------------------
Next ==
  \/ \E h \in Heads : InitHead(h)
  \/ \E h \in live : \E i \in 0 .. Len(lists[h]) :
       \/ \E e \in Entries : Add(h, i, e) \/ ReplaceEntry(h, i, e)
       \/ Del(h, i) \/ Rotate(h, i)
       \/ \E j \in 0 .. Len(lists[h]) : BulkMoveTail(h, i, j)
       \/ \E g \in live : Move(h, i, g) \/ \E j \in 0 .. Len(lists[g]) : Swap(h, i, g, j)
       \/ \E g \in Heads : Cut(g, h, i)
  \/ \E h \in live : \/ \E g \in Heads : ReplaceHead(h, g)
                     \/ \E g \in live : Splice(g, h)
                     \/ LoopBegin(h)
  \/ LoopBody \/ LoopEnd

Spec == Init /\ [][Next]_vars

----------------------------------------------------------------------------
(* Properties                                                              *)

\* The nodes of a list in the order of their next pointers, head first.
Ring(h) == <<h>> \o lists[h]

\* Every sequence of calls leaves every list as the comments of the calls
\* promise it, in both directions: the next pointers lead from the head
\* through the entries and back, the prev pointers the same way backwards,
\* and no entry is on two lists.
Represents ==
  /\ \A h \in live : \A i \in 1 .. Len(lists[h]) + 1 :
       LET j == IF i = Len(lists[h]) + 1 THEN 1 ELSE i + 1
       IN  /\ mem.next[Ring(h)[i]] = Ring(h)[j]
           /\ mem.prev[Ring(h)[j]] = Ring(h)[i]
  /\ \A h, g \in Heads : \A i \in DOMAIN lists[h], j \in DOMAIN lists[g] :
       lists[h][i] = lists[g][j] => h = g /\ i = j
  /\ \A h \in Heads \ live : lists[h] = <<>>

\* A list_for_each_entry_safe sees every entry that was on the list when it
\* began, in order and once, though its body removes entries.
LoopSeesAll ==
  ~Idle => /\ loop.seen = First(loop.start, Len(loop.seen))
           /\ IF loop.pos = loop.head THEN loop.seen = loop.start
              ELSE /\ Len(loop.seen) < Len(loop.start)
                   /\ loop.pos = loop.start[Len(loop.seen) + 1]
=============================================================================
