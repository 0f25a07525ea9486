---------------------------- MODULE TimerHeapProofs ----------------------------
(***************************************************************************)
(* Theorems about the timer heap of pjlib, for any number of entries, any  *)
(* delays and any size.  The loops of the heap are recursive functions;    *)
(* what they compute is shown by looking at the first slot, or the last,   *)
(* for which it would not be so.                                           *)
(***************************************************************************)
EXTENDS TimerHeap, TLAPS, FiniteSetTheorems, WellFoundedInduction

-----------------------------------------------------------------------------
(* The first of some numbers, and the last below a bound *)

LEMMA LeastExists ==
  ASSUME NEW T, T \subseteq Nat, T # {}
  PROVE  \E k \in T : \A j \in T : k <= j
<1> DEFINE Upto == {0 .. k : k \in T}
<1>1. Upto \subseteq FiniteSubsetsOf(Nat)
  <2> SUFFICES ASSUME NEW k \in T PROVE 0 .. k \in FiniteSubsetsOf(Nat)
    OBVIOUS
  <2>1. IsFiniteSet(0 .. k)
    BY FS_Interval
  <2> QED
    BY <2>1 DEF FiniteSubsetsOf
<1>2. PICK X \in Upto : \A Y \in Upto : <<Y, X>> \notin StrictSubsetOrdering(Nat)
  <2>1. IsWellFoundedOn(StrictSubsetOrdering(Nat), FiniteSubsetsOf(Nat))
    BY FS_StrictSubsetOrderingWellFounded
  <2>2. Upto # {}
    OBVIOUS
  <2> HIDE DEF Upto
  <2> QED
    BY <1>1, <2>1, <2>2, WFMin
<1>3. PICK k \in T : X = 0 .. k
  OBVIOUS
<1>4. \A j \in T : k <= j
  <2> SUFFICES ASSUME NEW j \in T, ~(k <= j) PROVE FALSE
    OBVIOUS
  <2>1. j \in Nat /\ k \in Nat /\ j < k
    OBVIOUS
  <2>2. 0 .. j \subseteq 0 .. k /\ 0 .. j # 0 .. k
    BY <2>1
  <2>3. <<0 .. j, 0 .. k>> \in StrictSubsetOrdering(Nat)
    BY <2>1, <2>2 DEF StrictSubsetOrdering
  <2> QED
    BY <1>2, <1>3, <2>3
<1> QED
  BY <1>4

LEMMA GreatestExists ==
  ASSUME NEW n \in Nat, NEW T, T \subseteq 0 .. n, T # {}
  PROVE  \E k \in T : \A j \in T : j <= k
<1> DEFINE Mirror == {n - j : j \in T}
<1>1. Mirror \subseteq Nat /\ Mirror # {}
  <2>1. \A j \in T : n - j \in Nat
    OBVIOUS
  <2> QED
    BY <2>1
<1>2. PICK m \in Mirror : \A i \in Mirror : m <= i
  <2> HIDE DEF Mirror
  <2> QED
    BY <1>1, LeastExists
<1>3. PICK k \in T : m = n - k
  OBVIOUS
<1>4. ASSUME NEW j \in T PROVE j <= k
  <2>1. n - j \in Mirror
    OBVIOUS
  <2>2. n - k <= n - j
    BY <1>2, <1>3, <2>1
  <2> QED
    BY <2>2
<1> QED
  BY <1>4

-----------------------------------------------------------------------------
(* Slots of the tree *)

LEMMA Parents ==
  /\ \A s \in Nat : s > 0 =>
       /\ HEAP_PARENT(s) \in Nat /\ HEAP_PARENT(s) < s
       /\ HEAP_LEFT(HEAP_PARENT(s)) <= s /\ s <= HEAP_LEFT(HEAP_PARENT(s)) + 1
  /\ \A s \in Nat : /\ HEAP_LEFT(s) \in Nat /\ HEAP_LEFT(s) > s
                    /\ HEAP_PARENT(HEAP_LEFT(s)) = s /\ HEAP_PARENT(HEAP_LEFT(s) + 1) = s
  /\ \A s, t \in Nat : s <= t => HEAP_PARENT(s) <= HEAP_PARENT(t)
  /\ HEAP_PARENT(0) = 0
BY DEF HEAP_PARENT, HEAP_LEFT

-----------------------------------------------------------------------------
(* The fields of a heap after each of its small changes *)

IsHeap(h) == DOMAIN h = {"max_size", "heap", "freelist", "timer_ids"}

\* Only the array and the slots in the table differ.
SameRest(g, h) ==
  /\ IsHeap(g) /\ g.max_size = h.max_size /\ g.freelist = h.freelist
  /\ DOMAIN g.timer_ids = DOMAIN h.timer_ids

LEMMA CopyNode ==
  ASSUME NEW h, IsHeap(h), NEW slot, NEW id, NEW g, g = copy_node(h, slot, id)
  PROVE  /\ SameRest(g, h)
         /\ DOMAIN g.heap = DOMAIN h.heap \cup {slot}
         /\ \A j \in DOMAIN g.heap : g.heap[j] = IF j = slot THEN id ELSE h.heap[j]
         /\ \A x \in DOMAIN g.timer_ids : g.timer_ids[x] = IF x = id THEN slot ELSE h.timer_ids[x]
<1>1. /\ IsHeap(g) /\ g.max_size = h.max_size /\ g.freelist = h.freelist
      /\ g.heap = With(h.heap, slot, id)
      /\ g.timer_ids = [h.timer_ids EXCEPT ![id] = slot]
  BY DEF copy_node, IsHeap
<1>2. DOMAIN With(h.heap, slot, id) = DOMAIN h.heap \cup {slot}
      /\ \A j \in DOMAIN h.heap \cup {slot} :
           With(h.heap, slot, id)[j] = IF j = slot THEN id ELSE h.heap[j]
  BY DEF With
<1>3. DOMAIN g.timer_ids = DOMAIN h.timer_ids
      /\ \A x \in DOMAIN g.timer_ids : g.timer_ids[x] = IF x = id THEN slot ELSE h.timer_ids[x]
  BY <1>1
<1> QED
  BY <1>1, <1>2, <1>3 DEF SameRest

LEMMA PushFreelist ==
  ASSUME NEW h, IsHeap(h), NEW id
  PROVE  /\ IsHeap(push_freelist(h, id))
         /\ push_freelist(h, id).max_size = h.max_size
         /\ push_freelist(h, id).heap = h.heap
         /\ push_freelist(h, id).freelist = id
         /\ push_freelist(h, id).timer_ids = [h.timer_ids EXCEPT ![id] = -h.freelist]
BY DEF push_freelist, IsHeap

LEMMA PopFreelist ==
  ASSUME NEW h, IsHeap(h)
  PROVE  /\ IsHeap(pop_freelist(h))
         /\ pop_freelist(h).max_size = h.max_size
         /\ pop_freelist(h).heap = h.heap
         /\ pop_freelist(h).timer_ids = h.timer_ids
         /\ pop_freelist(h).freelist = -h.timer_ids[h.freelist]
BY DEF pop_freelist, IsHeap

LEMMA GrowHeap ==
  ASSUME NEW h, IsHeap(h)
  PROVE  /\ IsHeap(grow_heap(h))
         /\ grow_heap(h).max_size = 2 * h.max_size
         /\ grow_heap(h).heap = h.heap
         /\ grow_heap(h).freelist = h.freelist
         /\ grow_heap(h).timer_ids =
              [i \in 0 .. 2 * h.max_size - 1 |->
                 IF i < h.max_size THEN h.timer_ids[i] ELSE -(i + 1)]
BY DEF grow_heap, IsHeap
LEMMA Shorter ==
  ASSUME NEW h, IsHeap(h), NEW a
  PROVE LET g == [h EXCEPT !.heap = Restrict(@, a)] IN
    IsHeap(g) /\ g.heap = Restrict(h.heap, a) /\ g.max_size = h.max_size /\ g.freelist = h.freelist /\ g.timer_ids = h.timer_ids
BY DEF IsHeap

-----------------------------------------------------------------------------
(* The two loops as functions of the slot they start from *)

UpTurn(h, id, due, up, s) ==
  IF s > 0 /\ due[id] < due[h.heap[HEAP_PARENT(s)]]
  THEN copy_node(up[HEAP_PARENT(s)], s, h.heap[HEAP_PARENT(s)])
  ELSE copy_node(h, s, id)

\* The loop up comes to an end from every slot.
LEMMA UpLoop ==
  ASSUME NEW h, NEW id, NEW due, NEW slot \in Nat
  PROVE  \E up : /\ reheap_up(h, id, slot, due) = up[slot]
                 /\ \A s \in 0 .. slot : up[s] = UpTurn(h, id, due, up, s)
<1> DEFINE Ends(n) == \E up : up = [s \in 0 .. n |-> UpTurn(h, id, due, up, s)]
           Not == {n \in Nat : ~Ends(n)}
<1>0. ASSUME Not = {} PROVE \E up : /\ reheap_up(h, id, slot, due) = up[slot]
                                    /\ \A s \in 0 .. slot : up[s] = UpTurn(h, id, due, up, s)
  <2>1. PICK g : g = [s \in 0 .. slot |-> UpTurn(h, id, due, g, s)]
    BY <1>0
  <2>2. \E up : /\ reheap_up(h, id, slot, due) = up[slot]
                /\ up = [s \in 0 .. slot |-> UpTurn(h, id, due, up, s)]
    BY <2>1 DEF reheap_up, UpTurn
  <2> QED
    BY <2>2
<1>1. SUFFICES ASSUME Not # {} PROVE FALSE
  BY <1>0
<1>2. PICK n \in Not : \A m \in Not : n <= m
  <2> HIDE DEF Not
  <2>1. Not \subseteq Nat
    BY DEF Not
  <2> QED
    BY <1>1, <2>1, LeastExists
<1>3. n \in Nat /\ ~Ends(n)
  OBVIOUS
<1>4. CASE n = 0
  <2> DEFINE up == [s \in 0 .. 0 |-> copy_node(h, 0, id)]
  <2>1. \A s \in 0 .. 0 : UpTurn(h, id, due, up, s) = copy_node(h, 0, id)
    BY DEF UpTurn
  <2>2. up = [s \in 0 .. n |-> UpTurn(h, id, due, up, s)]
    BY <1>4, <2>1
  <2> HIDE DEF up
  <2> QED
    BY <1>3, <2>2
<1>5. CASE n # 0
  <2>1. n - 1 \in Nat /\ n - 1 \notin Not
    BY <1>2, <1>3, <1>5
  <2>2. PICK f : f = [s \in 0 .. n - 1 |-> UpTurn(h, id, due, f, s)]
    BY <2>1
  <2> DEFINE up == [s \in 0 .. n |-> IF s = n THEN UpTurn(h, id, due, f, s) ELSE f[s]]
  <2>3. \A s \in 0 .. n - 1 : up[s] = f[s]
    BY <1>3
  <2>4. ASSUME NEW s \in 0 .. n PROVE UpTurn(h, id, due, up, s) = UpTurn(h, id, due, f, s)
    <3>1. s > 0 => HEAP_PARENT(s) \in 0 .. n - 1
      <4>1. s \in Nat /\ s <= n
        BY <1>3
      <4>2. s > 0 => HEAP_PARENT(s) \in Nat /\ HEAP_PARENT(s) < s
        BY <4>1, Parents
      <4> QED
        BY <1>3, <4>1, <4>2
    <3>2. s > 0 => up[HEAP_PARENT(s)] = f[HEAP_PARENT(s)]
      BY <2>3, <3>1
    <3> HIDE DEF up
    <3> QED
      BY <3>2 DEF UpTurn
  <2>5. \A s \in 0 .. n : up[s] = UpTurn(h, id, due, up, s)
    <3>1. \A s \in 0 .. n - 1 : f[s] = UpTurn(h, id, due, f, s)
      BY <2>2
    <3> QED
      BY <1>3, <2>4, <3>1
  <2>6. up = [s \in 0 .. n |-> UpTurn(h, id, due, up, s)]
    BY <2>5
  <2> HIDE DEF up
  <2> QED
    BY <1>3, <2>6
<1> QED
  BY <1>4, <1>5

-----------------------------------------------------------------------------
(* What reheap_up does to the slots up to the one it starts from *)

\* A heap of n nodes, whatever is in slot: the node id is on its way there.
Hole(h, slot, id, n) ==
  /\ IsHeap(h) /\ n \in Nat /\ slot \in 0 .. n - 1
  /\ DOMAIN h.heap \cup {slot} = 0 .. n - 1
  /\ id \in DOMAIN h.timer_ids
  /\ \A j \in 0 .. n - 1 : j # slot =>
       /\ h.heap[j] \in DOMAIN h.timer_ids /\ h.heap[j] # id
       /\ h.timer_ids[h.heap[j]] = j

\* In g the node id and the nodes above slot s of h are in the slots up to s.
UpTo(g, h, id, s) ==
  /\ SameRest(g, h)
  /\ DOMAIN g.heap = DOMAIN h.heap \cup {s}
  /\ \A j \in DOMAIN h.heap : j > s => g.heap[j] = h.heap[j]
  /\ \A j \in 0 .. s : g.heap[j] \in DOMAIN h.timer_ids /\ g.timer_ids[g.heap[j]] = j
  /\ \A j \in 0 .. s : g.heap[j] = id \/ \E i \in 0 .. s - 1 : g.heap[j] = h.heap[i]
  /\ \E j \in 0 .. s : g.heap[j] = id
  /\ \A i \in 0 .. s - 1 : \E j \in 0 .. s : g.heap[j] = h.heap[i]
  /\ \A x \in DOMAIN h.timer_ids :
       (x # id /\ \A i \in 0 .. s - 1 : x # h.heap[i]) => g.timer_ids[x] = h.timer_ids[x]

LEMMA UpBase ==
  ASSUME NEW h, NEW slot, NEW id, NEW n, Hole(h, slot, id, n), NEW s \in 0 .. slot
  PROVE  UpTo(copy_node(h, s, id), h, id, s)
<1> DEFINE g == copy_node(h, s, id)
<1>1. n \in Nat /\ slot \in Nat /\ s \in Nat /\ slot < n /\ s <= slot
  BY DEF Hole
<1>2. /\ SameRest(g, h) /\ DOMAIN g.heap = DOMAIN h.heap \cup {s}
      /\ \A j \in DOMAIN h.heap \cup {s} : g.heap[j] = IF j = s THEN id ELSE h.heap[j]
      /\ \A x \in DOMAIN h.timer_ids : g.timer_ids[x] = IF x = id THEN s ELSE h.timer_ids[x]
  <2>1. IsHeap(h)
    BY DEF Hole
  <2> HIDE DEF g
  <2>2. /\ SameRest(g, h)
        /\ DOMAIN g.heap = DOMAIN h.heap \cup {s}
        /\ \A j \in DOMAIN g.heap : g.heap[j] = IF j = s THEN id ELSE h.heap[j]
        /\ \A x \in DOMAIN g.timer_ids : g.timer_ids[x] = IF x = id THEN s ELSE h.timer_ids[x]
    BY <2>1, CopyNode DEF g
  <2> QED
    BY <2>2 DEF SameRest
<1> HIDE DEF g
<1>3. \A j \in 0 .. s - 1 : /\ j \in DOMAIN h.heap /\ j # s
                            /\ h.heap[j] \in DOMAIN h.timer_ids /\ h.heap[j] # id
                            /\ h.timer_ids[h.heap[j]] = j
  BY <1>1 DEF Hole
<1>4. \A j \in 0 .. s - 1 : g.heap[j] = h.heap[j] /\ g.timer_ids[h.heap[j]] = j
  BY <1>2, <1>3
<1>5. g.heap[s] = id /\ g.timer_ids[id] = s /\ id \in DOMAIN h.timer_ids
  BY <1>2 DEF Hole
<1>6. \A j \in 0 .. s : j = s \/ j \in 0 .. s - 1
  BY <1>1
<1>7. s \in 0 .. s /\ \A j \in 0 .. s - 1 : j \in 0 .. s
  BY <1>1
<1>8. \A j \in DOMAIN h.heap : j > s => g.heap[j] = h.heap[j]
  BY <1>1, <1>2
<1>9. \A j \in 0 .. s : g.heap[j] \in DOMAIN h.timer_ids /\ g.timer_ids[g.heap[j]] = j
  BY <1>3, <1>4, <1>5, <1>6
<1>10. \A j \in 0 .. s : g.heap[j] = id \/ \E i \in 0 .. s - 1 : g.heap[j] = h.heap[i]
  BY <1>4, <1>5, <1>6
<1>11. \A i \in 0 .. s - 1 : \E j \in 0 .. s : g.heap[j] = h.heap[i]
  BY <1>4, <1>7
<1>12. \A x \in DOMAIN h.timer_ids : x # id => g.timer_ids[x] = h.timer_ids[x]
  BY <1>2
<1> QED
  BY <1>2, <1>5, <1>7, <1>8, <1>9, <1>10, <1>11, <1>12 DEF UpTo, g

LEMMA UpStep ==
  ASSUME NEW h, NEW slot, NEW id, NEW n, Hole(h, slot, id, n), NEW s \in 0 .. slot, s > 0,
         NEW p \in 0 .. s - 1, NEW q, UpTo(q, h, id, p)
  PROVE  UpTo(copy_node(q, s, h.heap[p]), h, id, s)
<1> DEFINE y == h.heap[p]
           g == copy_node(q, s, y)
<1>1. n \in Nat /\ slot \in Nat /\ s \in Nat /\ p \in Nat /\ slot < n /\ s <= slot /\ p < s
  BY DEF Hole
<1>2. \A j \in 0 .. s - 1 : /\ j \in DOMAIN h.heap /\ j # s
                            /\ h.heap[j] \in DOMAIN h.timer_ids /\ h.heap[j] # id
                            /\ h.timer_ids[h.heap[j]] = j
  BY <1>1 DEF Hole
<1>3. p \in 0 .. s - 1 /\ p \in 0 .. p /\ s \in 0 .. s
      /\ (\A j \in 0 .. s : j = s \/ j \in 0 .. s - 1)
      /\ (\A j \in 0 .. s - 1 : j \in 0 .. s /\ (j \in 0 .. p \/ (j > p /\ j \in DOMAIN h.heap)))
      /\ (\A j \in 0 .. p : j \in 0 .. s - 1)
      /\ (\A j \in 0 .. p - 1 : j \in 0 .. p /\ j # p)
      /\ (\A j \in 0 .. s - 1 : j \in 0 .. p - 1 \/ j = p \/ j > p)
  BY <1>1, <1>2
<1>4. DOMAIN q.heap = DOMAIN h.heap
  BY <1>2, <1>3 DEF UpTo
<1>5. /\ SameRest(g, h) /\ DOMAIN g.heap = DOMAIN h.heap \cup {s}
      /\ \A j \in DOMAIN h.heap \cup {s} : g.heap[j] = IF j = s THEN y ELSE q.heap[j]
      /\ \A x \in DOMAIN h.timer_ids : g.timer_ids[x] = IF x = y THEN s ELSE q.timer_ids[x]
  <2>1. IsHeap(q) /\ SameRest(q, h)
    BY DEF UpTo, SameRest
  <2> HIDE DEF g
  <2>2. /\ SameRest(g, q)
        /\ DOMAIN g.heap = DOMAIN q.heap \cup {s}
        /\ \A j \in DOMAIN g.heap : g.heap[j] = IF j = s THEN y ELSE q.heap[j]
        /\ \A x \in DOMAIN g.timer_ids : g.timer_ids[x] = IF x = y THEN s ELSE q.timer_ids[x]
    BY <2>1, CopyNode DEF g
  <2> HIDE DEF y
  <2> QED
    BY <1>4, <2>1, <2>2 DEF SameRest
<1>6. y \in DOMAIN h.timer_ids /\ y # id /\ h.timer_ids[y] = p
  BY <1>2
<1>7. \A j \in 0 .. s - 1 : g.heap[j] = q.heap[j]
  BY <1>2, <1>5
<1>8. g.heap[s] = y /\ g.timer_ids[y] = s
  BY <1>5, <1>6
<1>9. \A j \in 0 .. p : q.heap[j] # y
  <2>1. \A i \in 0 .. p - 1 : h.heap[i] # y
    BY <1>2, <1>3, <1>6
  <2> QED
    BY <1>6, <2>1 DEF UpTo
<1>10. ASSUME NEW j \in 0 .. s - 1, j > p
       PROVE  q.heap[j] = h.heap[j] /\ q.timer_ids[h.heap[j]] = j /\ h.heap[j] # y
  <2>1. q.heap[j] = h.heap[j]
    BY <1>2, <1>10 DEF UpTo
  <2>2. \A i \in 0 .. p - 1 : h.heap[j] # h.heap[i]
    BY <1>2, <1>3, <1>10
  <2>3. q.timer_ids[h.heap[j]] = j
    BY <1>2, <2>2 DEF UpTo
  <2>4. h.heap[j] # y
    BY <1>2, <1>10, <1>6
  <2> QED
    BY <2>1, <2>3, <2>4
<1>11. \A j \in 0 .. s - 1 : g.heap[j] \in DOMAIN h.timer_ids /\ g.timer_ids[g.heap[j]] = j
  <2> SUFFICES ASSUME NEW j \in 0 .. s - 1
               PROVE  g.heap[j] \in DOMAIN h.timer_ids /\ g.timer_ids[g.heap[j]] = j
    OBVIOUS
  <2>1. q.heap[j] \in DOMAIN h.timer_ids /\ q.timer_ids[q.heap[j]] = j /\ q.heap[j] # y
    <3>1. CASE j \in 0 .. p
      BY <3>1, <1>9 DEF UpTo
    <3>2. CASE j > p
      BY <3>2, <1>2, <1>10
    <3> QED
      BY <1>3, <3>1, <3>2
  <2> HIDE DEF g, y
  <2> QED
    BY <1>5, <1>7, <2>1
<1>12. ASSUME NEW j \in 0 .. s
       PROVE  g.heap[j] = id \/ \E i \in 0 .. s - 1 : g.heap[j] = h.heap[i]
  <2>1. CASE j = s
    BY <1>8, <2>1
  <2>2. CASE j \in 0 .. p
    <3>1. q.heap[j] = id \/ \E i \in 0 .. p - 1 : q.heap[j] = h.heap[i]
      BY <2>2 DEF UpTo
    <3> HIDE DEF g
    <3> QED
      BY <1>3, <1>7, <2>2, <3>1
  <2>3. CASE j \in 0 .. s - 1 /\ j > p
    BY <2>3, <1>7, <1>10
  <2> QED
    BY <1>3, <2>1, <2>2, <2>3
<1>13. \E j \in 0 .. s : g.heap[j] = id
  <2>1. PICK j \in 0 .. p : q.heap[j] = id
    BY DEF UpTo
  <2> HIDE DEF g
  <2> QED
    BY <1>3, <1>7, <2>1
<1>14. ASSUME NEW i \in 0 .. s - 1 PROVE \E j \in 0 .. s : g.heap[j] = h.heap[i]
  <2>1. CASE i = p
    BY <1>3, <1>8, <2>1
  <2>2. CASE i \in 0 .. p - 1
    <3>1. PICK j \in 0 .. p : q.heap[j] = h.heap[i]
      BY <2>2 DEF UpTo
    <3> HIDE DEF g
    <3> QED
      BY <1>3, <1>7, <3>1
  <2>3. CASE i > p
    BY <1>3, <1>7, <1>10, <2>3
  <2> QED
    BY <1>3, <2>1, <2>2, <2>3
<1>15. ASSUME NEW x \in DOMAIN h.timer_ids, x # id, \A i \in 0 .. s - 1 : x # h.heap[i]
       PROVE  g.timer_ids[x] = h.timer_ids[x]
  <2>1. x # y /\ \A i \in 0 .. p - 1 : x # h.heap[i]
    BY <1>3, <1>15
  <2>2. q.timer_ids[x] = h.timer_ids[x]
    BY <1>15, <2>1 DEF UpTo
  <2> HIDE DEF g, y
  <2> QED
    BY <1>5, <2>1, <2>2
<1>16. ASSUME NEW j \in DOMAIN h.heap, j > s PROVE g.heap[j] = h.heap[j]
  <2>1. q.heap[j] = h.heap[j] /\ j # s
    <3>1. j \in Nat
      <4>1. DOMAIN h.heap \subseteq 0 .. n - 1
        BY DEF Hole
      <4> QED
        BY <4>1
    <3>2. j > p /\ j # s
      BY <1>1, <1>16, <3>1
    <3> QED
      BY <3>2 DEF UpTo
  <2> HIDE DEF g, y
  <2> QED
    BY <1>5, <2>1
<1>17. \A j \in 0 .. s : g.heap[j] \in DOMAIN h.timer_ids /\ g.timer_ids[g.heap[j]] = j
  BY <1>3, <1>6, <1>8, <1>11
<1> HIDE DEF g
<1>18. UpTo(g, h, id, s)
  BY <1>5, <1>12, <1>13, <1>14, <1>15, <1>16, <1>17 DEF UpTo
<1> QED
  BY <1>18 DEF g, y

\* The nodes but id are in order, and stay so when one moves into slot from
\* above it or from below.
HoleOrdered(h, slot, id, n, due) ==
  /\ due[id] \in Int /\ \A j \in 0 .. n - 1 : j # slot => due[h.heap[j]] \in Int
  /\ \A k \in 0 .. n - 1 :
       (k # slot /\ HEAP_PARENT(k) # slot) => due[h.heap[HEAP_PARENT(k)]] <= due[h.heap[k]]
  /\ \A k \in 0 .. n - 1 :
       (k # slot /\ HEAP_PARENT(k) = slot /\ slot > 0)
         => due[h.heap[HEAP_PARENT(slot)]] <= due[h.heap[k]]

\* Up to slot s, g is in order, and no later than h was.
UpOrdered(g, h, id, s, due) ==
  /\ \A k \in 0 .. s : due[g.heap[HEAP_PARENT(k)]] <= due[g.heap[k]]
  /\ \A j \in 0 .. s - 1 : due[g.heap[j]] <= due[h.heap[j]]
  /\ \/ g.heap[s] = id
     \/ s > 0 /\ g.heap[s] = h.heap[HEAP_PARENT(s)] /\ due[id] < due[h.heap[HEAP_PARENT(s)]]

LEMMA UpOrderedBase ==
  ASSUME NEW h, NEW slot, NEW id, NEW n, Hole(h, slot, id, n), NEW s \in 0 .. slot,
         NEW due, HoleOrdered(h, slot, id, n, due),
         ~(s > 0 /\ due[id] < due[h.heap[HEAP_PARENT(s)]])
  PROVE  UpOrdered(copy_node(h, s, id), h, id, s, due)
<1> DEFINE g == copy_node(h, s, id)
<1>1. n \in Nat /\ slot \in Nat /\ s \in Nat /\ slot < n /\ s <= slot
  BY DEF Hole
<1>2. DOMAIN g.heap = DOMAIN h.heap \cup {s}
      /\ \A j \in DOMAIN g.heap : g.heap[j] = IF j = s THEN id ELSE h.heap[j]
  <2>1. IsHeap(h)
    BY DEF Hole
  <2> HIDE DEF g
  <2> QED
    BY <2>1, CopyNode DEF g
<1> HIDE DEF g
<1>3. \A j \in 0 .. s - 1 : /\ j \in 0 .. n - 1 /\ j \in Nat /\ j # slot
                            /\ j \in DOMAIN h.heap /\ j # s /\ g.heap[j] = h.heap[j]
  <2>1. \A j \in 0 .. s - 1 : /\ j \in 0 .. n - 1 /\ j \in Nat /\ j # slot
                              /\ j \in DOMAIN h.heap /\ j # s
    BY <1>1 DEF Hole
  <2> QED
    BY <1>2, <2>1
<1>4. g.heap[s] = id
  BY <1>2
<1>5. ASSUME NEW k \in 0 .. s, k # s PROVE due[g.heap[HEAP_PARENT(k)]] <= due[g.heap[k]]
  <2>1. k \in 0 .. s - 1 /\ k \in Nat
    BY <1>1, <1>5
  <2>2. HEAP_PARENT(k) \in Nat /\ HEAP_PARENT(k) <= k
    BY <2>1, Parents
  <2>3. HEAP_PARENT(k) \in 0 .. s - 1 /\ HEAP_PARENT(k) # slot
    BY <1>1, <2>1, <2>2
  <2>4. due[h.heap[HEAP_PARENT(k)]] <= due[h.heap[k]]
    BY <1>3, <2>1, <2>3 DEF HoleOrdered
  <2> QED
    BY <1>3, <2>1, <2>3, <2>4
<1>6. due[g.heap[HEAP_PARENT(s)]] <= due[g.heap[s]]
  <2>1. CASE s = 0
    <3>1. HEAP_PARENT(s) = s /\ due[id] \in Int
      BY <2>1, Parents DEF HoleOrdered
    <3> QED
      BY <1>4, <3>1
  <2>2. CASE s > 0
    <3>1. HEAP_PARENT(s) \in Nat /\ HEAP_PARENT(s) < s
      BY <1>1, <2>2, Parents
    <3>2. HEAP_PARENT(s) \in 0 .. s - 1
      BY <1>1, <3>1
    <3>3. due[id] \in Int /\ due[h.heap[HEAP_PARENT(s)]] \in Int
      BY <1>3, <3>2 DEF HoleOrdered
    <3>4. due[h.heap[HEAP_PARENT(s)]] <= due[id]
      BY <2>2, <3>3
    <3> QED
      BY <1>3, <1>4, <3>2, <3>4
  <2> QED
    BY <1>1, <2>1, <2>2
<1>7. \A j \in 0 .. s - 1 : due[g.heap[j]] <= due[h.heap[j]]
  <2>1. \A j \in 0 .. s - 1 : due[h.heap[j]] \in Int
    BY <1>3 DEF HoleOrdered
  <2> QED
    BY <1>3, <2>1
<1>8. UpOrdered(g, h, id, s, due)
  BY <1>4, <1>5, <1>6, <1>7 DEF UpOrdered
<1> QED
  BY <1>8 DEF g

LEMMA UpOrderedStep ==
  ASSUME NEW h, NEW slot, NEW id, NEW n, Hole(h, slot, id, n), NEW s \in 0 .. slot, s > 0,
         NEW due, HoleOrdered(h, slot, id, n, due),
         NEW p, p = HEAP_PARENT(s), due[id] < due[h.heap[p]],
         NEW q, UpTo(q, h, id, p), UpOrdered(q, h, id, p, due)
  PROVE  UpOrdered(copy_node(q, s, h.heap[p]), h, id, s, due)
<1> DEFINE y == h.heap[p]
           g == copy_node(q, s, y)
<1>1. n \in Nat /\ slot \in Nat /\ s \in Nat /\ slot < n /\ s <= slot
  BY DEF Hole
<1>2. p \in Nat /\ p < s
  BY <1>1, Parents
<1>3. \A j \in 0 .. s - 1 : /\ j \in 0 .. n - 1 /\ j \in Nat /\ j # slot
                            /\ j \in DOMAIN h.heap /\ j # s /\ due[h.heap[j]] \in Int
  <2>1. \A j \in 0 .. s - 1 : /\ j \in 0 .. n - 1 /\ j \in Nat /\ j # slot
                              /\ j \in DOMAIN h.heap /\ j # s
    BY <1>1 DEF Hole
  <2> QED
    BY <2>1 DEF HoleOrdered
<1>4. /\ \A j \in 0 .. s - 1 : g.heap[j] = q.heap[j]
      /\ g.heap[s] = y
      /\ \A j \in 0 .. s - 1 : j > p => g.heap[j] = h.heap[j]
  <2>1. IsHeap(q) /\ DOMAIN q.heap = DOMAIN h.heap \cup {p}
    BY DEF UpTo, SameRest
  <2>2. DOMAIN g.heap = DOMAIN q.heap \cup {s}
        /\ \A j \in DOMAIN g.heap : g.heap[j] = IF j = s THEN y ELSE q.heap[j]
    <3> HIDE DEF g
    <3> QED
      BY <2>1, CopyNode DEF g
  <2>3. \A j \in 0 .. s - 1 : j > p => q.heap[j] = h.heap[j]
    BY <1>3 DEF UpTo
  <2> HIDE DEF g, y
  <2> QED
    BY <1>3, <2>1, <2>2, <2>3
<1> HIDE DEF g
<1>5. p \in 0 .. s - 1 /\ p \in 0 .. p
  BY <1>2, <1>1
<1>6. due[q.heap[p]] <= due[y] /\ due[q.heap[p]] \in Int /\ due[y] \in Int
      /\ (q.heap[p] = id \/ (p > 0 /\ q.heap[p] = h.heap[HEAP_PARENT(p)]))
  <2>1. CASE q.heap[p] = id
    BY <2>1, <1>3, <1>5 DEF HoleOrdered
  <2>2. CASE p > 0 /\ q.heap[p] = h.heap[HEAP_PARENT(p)]
    <3>1. HEAP_PARENT(p) \in Nat /\ HEAP_PARENT(p) < p
      BY <1>2, <2>2, Parents
    <3>2. HEAP_PARENT(p) \in 0 .. s - 1 /\ HEAP_PARENT(p) # slot
      BY <1>1, <1>2, <3>1
    <3>3. due[h.heap[HEAP_PARENT(p)]] <= due[h.heap[p]]
      BY <1>3, <1>5, <3>2 DEF HoleOrdered
    <3> QED
      BY <2>2, <1>3, <1>5, <3>2, <3>3
  <2> QED
    BY <2>1, <2>2 DEF UpOrdered
<1>7. ASSUME NEW j \in 0 .. s - 1 PROVE due[g.heap[j]] <= due[h.heap[j]] /\ due[g.heap[j]] \in Int
  <2>1. CASE j < p
    <3>1. j \in 0 .. p - 1 /\ j \in 0 .. p
      BY <1>2, <2>1
    <3>2. due[q.heap[j]] <= due[h.heap[j]]
      BY <3>1 DEF UpOrdered
    <3>3. due[q.heap[j]] \in Int
      <4>1. q.heap[j] = id \/ \E i \in 0 .. p - 1 : q.heap[j] = h.heap[i]
        BY <3>1 DEF UpTo
      <4>2. \A i \in 0 .. p - 1 : i \in 0 .. s - 1
        BY <1>1, <1>2
      <4>3. due[id] \in Int
        BY DEF HoleOrdered
      <4> QED
        BY <4>1, <4>2, <4>3, <1>3
    <3> QED
      BY <1>4, <3>2, <3>3
  <2>2. CASE j = p
    BY <1>4, <1>6, <2>2
  <2>3. CASE j > p
    BY <1>3, <1>4, <2>3
  <2> QED
    BY <1>2, <2>1, <2>2, <2>3
<1>8. ASSUME NEW k \in 0 .. s PROVE due[g.heap[HEAP_PARENT(k)]] <= due[g.heap[k]]
  <2>1. CASE k = s
    BY <1>4, <1>5, <1>6, <2>1
  <2>2. CASE k <= p
    <3>1. k \in 0 .. p /\ k \in 0 .. s - 1 /\ k \in Nat
      BY <1>1, <1>2, <2>2
    <3>2. HEAP_PARENT(k) \in Nat /\ HEAP_PARENT(k) <= k
      BY <3>1, Parents
    <3>3. HEAP_PARENT(k) \in 0 .. s - 1
      BY <1>1, <3>1, <3>2
    <3>4. due[q.heap[HEAP_PARENT(k)]] <= due[q.heap[k]]
      BY <3>1 DEF UpOrdered
    <3> QED
      BY <1>4, <3>1, <3>3, <3>4
  <2>3. CASE k > p /\ k # s
    <3>1. k \in 0 .. s - 1 /\ k \in Nat /\ k > 0 /\ k <= s
      BY <1>1, <1>2, <2>3
    <3>2. HEAP_PARENT(k) \in Nat /\ HEAP_PARENT(k) < k /\ HEAP_PARENT(k) <= p
      BY <1>1, <3>1, Parents
    <3>3. HEAP_PARENT(k) \in 0 .. s - 1 /\ HEAP_PARENT(k) # slot
      BY <1>1, <3>1, <3>2
    <3>4. due[h.heap[HEAP_PARENT(k)]] <= due[h.heap[k]]
      BY <1>3, <3>1, <3>3 DEF HoleOrdered
    <3>5. g.heap[k] = h.heap[k]
      BY <1>4, <2>3, <3>1
    <3> QED
      BY <1>3, <1>7, <3>1, <3>3, <3>4, <3>5
  <2> QED
    BY <1>1, <1>2, <2>1, <2>2, <2>3
<1>9. g.heap[s] = h.heap[HEAP_PARENT(s)] /\ due[id] < due[h.heap[HEAP_PARENT(s)]]
  BY <1>4
<1>10. UpOrdered(g, h, id, s, due)
  BY <1>7, <1>8, <1>9 DEF UpOrdered
<1> QED
  BY <1>10 DEF g, y

Nodes(h, slot, n) == {h.heap[j] : j \in (0 .. n - 1) \ {slot}}

\* The node id has a slot, the others have kept one, and the table knows.
Reheaped(g, h, slot, id, n) ==
  /\ SameRest(g, h) /\ DOMAIN g.heap = 0 .. n - 1
  /\ \A j \in 0 .. n - 1 : g.heap[j] \in DOMAIN h.timer_ids /\ g.timer_ids[g.heap[j]] = j
  /\ Range(g.heap) = Nodes(h, slot, n) \cup {id}
  /\ \A x \in DOMAIN h.timer_ids :
       x \notin Nodes(h, slot, n) \cup {id} => g.timer_ids[x] = h.timer_ids[x]

InOrder(g, n, due) == \A k \in 0 .. n - 1 : due[g.heap[HEAP_PARENT(k)]] <= due[g.heap[k]]

LEMMA UpToSlot ==
  ASSUME NEW h, NEW slot, NEW id, NEW n, Hole(h, slot, id, n),
         NEW due, HoleOrdered(h, slot, id, n, due),
         NEW g, g = reheap_up(h, id, slot, due)
  PROVE  UpTo(g, h, id, slot) /\ UpOrdered(g, h, id, slot, due)
<1>1. slot \in Nat
  BY DEF Hole
<1>2. PICK up : /\ g = up[slot]
                /\ \A s \in 0 .. slot : up[s] = UpTurn(h, id, due, up, s)
  BY <1>1, UpLoop
<1> DEFINE Good(s) == UpTo(up[s], h, id, s) /\ UpOrdered(up[s], h, id, s, due)
           Bad == {s \in 0 .. slot : ~Good(s)}
<1>3. SUFFICES ASSUME Bad # {} PROVE FALSE
  <2>1. slot \in 0 .. slot
    BY <1>1
  <2> HIDE DEF Good
  <2>2. Bad = {} => Good(slot)
    BY <2>1
  <2> QED
    BY <1>2, <2>2 DEF Good
<1> HIDE DEF Good
<1>4. PICK s \in Bad : \A j \in Bad : s <= j
  <2>1. Bad \subseteq Nat
    BY <1>1
  <2> HIDE DEF Bad
  <2> QED
    BY <1>3, <2>1, LeastExists
<1>5. s \in 0 .. slot /\ s \in Nat /\ ~Good(s) /\ up[s] = UpTurn(h, id, due, up, s)
  BY <1>1, <1>2
<1>6. CASE s > 0 /\ due[id] < due[h.heap[HEAP_PARENT(s)]]
  <2> DEFINE p == HEAP_PARENT(s)
  <2>1. p \in Nat /\ p < s
    BY <1>5, <1>6, Parents
  <2> HIDE DEF p
  <2>2. p \in 0 .. slot /\ p \in 0 .. s - 1 /\ p \notin Bad
    BY <1>1, <1>4, <1>5, <2>1
  <2>3. Good(p)
    BY <2>2
  <2>4. up[s] = copy_node(up[p], s, h.heap[p])
    BY <1>5, <1>6 DEF UpTurn, p
  <2>5. UpTo(up[s], h, id, s)
    BY <1>5, <1>6, <2>2, <2>3, <2>4, UpStep DEF Good
  <2>6. UpOrdered(up[s], h, id, s, due)
    <3>1. p = HEAP_PARENT(s) /\ due[id] < due[h.heap[p]]
      BY <1>6 DEF p
    <3> QED
      BY <1>5, <1>6, <2>3, <2>4, <3>1, UpOrderedStep DEF Good
  <2> QED
    BY <1>5, <2>5, <2>6 DEF Good
<1>7. CASE ~(s > 0 /\ due[id] < due[h.heap[HEAP_PARENT(s)]])
  <2>1. up[s] = copy_node(h, s, id)
    BY <1>5, <1>7 DEF UpTurn
  <2>2. UpTo(up[s], h, id, s)
    BY <1>5, <2>1, UpBase
  <2>3. UpOrdered(up[s], h, id, s, due)
    BY <1>5, <1>7, <2>1, UpOrderedBase
  <2> QED
    BY <1>5, <2>2, <2>3 DEF Good
<1> QED
  BY <1>6, <1>7

LEMMA ReheapUp ==
  ASSUME NEW h, NEW slot, NEW id, NEW n, Hole(h, slot, id, n),
         NEW due, HoleOrdered(h, slot, id, n, due),
         \A k \in 0 .. n - 1 :
           (k # slot /\ HEAP_PARENT(k) = slot) => due[id] <= due[h.heap[k]],
         NEW g, g = reheap_up(h, id, slot, due)
  PROVE  Reheaped(g, h, slot, id, n) /\ InOrder(g, n, due)
<1>1. UpTo(g, h, id, slot) /\ UpOrdered(g, h, id, slot, due)
  BY UpToSlot
<1>2. n \in Nat /\ slot \in Nat /\ slot < n /\ slot \in 0 .. slot
  BY DEF Hole
<1>3. \A j \in 0 .. n - 1 : /\ j \in Nat /\ (j \in 0 .. slot - 1 \/ j = slot \/ j > slot)
                            /\ (j \in 0 .. slot <=> j <= slot)
                            /\ j # slot => /\ j \in DOMAIN h.heap /\ h.heap[j] \in DOMAIN h.timer_ids
                                           /\ h.heap[j] # id /\ h.timer_ids[h.heap[j]] = j
  BY <1>2 DEF Hole
<1>4. \A j \in 0 .. slot : j \in 0 .. n - 1
  BY <1>2
<1>5. \A j \in 0 .. slot - 1 : j \in 0 .. n - 1 /\ j # slot /\ j \in 0 .. slot
  BY <1>2
<1>6. SameRest(g, h) /\ DOMAIN g.heap = 0 .. n - 1
  BY <1>1 DEF UpTo, Hole
<1>7. \A j \in 0 .. n - 1 : j > slot => g.heap[j] = h.heap[j]
  BY <1>1, <1>2, <1>3 DEF UpTo
<1>8. \A x \in DOMAIN h.timer_ids :
        (x # id /\ \A i \in 0 .. slot - 1 : x # h.heap[i]) => g.timer_ids[x] = h.timer_ids[x]
  BY <1>1 DEF UpTo
<1>9. ASSUME NEW j \in 0 .. n - 1
      PROVE  g.heap[j] \in DOMAIN h.timer_ids /\ g.timer_ids[g.heap[j]] = j
  <2>1. CASE j \in 0 .. slot
    BY <1>1, <2>1 DEF UpTo
  <2>2. CASE j > slot
    <3>1. \A i \in 0 .. slot - 1 : h.heap[j] # h.heap[i]
      BY <1>2, <1>3, <1>5, <2>2
    <3> QED
      BY <1>2, <1>3, <1>7, <1>8, <2>2, <3>1
  <2> QED
    BY <1>2, <1>3, <2>1, <2>2
<1>10. Range(g.heap) = Nodes(h, slot, n) \cup {id}
  <2>1. ASSUME NEW j \in 0 .. n - 1 PROVE g.heap[j] \in Nodes(h, slot, n) \cup {id}
    <3>1. CASE j \in 0 .. slot
      <4>1. g.heap[j] = id \/ \E i \in 0 .. slot - 1 : g.heap[j] = h.heap[i]
        BY <1>1, <3>1 DEF UpTo
      <4> QED
        BY <1>5, <4>1 DEF Nodes
    <3>2. CASE j > slot
      BY <1>2, <1>7, <3>2 DEF Nodes
    <3> QED
      BY <1>2, <1>3, <3>1, <3>2
  <2>2. id \in Range(g.heap)
    <3>1. \E j \in 0 .. slot : g.heap[j] = id
      BY <1>1 DEF UpTo
    <3> QED
      BY <1>4, <1>6, <3>1 DEF Range
  <2>3. ASSUME NEW i \in 0 .. n - 1, i # slot PROVE h.heap[i] \in Range(g.heap)
    <3>1. CASE i \in 0 .. slot - 1
      <4>1. \E j \in 0 .. slot : g.heap[j] = h.heap[i]
        BY <1>1, <3>1 DEF UpTo
      <4> QED
        BY <1>4, <1>6, <4>1 DEF Range
    <3>2. CASE i > slot
      BY <1>6, <1>7, <3>2 DEF Range
    <3> QED
      BY <1>3, <2>3, <3>1, <3>2
  <2>4. Nodes(h, slot, n) \subseteq Range(g.heap)
    BY <2>3 DEF Nodes
  <2>5. Range(g.heap) \subseteq Nodes(h, slot, n) \cup {id}
    BY <1>6, <2>1 DEF Range
  <2> QED
    BY <2>2, <2>4, <2>5
<1>11. \A x \in DOMAIN h.timer_ids :
         x \notin Nodes(h, slot, n) \cup {id} => g.timer_ids[x] = h.timer_ids[x]
  <2>1. \A i \in 0 .. slot - 1 : h.heap[i] \in Nodes(h, slot, n)
    BY <1>5 DEF Nodes
  <2> QED
    BY <1>8, <2>1
<1>12. ASSUME NEW k \in 0 .. n - 1 PROVE due[g.heap[HEAP_PARENT(k)]] <= due[g.heap[k]]
  <2>1. CASE k \in 0 .. slot
    BY <1>1, <2>1 DEF UpOrdered
  <2>2. CASE k > slot
    <3>1. HEAP_PARENT(k) \in Nat /\ HEAP_PARENT(k) < k
      BY <1>2, <1>3, <2>2, Parents
    <3>2. HEAP_PARENT(k) \in 0 .. n - 1 /\ k # slot
      BY <1>2, <2>2, <3>1
    <3>3. g.heap[k] = h.heap[k] /\ due[h.heap[k]] \in Int
      BY <1>7, <2>2, <3>2 DEF HoleOrdered
    <3>4. CASE HEAP_PARENT(k) > slot
      <4>1. HEAP_PARENT(k) # slot
        BY <1>2, <3>4
      <4>2. due[h.heap[HEAP_PARENT(k)]] <= due[h.heap[k]]
        BY <3>2, <4>1 DEF HoleOrdered
      <4> QED
        BY <1>7, <3>2, <3>3, <3>4, <4>2
    <3>5. CASE HEAP_PARENT(k) = slot
      <4>1. CASE g.heap[slot] = id
        BY <3>2, <3>3, <3>5, <4>1
      <4>2. CASE slot > 0 /\ g.heap[slot] = h.heap[HEAP_PARENT(slot)]
        BY <3>2, <3>3, <3>5, <4>2 DEF HoleOrdered
      <4> QED
        BY <1>1, <4>1, <4>2 DEF UpOrdered
    <3>6. CASE HEAP_PARENT(k) < slot
      <4> DEFINE p == HEAP_PARENT(k)
      <4>1. p \in 0 .. slot - 1 /\ p # slot /\ p \in 0 .. slot
        BY <1>2, <3>1, <3>6
      <4>2. due[h.heap[p]] <= due[h.heap[k]]
        BY <3>2, <4>1 DEF HoleOrdered
      <4>3. due[g.heap[p]] <= due[h.heap[p]]
        BY <1>1, <4>1 DEF UpOrdered
      <4>4. due[h.heap[p]] \in Int /\ due[g.heap[p]] \in Int
        <5>1. \A i \in 0 .. slot - 1 : due[h.heap[i]] \in Int
          BY <1>5 DEF HoleOrdered
        <5>2. g.heap[p] = id \/ \E i \in 0 .. slot - 1 : g.heap[p] = h.heap[i]
          BY <1>1, <4>1 DEF UpTo
        <5>3. due[id] \in Int
          BY DEF HoleOrdered
        <5> QED
          BY <4>1, <5>1, <5>2, <5>3
      <4> HIDE DEF p
      <4>5. due[g.heap[p]] <= due[g.heap[k]]
        BY <3>3, <4>2, <4>3, <4>4
      <4> QED
        BY <4>5 DEF p
    <3> QED
      BY <1>2, <3>1, <3>4, <3>5, <3>6
  <2> QED
    BY <1>2, <1>3, <2>1, <2>2
<1> QED
  BY <1>6, <1>9, <1>10, <1>11, <1>12 DEF Reheaped, InOrder

-----------------------------------------------------------------------------
(* The loop down *)

EarlierChild(h, due, n, s) ==
  LET l == HEAP_LEFT(s) IN
    IF l + 1 < n /\ due[h.heap[l + 1]] < due[h.heap[l]] THEN l + 1 ELSE l

DownTurn(h, id, due, n, down, s) ==
  IF HEAP_LEFT(s) < n /\ due[h.heap[EarlierChild(h, due, n, s)]] < due[id]
  THEN copy_node(down[EarlierChild(h, due, n, s)], s, h.heap[EarlierChild(h, due, n, s)])
  ELSE copy_node(h, s, id)

LEMMA Children ==
  ASSUME NEW h, NEW due, NEW n \in Nat, NEW s \in Nat, HEAP_LEFT(s) < n,
         NEW c, c = EarlierChild(h, due, n, s)
  PROVE  /\ c \in Nat /\ s < c /\ c < n /\ HEAP_PARENT(c) = s
         /\ c = HEAP_LEFT(s) \/ c = HEAP_LEFT(s) + 1
<1>1. HEAP_LEFT(s) \in Nat /\ HEAP_LEFT(s) > s
      /\ HEAP_PARENT(HEAP_LEFT(s)) = s /\ HEAP_PARENT(HEAP_LEFT(s) + 1) = s
  BY Parents
<1>2. CASE c = HEAP_LEFT(s)
  BY <1>1, <1>2
<1>3. CASE c = HEAP_LEFT(s) + 1 /\ HEAP_LEFT(s) + 1 < n
  BY <1>1, <1>3
<1> QED
  BY <1>2, <1>3 DEF EarlierChild

\* The loop down comes to an end from every slot.
LEMMA DownLoop ==
  ASSUME NEW h, NEW id, NEW due, NEW n \in Nat, n = CurSize(h), NEW slot \in 0 .. n
  PROVE  \E down : /\ reheap_down(h, id, slot, due) = down[slot]
                   /\ \A s \in 0 .. n : down[s] = DownTurn(h, id, due, n, down, s)
<1> DEFINE Ends(m) == \E down : down = [s \in n - m .. n |-> DownTurn(h, id, due, n, down, s)]
           Not == {m \in 0 .. n : ~Ends(m)}
<1>0. ASSUME Not = {}
      PROVE  \E down : /\ reheap_down(h, id, slot, due) = down[slot]
                       /\ \A s \in 0 .. n : down[s] = DownTurn(h, id, due, n, down, s)
  <2>1. PICK g : g = [s \in n - n .. n |-> DownTurn(h, id, due, n, g, s)]
    BY <1>0
  <2>2. n - n = 0
    OBVIOUS
  <2>3. g = [s \in 0 .. n |-> DownTurn(h, id, due, n, g, s)]
    BY <2>1, <2>2
  <2>4. \E down : /\ reheap_down(h, id, slot, due) = down[slot]
                  /\ down = [s \in 0 .. n |-> DownTurn(h, id, due, n, down, s)]
    <3> DEFINE m == CurSize(h)
    <3>1. g = [s \in 0 .. m |-> DownTurn(h, id, due, m, g, s)]
      BY <2>3
    <3>2. \E down : /\ reheap_down(h, id, slot, due) = down[slot]
                    /\ down = [s \in 0 .. m |-> DownTurn(h, id, due, m, down, s)]
      BY <3>1 DEF reheap_down, DownTurn, EarlierChild
    <3> QED
      BY <3>2
  <2> QED
    BY <2>4
<1>1. SUFFICES ASSUME Not # {} PROVE FALSE
  BY <1>0
<1>2. PICK m \in Not : \A k \in Not : m <= k
  <2> HIDE DEF Not
  <2>1. Not \subseteq Nat
    BY DEF Not
  <2> QED
    BY <1>1, <2>1, LeastExists
<1>3. m \in Nat /\ m <= n /\ ~Ends(m)
  OBVIOUS
<1>4. ASSUME NEW s \in n - m .. n PROVE s \in Nat /\ s <= n
  BY <1>3
<1>5. CASE m = 0
  <2> DEFINE down == [s \in n .. n |-> copy_node(h, s, id)]
  <2>1. ASSUME NEW s \in n .. n PROVE DownTurn(h, id, due, n, down, s) = copy_node(h, s, id)
    <3>1. s = n /\ ~(HEAP_LEFT(s) < n)
      BY Parents
    <3> QED
      BY <3>1 DEF DownTurn
  <2>2. n - m = n
    BY <1>5
  <2>3. down = [s \in n - m .. n |-> DownTurn(h, id, due, n, down, s)]
    BY <2>1, <2>2
  <2> HIDE DEF down
  <2> QED
    BY <1>3, <2>3
<1>6. CASE m # 0
  <2>1. m - 1 \in 0 .. n /\ m - 1 \notin Not
    BY <1>2, <1>3, <1>6
  <2>2. PICK f : f = [s \in n - (m - 1) .. n |-> DownTurn(h, id, due, n, f, s)]
    BY <2>1
  <2> DEFINE a == n - m
             down == [s \in a .. n |-> IF s = a THEN DownTurn(h, id, due, n, f, s) ELSE f[s]]
  <2>3. a \in Nat /\ a < n /\ n - (m - 1) = a + 1
    BY <1>3, <1>6
  <2> HIDE DEF a
  <2>4. \A s \in a + 1 .. n : s \in a .. n /\ down[s] = f[s]
    BY <2>3
  <2>5. ASSUME NEW s \in a .. n
        PROVE  DownTurn(h, id, due, n, down, s) = DownTurn(h, id, due, n, f, s)
    <3> DEFINE c == EarlierChild(h, due, n, s)
    <3>1. ASSUME HEAP_LEFT(s) < n PROVE down[c] = f[c]
      <4>1. s \in Nat
        BY <2>3
      <4>2. c \in Nat /\ s < c /\ c < n
        BY <3>1, <4>1, Children
      <4>3. c \in a + 1 .. n
        BY <2>3, <4>2
      <4> QED
        BY <2>4, <4>3
    <3> HIDE DEF down
    <3> QED
      BY <3>1 DEF DownTurn
  <2>6. \A s \in a .. n : down[s] = DownTurn(h, id, due, n, down, s)
    <3>1. \A s \in a + 1 .. n : f[s] = DownTurn(h, id, due, n, f, s)
      BY <2>2, <2>3
    <3>2. \A s \in a .. n : s = a \/ s \in a + 1 .. n
      BY <2>3
    <3> QED
      BY <2>5, <3>1, <3>2
  <2>7. down = [s \in a .. n |-> DownTurn(h, id, due, n, down, s)]
    BY <2>6
  <2> HIDE DEF down
  <2> QED
    BY <1>3, <2>7 DEF a
<1> QED
  BY <1>5, <1>6

-----------------------------------------------------------------------------
(* What reheap_down does to the slots from the one it starts from *)

\* In g the node id and the nodes behind slot s of h are in the slots from s.
DownTo(g, h, id, s, n) ==
  /\ SameRest(g, h)
  /\ DOMAIN g.heap = DOMAIN h.heap \cup {s}
  /\ \A j \in DOMAIN h.heap : j < s => g.heap[j] = h.heap[j]
  /\ \A j \in s .. n - 1 : g.heap[j] \in DOMAIN h.timer_ids /\ g.timer_ids[g.heap[j]] = j
  /\ \A j \in s .. n - 1 : g.heap[j] = id \/ \E i \in s + 1 .. n - 1 : g.heap[j] = h.heap[i]
  /\ \E j \in s .. n - 1 : g.heap[j] = id
  /\ \A i \in s + 1 .. n - 1 : \E j \in s .. n - 1 : g.heap[j] = h.heap[i]
  /\ \A x \in DOMAIN h.timer_ids :
       (x # id /\ \A i \in s + 1 .. n - 1 : x # h.heap[i]) => g.timer_ids[x] = h.timer_ids[x]

LEMMA DownBase ==
  ASSUME NEW h, NEW slot, NEW id, NEW n, Hole(h, slot, id, n), NEW s \in slot .. n - 1
  PROVE  DownTo(copy_node(h, s, id), h, id, s, n)
<1> DEFINE g == copy_node(h, s, id)
<1>1. n \in Nat /\ slot \in Nat /\ s \in Nat /\ slot < n /\ s < n /\ slot <= s
  BY DEF Hole
<1>2. /\ SameRest(g, h) /\ DOMAIN g.heap = DOMAIN h.heap \cup {s}
      /\ \A j \in DOMAIN h.heap \cup {s} : g.heap[j] = IF j = s THEN id ELSE h.heap[j]
      /\ \A x \in DOMAIN h.timer_ids : g.timer_ids[x] = IF x = id THEN s ELSE h.timer_ids[x]
  <2>1. IsHeap(h)
    BY DEF Hole
  <2> HIDE DEF g
  <2>2. /\ SameRest(g, h)
        /\ DOMAIN g.heap = DOMAIN h.heap \cup {s}
        /\ \A j \in DOMAIN g.heap : g.heap[j] = IF j = s THEN id ELSE h.heap[j]
        /\ \A x \in DOMAIN g.timer_ids : g.timer_ids[x] = IF x = id THEN s ELSE h.timer_ids[x]
    BY <2>1, CopyNode DEF g
  <2> QED
    BY <2>2 DEF SameRest
<1> HIDE DEF g
<1>3. \A j \in s + 1 .. n - 1 : /\ j \in DOMAIN h.heap /\ j # s
                            /\ h.heap[j] \in DOMAIN h.timer_ids /\ h.heap[j] # id
                            /\ h.timer_ids[h.heap[j]] = j
  BY <1>1 DEF Hole
<1>4. \A j \in s + 1 .. n - 1 : g.heap[j] = h.heap[j] /\ g.timer_ids[h.heap[j]] = j
  BY <1>2, <1>3
<1>5. g.heap[s] = id /\ g.timer_ids[id] = s /\ id \in DOMAIN h.timer_ids
  BY <1>2 DEF Hole
<1>6. \A j \in s .. n - 1 : j = s \/ j \in s + 1 .. n - 1
  BY <1>1
<1>7. s \in s .. n - 1 /\ \A j \in s + 1 .. n - 1 : j \in s .. n - 1
  BY <1>1
<1>8. \A j \in DOMAIN h.heap : j < s => g.heap[j] = h.heap[j]
  BY <1>1, <1>2
<1>9. \A j \in s .. n - 1 : g.heap[j] \in DOMAIN h.timer_ids /\ g.timer_ids[g.heap[j]] = j
  BY <1>3, <1>4, <1>5, <1>6
<1>10. \A j \in s .. n - 1 : g.heap[j] = id \/ \E i \in s + 1 .. n - 1 : g.heap[j] = h.heap[i]
  BY <1>4, <1>5, <1>6
<1>11. \A i \in s + 1 .. n - 1 : \E j \in s .. n - 1 : g.heap[j] = h.heap[i]
  BY <1>4, <1>7
<1>12. \A x \in DOMAIN h.timer_ids : x # id => g.timer_ids[x] = h.timer_ids[x]
  BY <1>2
<1> QED
  BY <1>2, <1>5, <1>7, <1>8, <1>9, <1>10, <1>11, <1>12 DEF DownTo, g

LEMMA DownStep ==
  ASSUME NEW h, NEW slot, NEW id, NEW n, Hole(h, slot, id, n), NEW s \in slot .. n - 1,
         NEW c \in s + 1 .. n - 1, NEW q, DownTo(q, h, id, c, n)
  PROVE  DownTo(copy_node(q, s, h.heap[c]), h, id, s, n)
<1> DEFINE y == h.heap[c]
           g == copy_node(q, s, y)
<1>1. n \in Nat /\ slot \in Nat /\ s \in Nat /\ c \in Nat /\ slot < n /\ s < n /\ slot <= s /\ s < c
  BY DEF Hole
<1>2. \A j \in s + 1 .. n - 1 : /\ j \in DOMAIN h.heap /\ j # s
                            /\ h.heap[j] \in DOMAIN h.timer_ids /\ h.heap[j] # id
                            /\ h.timer_ids[h.heap[j]] = j
  BY <1>1 DEF Hole
<1>3. c \in s + 1 .. n - 1 /\ c \in c .. n - 1 /\ s \in s .. n - 1
      /\ (\A j \in s .. n - 1 : j = s \/ j \in s + 1 .. n - 1)
      /\ (\A j \in s + 1 .. n - 1 : j \in s .. n - 1 /\ (j \in c .. n - 1 \/ (j < c /\ j \in DOMAIN h.heap)))
      /\ (\A j \in c .. n - 1 : j \in s + 1 .. n - 1)
      /\ (\A j \in c + 1 .. n - 1 : j \in c .. n - 1 /\ j # c)
      /\ (\A j \in s + 1 .. n - 1 : j \in c + 1 .. n - 1 \/ j = c \/ j < c)
  BY <1>1, <1>2
<1>4. DOMAIN q.heap = DOMAIN h.heap
  BY <1>2, <1>3 DEF DownTo
<1>5. /\ SameRest(g, h) /\ DOMAIN g.heap = DOMAIN h.heap \cup {s}
      /\ \A j \in DOMAIN h.heap \cup {s} : g.heap[j] = IF j = s THEN y ELSE q.heap[j]
      /\ \A x \in DOMAIN h.timer_ids : g.timer_ids[x] = IF x = y THEN s ELSE q.timer_ids[x]
  <2>1. IsHeap(q) /\ SameRest(q, h)
    BY DEF DownTo, SameRest
  <2> HIDE DEF g
  <2>2. /\ SameRest(g, q)
        /\ DOMAIN g.heap = DOMAIN q.heap \cup {s}
        /\ \A j \in DOMAIN g.heap : g.heap[j] = IF j = s THEN y ELSE q.heap[j]
        /\ \A x \in DOMAIN g.timer_ids : g.timer_ids[x] = IF x = y THEN s ELSE q.timer_ids[x]
    BY <2>1, CopyNode DEF g
  <2> HIDE DEF y
  <2> QED
    BY <1>4, <2>1, <2>2 DEF SameRest
<1>6. y \in DOMAIN h.timer_ids /\ y # id /\ h.timer_ids[y] = c
  BY <1>2
<1>7. \A j \in s + 1 .. n - 1 : g.heap[j] = q.heap[j]
  BY <1>2, <1>5
<1>8. g.heap[s] = y /\ g.timer_ids[y] = s
  BY <1>5, <1>6
<1>9. \A j \in c .. n - 1 : q.heap[j] # y
  <2>1. \A i \in c + 1 .. n - 1 : h.heap[i] # y
    BY <1>2, <1>3, <1>6
  <2> QED
    BY <1>6, <2>1 DEF DownTo
<1>10. ASSUME NEW j \in s + 1 .. n - 1, j < c
       PROVE  q.heap[j] = h.heap[j] /\ q.timer_ids[h.heap[j]] = j /\ h.heap[j] # y
  <2>1. q.heap[j] = h.heap[j]
    BY <1>2, <1>10 DEF DownTo
  <2>2. \A i \in c + 1 .. n - 1 : h.heap[j] # h.heap[i]
    BY <1>2, <1>3, <1>10
  <2>3. q.timer_ids[h.heap[j]] = j
    BY <1>2, <2>2 DEF DownTo
  <2>4. h.heap[j] # y
    BY <1>2, <1>10, <1>6
  <2> QED
    BY <2>1, <2>3, <2>4
<1>11. \A j \in s + 1 .. n - 1 : g.heap[j] \in DOMAIN h.timer_ids /\ g.timer_ids[g.heap[j]] = j
  <2> SUFFICES ASSUME NEW j \in s + 1 .. n - 1
               PROVE  g.heap[j] \in DOMAIN h.timer_ids /\ g.timer_ids[g.heap[j]] = j
    OBVIOUS
  <2>1. q.heap[j] \in DOMAIN h.timer_ids /\ q.timer_ids[q.heap[j]] = j /\ q.heap[j] # y
    <3>1. CASE j \in c .. n - 1
      BY <3>1, <1>9 DEF DownTo
    <3>2. CASE j < c
      BY <3>2, <1>2, <1>10
    <3> QED
      BY <1>3, <3>1, <3>2
  <2> HIDE DEF g, y
  <2> QED
    BY <1>5, <1>7, <2>1
<1>12. ASSUME NEW j \in s .. n - 1
       PROVE  g.heap[j] = id \/ \E i \in s + 1 .. n - 1 : g.heap[j] = h.heap[i]
  <2>1. CASE j = s
    BY <1>8, <2>1
  <2>2. CASE j \in c .. n - 1
    <3>1. q.heap[j] = id \/ \E i \in c + 1 .. n - 1 : q.heap[j] = h.heap[i]
      BY <2>2 DEF DownTo
    <3> HIDE DEF g
    <3> QED
      BY <1>3, <1>7, <2>2, <3>1
  <2>3. CASE j \in s + 1 .. n - 1 /\ j < c
    BY <2>3, <1>7, <1>10
  <2> QED
    BY <1>3, <2>1, <2>2, <2>3
<1>13. \E j \in s .. n - 1 : g.heap[j] = id
  <2>1. PICK j \in c .. n - 1 : q.heap[j] = id
    BY DEF DownTo
  <2> HIDE DEF g
  <2> QED
    BY <1>3, <1>7, <2>1
<1>14. ASSUME NEW i \in s + 1 .. n - 1 PROVE \E j \in s .. n - 1 : g.heap[j] = h.heap[i]
  <2>1. CASE i = c
    BY <1>3, <1>8, <2>1
  <2>2. CASE i \in c + 1 .. n - 1
    <3>1. PICK j \in c .. n - 1 : q.heap[j] = h.heap[i]
      BY <2>2 DEF DownTo
    <3> HIDE DEF g
    <3> QED
      BY <1>3, <1>7, <3>1
  <2>3. CASE i < c
    BY <1>3, <1>7, <1>10, <2>3
  <2> QED
    BY <1>3, <2>1, <2>2, <2>3
<1>15. ASSUME NEW x \in DOMAIN h.timer_ids, x # id, \A i \in s + 1 .. n - 1 : x # h.heap[i]
       PROVE  g.timer_ids[x] = h.timer_ids[x]
  <2>1. x # y /\ \A i \in c + 1 .. n - 1 : x # h.heap[i]
    BY <1>3, <1>15
  <2>2. q.timer_ids[x] = h.timer_ids[x]
    BY <1>15, <2>1 DEF DownTo
  <2> HIDE DEF g, y
  <2> QED
    BY <1>5, <2>1, <2>2
<1>16. ASSUME NEW j \in DOMAIN h.heap, j < s PROVE g.heap[j] = h.heap[j]
  <2>1. q.heap[j] = h.heap[j] /\ j # s
    <3>1. j \in Nat
      <4>1. DOMAIN h.heap \subseteq 0 .. n - 1
        BY DEF Hole
      <4> QED
        BY <4>1
    <3>2. j < c /\ j # s
      BY <1>1, <1>16, <3>1
    <3> QED
      BY <3>2 DEF DownTo
  <2> HIDE DEF g, y
  <2> QED
    BY <1>5, <2>1
<1>17. \A j \in s .. n - 1 : g.heap[j] \in DOMAIN h.timer_ids /\ g.timer_ids[g.heap[j]] = j
  BY <1>3, <1>6, <1>8, <1>11
<1> HIDE DEF g
<1>18. DownTo(g, h, id, s, n)
  BY <1>5, <1>12, <1>13, <1>14, <1>15, <1>16, <1>17 DEF DownTo
<1> QED
  BY <1>18 DEF g, y

LEMMA EarlierChildFirst ==
  ASSUME NEW h, NEW due, NEW n \in Nat, NEW s \in Nat,
         \A j \in s + 1 .. n - 1 : due[h.heap[j]] \in Int,
         NEW k \in s + 1 .. n - 1, HEAP_PARENT(k) = s,
         NEW c, c = EarlierChild(h, due, n, s)
  PROVE  /\ HEAP_LEFT(s) < n /\ c \in s + 1 .. n - 1
         /\ due[h.heap[c]] <= due[h.heap[k]]
<1>1. k \in Nat /\ k > s /\ k < n
  OBVIOUS
<1>2. HEAP_LEFT(s) \in Nat /\ HEAP_LEFT(s) <= k /\ k <= HEAP_LEFT(s) + 1 /\ s < HEAP_LEFT(s)
  BY <1>1, Parents
<1>3. HEAP_LEFT(s) < n
  BY <1>1, <1>2
<1>4. c \in Nat /\ s < c /\ c < n /\ (c = HEAP_LEFT(s) \/ c = HEAP_LEFT(s) + 1)
  BY <1>3, Children
<1>5. due[h.heap[c]] <= due[h.heap[k]]
  <2> DEFINE l == HEAP_LEFT(s)
  <2>1. l \in s + 1 .. n - 1 /\ (k = l \/ k = l + 1)
    BY <1>1, <1>2, <1>3
  <2>2. c = IF l + 1 < n /\ due[h.heap[l + 1]] < due[h.heap[l]] THEN l + 1 ELSE l
    BY DEF EarlierChild
  <2>3. due[h.heap[l]] \in Int /\ due[h.heap[k]] \in Int
    BY <2>1
  <2> HIDE DEF l
  <2>4. CASE k = l
    BY <2>1, <2>2, <2>3, <2>4
  <2>5. CASE k = l + 1
    BY <1>1, <2>1, <2>2, <2>3, <2>5
  <2> QED
    BY <2>1, <2>4, <2>5
<1> QED
  BY <1>3, <1>4, <1>5

\* From slot s, g is in order, and no earlier than h was.
DownOrdered(g, h, id, s, n, due) ==
  /\ \A k \in s + 1 .. n - 1 :
       HEAP_PARENT(k) >= s => due[g.heap[HEAP_PARENT(k)]] <= due[g.heap[k]]
  /\ \A j \in s + 1 .. n - 1 : due[h.heap[j]] <= due[g.heap[j]]
  /\ \/ g.heap[s] = id
     \/ \E c \in s + 1 .. n - 1 :
          HEAP_PARENT(c) = s /\ g.heap[s] = h.heap[c] /\ due[h.heap[c]] < due[id]

LEMMA DownOrderedBase ==
  ASSUME NEW h, NEW slot, NEW id, NEW n, Hole(h, slot, id, n), NEW s \in slot .. n - 1,
         NEW due, HoleOrdered(h, slot, id, n, due),
         ~(HEAP_LEFT(s) < n /\ due[h.heap[EarlierChild(h, due, n, s)]] < due[id])
  PROVE  DownOrdered(copy_node(h, s, id), h, id, s, n, due)
<1> DEFINE g == copy_node(h, s, id)
<1>1. n \in Nat /\ slot \in Nat /\ s \in Nat /\ slot < n /\ slot <= s /\ s < n
  BY DEF Hole
<1>2. DOMAIN g.heap = DOMAIN h.heap \cup {s}
      /\ \A j \in DOMAIN g.heap : g.heap[j] = IF j = s THEN id ELSE h.heap[j]
  <2>1. IsHeap(h)
    BY DEF Hole
  <2> HIDE DEF g
  <2> QED
    BY <2>1, CopyNode DEF g
<1> HIDE DEF g
<1>3. \A j \in s + 1 .. n - 1 : /\ j \in 0 .. n - 1 /\ j \in Nat /\ j # slot /\ j > s /\ j < n
                                /\ j \in DOMAIN h.heap /\ j # s /\ g.heap[j] = h.heap[j]
                                /\ due[h.heap[j]] \in Int
  <2>1. \A j \in s + 1 .. n - 1 : /\ j \in 0 .. n - 1 /\ j \in Nat /\ j # slot /\ j > s /\ j < n
                                  /\ j \in DOMAIN h.heap /\ j # s
    BY <1>1 DEF Hole
  <2> QED
    BY <1>2, <2>1 DEF HoleOrdered
<1>4. g.heap[s] = id /\ due[id] \in Int
  BY <1>2 DEF HoleOrdered
<1>5. ASSUME NEW k \in s + 1 .. n - 1, HEAP_PARENT(k) >= s
      PROVE  due[g.heap[HEAP_PARENT(k)]] <= due[g.heap[k]]
  <2>1. HEAP_PARENT(k) \in Nat /\ HEAP_PARENT(k) < k
    BY <1>1, <1>3, Parents
  <2>2. CASE HEAP_PARENT(k) = s
    <3> DEFINE c == EarlierChild(h, due, n, s)
    <3>1. HEAP_LEFT(s) < n /\ c \in s + 1 .. n - 1 /\ due[h.heap[c]] <= due[h.heap[k]]
      BY <1>1, <1>3, <2>2, EarlierChildFirst
    <3>2. ~(due[h.heap[c]] < due[id])
      BY <3>1
    <3>3. due[h.heap[c]] \in Int /\ due[h.heap[k]] \in Int
      BY <1>3, <3>1
    <3> HIDE DEF c
    <3>4. due[id] <= due[h.heap[k]]
      BY <1>4, <3>1, <3>2, <3>3
    <3> QED
      BY <1>3, <1>4, <2>2, <3>4
  <2>3. CASE HEAP_PARENT(k) > s
    <3>1. HEAP_PARENT(k) \in s + 1 .. n - 1 /\ HEAP_PARENT(k) # slot
      BY <1>1, <1>3, <2>1, <2>3
    <3>2. due[h.heap[HEAP_PARENT(k)]] <= due[h.heap[k]]
      BY <1>3, <3>1 DEF HoleOrdered
    <3> QED
      BY <1>3, <3>1, <3>2
  <2> QED
    BY <1>1, <1>5, <2>1, <2>2, <2>3
<1>6. \A j \in s + 1 .. n - 1 : due[h.heap[j]] <= due[g.heap[j]]
  BY <1>3
<1>7. DownOrdered(g, h, id, s, n, due)
  BY <1>4, <1>5, <1>6 DEF DownOrdered
<1> QED
  BY <1>7 DEF g

LEMMA DownOrderedStep ==
  ASSUME NEW h, NEW slot, NEW id, NEW n, Hole(h, slot, id, n), NEW s \in slot .. n - 1,
         NEW due, HoleOrdered(h, slot, id, n, due), HEAP_LEFT(s) < n,
         NEW c, c = EarlierChild(h, due, n, s), due[h.heap[c]] < due[id],
         NEW q, DownTo(q, h, id, c, n), DownOrdered(q, h, id, c, n, due)
  PROVE  DownOrdered(copy_node(q, s, h.heap[c]), h, id, s, n, due)
<1> DEFINE y == h.heap[c]
           g == copy_node(q, s, y)
<1>1. n \in Nat /\ slot \in Nat /\ s \in Nat /\ slot < n /\ slot <= s /\ s < n
  BY DEF Hole
<1>2. c \in Nat /\ s < c /\ c < n /\ HEAP_PARENT(c) = s
  BY <1>1, Children
<1>3. \A j \in s + 1 .. n - 1 : /\ j \in 0 .. n - 1 /\ j \in Nat /\ j # slot /\ j > s /\ j < n
                                /\ j \in DOMAIN h.heap /\ j # s /\ due[h.heap[j]] \in Int
  <2>1. \A j \in s + 1 .. n - 1 : /\ j \in 0 .. n - 1 /\ j \in Nat /\ j # slot /\ j > s /\ j < n
                                  /\ j \in DOMAIN h.heap /\ j # s
    BY <1>1 DEF Hole
  <2> QED
    BY <2>1 DEF HoleOrdered
<1>4. /\ \A j \in s + 1 .. n - 1 : g.heap[j] = q.heap[j]
      /\ g.heap[s] = y
      /\ \A j \in s + 1 .. n - 1 : j < c => g.heap[j] = h.heap[j]
  <2>1. IsHeap(q) /\ DOMAIN q.heap = DOMAIN h.heap \cup {c}
    BY DEF DownTo, SameRest
  <2>2. DOMAIN g.heap = DOMAIN q.heap \cup {s}
        /\ \A j \in DOMAIN g.heap : g.heap[j] = IF j = s THEN y ELSE q.heap[j]
    <3> HIDE DEF g
    <3> QED
      BY <2>1, CopyNode DEF g
  <2>3. \A j \in s + 1 .. n - 1 : j < c => q.heap[j] = h.heap[j]
    BY <1>3 DEF DownTo
  <2> HIDE DEF g, y
  <2> QED
    BY <1>3, <2>1, <2>2, <2>3
<1> HIDE DEF g
<1>5. c \in s + 1 .. n - 1 /\ c \in c .. n - 1
      /\ \A j \in c + 1 .. n - 1 : j \in s + 1 .. n - 1 /\ j > c
  BY <1>1, <1>2
<1>6. due[id] \in Int
  BY DEF HoleOrdered
<1>7. due[y] <= due[q.heap[c]] /\ due[q.heap[c]] \in Int /\ due[y] \in Int
  <2>1. CASE q.heap[c] = id
    BY <2>1, <1>3, <1>5, <1>6
  <2>2. ASSUME NEW d \in c + 1 .. n - 1, HEAP_PARENT(d) = c, q.heap[c] = h.heap[d]
        PROVE  due[y] <= due[q.heap[c]] /\ due[q.heap[c]] \in Int /\ due[y] \in Int
    <3>1. d \in 0 .. n - 1 /\ d # slot /\ c # slot
      BY <1>1, <1>2, <1>3, <1>5
    <3>2. due[h.heap[c]] <= due[h.heap[d]]
      BY <2>2, <3>1 DEF HoleOrdered
    <3> QED
      BY <2>2, <1>3, <1>5, <3>2
  <2> QED
    BY <2>1, <2>2 DEF DownOrdered
<1>8. ASSUME NEW j \in s + 1 .. n - 1 PROVE due[h.heap[j]] <= due[g.heap[j]] /\ due[g.heap[j]] \in Int
  <2>1. CASE j > c
    <3>1. j \in c + 1 .. n - 1 /\ j \in c .. n - 1
      BY <1>1, <1>2, <2>1
    <3>2. due[h.heap[j]] <= due[q.heap[j]]
      BY <3>1 DEF DownOrdered
    <3>3. due[q.heap[j]] \in Int
      <4>1. q.heap[j] = id \/ \E i \in c + 1 .. n - 1 : q.heap[j] = h.heap[i]
        BY <3>1 DEF DownTo
      <4> QED
        BY <1>3, <1>5, <1>6, <4>1
    <3> QED
      BY <1>4, <3>2, <3>3
  <2>2. CASE j = c
    BY <1>4, <1>5, <1>7, <2>2
  <2>3. CASE j < c
    BY <1>3, <1>4, <2>3
  <2> QED
    BY <1>2, <1>3, <2>1, <2>2, <2>3
<1>9. ASSUME NEW k \in s + 1 .. n - 1, HEAP_PARENT(k) >= s
      PROVE  due[g.heap[HEAP_PARENT(k)]] <= due[g.heap[k]]
  <2> DEFINE p == HEAP_PARENT(k)
  <2>1. p \in Nat /\ p < k /\ k \in Nat /\ k < n /\ p >= s
    BY <1>1, <1>3, <1>9, Parents
  <2>2. CASE p = s
    <3>1. due[y] <= due[h.heap[k]]
      BY <1>1, <1>3, <2>2, EarlierChildFirst
    <3>2. due[h.heap[k]] <= due[g.heap[k]] /\ due[g.heap[k]] \in Int /\ due[h.heap[k]] \in Int
      BY <1>3, <1>8
    <3> HIDE DEF y, p
    <3>3. due[y] <= due[g.heap[k]]
      BY <1>7, <3>1, <3>2
    <3> QED
      BY <1>4, <2>2, <3>3 DEF p
  <2>3. CASE p > s /\ p < c
    <3>1. p \in s + 1 .. c - 1 /\ p \in s + 1 .. n - 1 /\ p \in 0 .. n - 1 /\ p # slot
      BY <1>1, <1>2, <2>1, <2>3
    <3>2. due[h.heap[p]] <= due[h.heap[k]]
      BY <1>3, <3>1 DEF HoleOrdered
    <3>3. due[h.heap[k]] <= due[g.heap[k]] /\ due[g.heap[k]] \in Int /\ due[h.heap[k]] \in Int
      BY <1>3, <1>8
    <3>4. g.heap[p] = h.heap[p] /\ due[h.heap[p]] \in Int
      BY <1>3, <1>4, <2>3, <3>1
    <3> HIDE DEF p
    <3>5. due[g.heap[p]] <= due[g.heap[k]]
      BY <3>2, <3>3, <3>4
    <3> QED
      BY <3>5 DEF p
  <2>4. CASE p >= c
    <3>1. k \in c + 1 .. n - 1 /\ p \in s + 1 .. n - 1
      BY <1>1, <1>2, <2>1, <2>4
    <3>2. due[q.heap[p]] <= due[q.heap[k]]
      BY <2>4, <3>1 DEF DownOrdered
    <3> HIDE DEF p
    <3>3. due[g.heap[p]] <= due[g.heap[k]]
      BY <1>4, <3>1, <3>2
    <3> QED
      BY <3>3 DEF p
  <2> QED
    BY <1>1, <1>2, <2>1, <2>2, <2>3, <2>4
<1>10. DownOrdered(g, h, id, s, n, due)
  <2>1. \A j \in s + 1 .. n - 1 : due[h.heap[j]] <= due[g.heap[j]]
    BY <1>8
  <2>2. \E d \in s + 1 .. n - 1 :
           HEAP_PARENT(d) = s /\ g.heap[s] = h.heap[d] /\ due[h.heap[d]] < due[id]
    BY <1>2, <1>4, <1>5
  <2> QED
    BY <1>9, <2>1, <2>2 DEF DownOrdered
<1> QED
  BY <1>10 DEF g, y

LEMMA DownToSlot ==
  ASSUME NEW h, NEW slot, NEW id, NEW n, Hole(h, slot, id, n), n = CurSize(h),
         NEW due, HoleOrdered(h, slot, id, n, due),
         NEW g, g = reheap_down(h, id, slot, due)
  PROVE  DownTo(g, h, id, slot, n) /\ DownOrdered(g, h, id, slot, n, due)
<1>1. slot \in Nat /\ n \in Nat /\ slot < n /\ slot \in 0 .. n /\ slot \in slot .. n - 1
  BY DEF Hole
<1>2. PICK down : /\ g = down[slot]
                  /\ \A s \in 0 .. n : down[s] = DownTurn(h, id, due, n, down, s)
  BY <1>1, DownLoop
<1> DEFINE Good(s) == DownTo(down[s], h, id, s, n) /\ DownOrdered(down[s], h, id, s, n, due)
           Bad == {s \in slot .. n - 1 : ~Good(s)}
<1>3. SUFFICES ASSUME Bad # {} PROVE FALSE
  <2> HIDE DEF Good
  <2>1. Bad = {} => Good(slot)
    BY <1>1
  <2> QED
    BY <1>2, <2>1 DEF Good
<1> HIDE DEF Good
<1>4. PICK s \in Bad : \A j \in Bad : j <= s
  <2>1. Bad \subseteq 0 .. n
    BY <1>1
  <2> HIDE DEF Bad
  <2> QED
    BY <1>1, <1>3, <2>1, GreatestExists
<1>5. s \in slot .. n - 1 /\ s \in Nat /\ s < n /\ ~Good(s) /\ down[s] = DownTurn(h, id, due, n, down, s)
  BY <1>1, <1>2
<1>6. CASE HEAP_LEFT(s) < n /\ due[h.heap[EarlierChild(h, due, n, s)]] < due[id]
  <2> DEFINE c == EarlierChild(h, due, n, s)
  <2>1. c \in Nat /\ s < c /\ c < n
    BY <1>1, <1>5, <1>6, Children
  <2>2. c = EarlierChild(h, due, n, s) /\ due[h.heap[c]] < due[id]
        /\ down[s] = copy_node(down[c], s, h.heap[c])
    BY <1>5, <1>6 DEF DownTurn
  <2> HIDE DEF c
  <2>3. c \in slot .. n - 1 /\ c \in s + 1 .. n - 1 /\ c \notin Bad
    BY <1>1, <1>4, <1>5, <2>1
  <2>4. Good(c)
    BY <2>3
  <2>5. DownTo(down[s], h, id, s, n)
    BY <1>5, <2>2, <2>3, <2>4, DownStep DEF Good
  <2>6. DownOrdered(down[s], h, id, s, n, due)
    BY <1>5, <1>6, <2>2, <2>4, DownOrderedStep DEF Good
  <2> QED
    BY <1>5, <2>5, <2>6 DEF Good
<1>7. CASE ~(HEAP_LEFT(s) < n /\ due[h.heap[EarlierChild(h, due, n, s)]] < due[id])
  <2>1. down[s] = copy_node(h, s, id)
    BY <1>5, <1>7 DEF DownTurn
  <2>2. DownTo(down[s], h, id, s, n)
    BY <1>5, <2>1, DownBase
  <2>3. DownOrdered(down[s], h, id, s, n, due)
    BY <1>5, <1>7, <2>1, DownOrderedBase
  <2> QED
    BY <1>5, <2>2, <2>3 DEF Good
<1> QED
  BY <1>6, <1>7

LEMMA ReheapDown ==
  ASSUME NEW h, NEW slot, NEW id, NEW n, Hole(h, slot, id, n), n = CurSize(h),
         NEW due, HoleOrdered(h, slot, id, n, due),
         slot > 0 => due[h.heap[HEAP_PARENT(slot)]] <= due[id],
         NEW g, g = reheap_down(h, id, slot, due)
  PROVE  Reheaped(g, h, slot, id, n) /\ InOrder(g, n, due)
<1>1. DownTo(g, h, id, slot, n) /\ DownOrdered(g, h, id, slot, n, due)
  BY DownToSlot
<1>2. n \in Nat /\ slot \in Nat /\ slot < n /\ slot \in slot .. n - 1
  BY DEF Hole
<1>3. \A j \in 0 .. n - 1 : /\ j \in Nat /\ j < n /\ (j \in slot + 1 .. n - 1 \/ j = slot \/ j < slot)
                            /\ (j \in slot .. n - 1 <=> j >= slot)
                            /\ j # slot => /\ j \in DOMAIN h.heap /\ h.heap[j] \in DOMAIN h.timer_ids
                                           /\ h.heap[j] # id /\ h.timer_ids[h.heap[j]] = j
  BY <1>2 DEF Hole
<1>4. \A j \in slot .. n - 1 : j \in 0 .. n - 1
  BY <1>2
<1>5. \A j \in slot + 1 .. n - 1 : j \in 0 .. n - 1 /\ j # slot /\ j \in slot .. n - 1
  BY <1>2
<1>6. SameRest(g, h) /\ DOMAIN g.heap = 0 .. n - 1
  BY <1>1 DEF DownTo, Hole
<1>7. \A j \in 0 .. n - 1 : j < slot => g.heap[j] = h.heap[j]
  BY <1>1, <1>2, <1>3 DEF DownTo
<1>8. \A x \in DOMAIN h.timer_ids :
        (x # id /\ \A i \in slot + 1 .. n - 1 : x # h.heap[i]) => g.timer_ids[x] = h.timer_ids[x]
  BY <1>1 DEF DownTo
<1>9. ASSUME NEW j \in 0 .. n - 1
      PROVE  g.heap[j] \in DOMAIN h.timer_ids /\ g.timer_ids[g.heap[j]] = j
  <2>1. CASE j \in slot .. n - 1
    BY <1>1, <2>1 DEF DownTo
  <2>2. CASE j < slot
    <3>1. \A i \in slot + 1 .. n - 1 : h.heap[j] # h.heap[i]
      BY <1>2, <1>3, <1>5, <2>2
    <3> QED
      BY <1>2, <1>3, <1>7, <1>8, <2>2, <3>1
  <2> QED
    BY <1>2, <1>3, <2>1, <2>2
<1>10. Range(g.heap) = Nodes(h, slot, n) \cup {id}
  <2>1. ASSUME NEW j \in 0 .. n - 1 PROVE g.heap[j] \in Nodes(h, slot, n) \cup {id}
    <3>1. CASE j \in slot .. n - 1
      <4>1. g.heap[j] = id \/ \E i \in slot + 1 .. n - 1 : g.heap[j] = h.heap[i]
        BY <1>1, <3>1 DEF DownTo
      <4> QED
        BY <1>5, <4>1 DEF Nodes
    <3>2. CASE j < slot
      BY <1>2, <1>7, <3>2 DEF Nodes
    <3> QED
      BY <1>2, <1>3, <3>1, <3>2
  <2>2. id \in Range(g.heap)
    <3>1. \E j \in slot .. n - 1 : g.heap[j] = id
      BY <1>1 DEF DownTo
    <3> QED
      BY <1>4, <1>6, <3>1 DEF Range
  <2>3. ASSUME NEW i \in 0 .. n - 1, i # slot PROVE h.heap[i] \in Range(g.heap)
    <3>1. CASE i \in slot + 1 .. n - 1
      <4>1. \E j \in slot .. n - 1 : g.heap[j] = h.heap[i]
        BY <1>1, <3>1 DEF DownTo
      <4> QED
        BY <1>4, <1>6, <4>1 DEF Range
    <3>2. CASE i < slot
      BY <1>6, <1>7, <3>2 DEF Range
    <3> QED
      BY <1>3, <2>3, <3>1, <3>2
  <2>4. Nodes(h, slot, n) \subseteq Range(g.heap)
    BY <2>3 DEF Nodes
  <2>5. Range(g.heap) \subseteq Nodes(h, slot, n) \cup {id}
    BY <1>6, <2>1 DEF Range
  <2> QED
    BY <2>2, <2>4, <2>5
<1>11. \A x \in DOMAIN h.timer_ids :
         x \notin Nodes(h, slot, n) \cup {id} => g.timer_ids[x] = h.timer_ids[x]
  <2>1. \A i \in slot + 1 .. n - 1 : h.heap[i] \in Nodes(h, slot, n)
    BY <1>5 DEF Nodes
  <2> QED
    BY <1>8, <2>1
<1>12. ASSUME NEW k \in 0 .. n - 1 PROVE due[g.heap[HEAP_PARENT(k)]] <= due[g.heap[k]]
  <2> DEFINE p == HEAP_PARENT(k)
  <2>0. k \in Nat /\ p \in Nat /\ (k > 0 => p < k) /\ (k = 0 => p = k)
    BY <1>3, Parents
  <2>1. p \in 0 .. n - 1
    BY <1>2, <2>0
  <2>2. \A j \in 0 .. n - 1 : j # slot => due[h.heap[j]] \in Int
    BY DEF HoleOrdered
  <2>3. due[id] \in Int
    BY DEF HoleOrdered
  <2>4. CASE k < slot
    <3>1. p < slot /\ p # slot /\ k # slot
      BY <1>2, <2>0, <2>4
    <3>2. due[h.heap[p]] <= due[h.heap[k]]
      BY <3>1 DEF HoleOrdered
    <3> HIDE DEF p
    <3>3. due[g.heap[p]] <= due[g.heap[k]]
      BY <1>7, <2>1, <2>4, <3>1, <3>2
    <3> QED
      BY <3>3 DEF p
  <2>5. CASE k = slot /\ slot = 0
    <3>1. p = k /\ due[g.heap[k]] \in Int
      <4>1. g.heap[slot] = id \/ \E i \in slot + 1 .. n - 1 : g.heap[slot] = h.heap[i]
        BY <1>1, <1>2 DEF DownTo
      <4> QED
        BY <1>5, <2>0, <2>2, <2>3, <2>5, <4>1
    <3> QED
      BY <3>1
  <2>6. CASE k = slot /\ slot > 0
    <3>1. p < slot /\ p # slot /\ g.heap[p] = h.heap[p]
      BY <1>2, <1>7, <2>0, <2>1, <2>6
    <3>2. CASE g.heap[slot] = id
      BY <2>6, <3>1, <3>2
    <3>3. ASSUME NEW c \in slot + 1 .. n - 1, HEAP_PARENT(c) = slot, g.heap[slot] = h.heap[c]
          PROVE  due[g.heap[p]] <= due[g.heap[k]]
      <4>1. due[h.heap[p]] <= due[h.heap[c]]
        BY <1>5, <2>6, <3>3 DEF HoleOrdered
      <4> QED
        BY <2>6, <3>1, <3>3, <4>1
    <3> QED
      BY <1>1, <3>2, <3>3 DEF DownOrdered
  <2>7. CASE k > slot
    <3>1. k \in slot + 1 .. n - 1 /\ k # slot
      BY <1>2, <1>3, <2>7
    <3>2. CASE p >= slot
      BY <1>1, <3>1, <3>2 DEF DownOrdered
    <3>3. CASE p < slot
      <4>1. p # slot /\ g.heap[p] = h.heap[p]
        BY <1>2, <1>7, <2>1, <3>3
      <4>2. due[h.heap[p]] <= due[h.heap[k]]
        BY <3>1, <4>1 DEF HoleOrdered
      <4>3. due[h.heap[k]] <= due[g.heap[k]]
        BY <1>1, <3>1 DEF DownOrdered
      <4>4. due[g.heap[k]] \in Int
        <5>1. g.heap[k] = id \/ \E i \in slot + 1 .. n - 1 : g.heap[k] = h.heap[i]
          BY <1>1, <1>5, <3>1 DEF DownTo
        <5> QED
          BY <1>5, <2>2, <2>3, <5>1
      <4>5. due[h.heap[p]] \in Int /\ due[h.heap[k]] \in Int
        BY <2>1, <2>2, <3>1, <4>1
      <4> HIDE DEF p
      <4>6. due[g.heap[p]] <= due[g.heap[k]]
        BY <4>1, <4>2, <4>3, <4>4, <4>5
      <4> QED
        BY <4>6 DEF p
    <3> QED
      BY <1>2, <2>0, <3>2, <3>3
  <2> QED
    BY <1>2, <1>3, <2>4, <2>5, <2>6, <2>7
<1> QED
  BY <1>6, <1>9, <1>10, <1>11, <1>12 DEF Reheaped, InOrder

-----------------------------------------------------------------------------
(* Insertion and removal *)

\* The table leads to each of the n nodes.
Placed(h, n) ==
  /\ IsHeap(h) /\ n \in Nat /\ DOMAIN h.heap = 0 .. n - 1
  /\ h.max_size \in Nat /\ DOMAIN h.timer_ids = 0 .. h.max_size - 1
  /\ \A j \in 0 .. n - 1 : h.heap[j] \in 1 .. h.max_size - 1 /\ h.timer_ids[h.heap[j]] = j

Timed(ids, due) == \A x \in ids : due[x] \in Int

\* The table says of these ids in g what it says of them in h.
Kept(g, h, ids) == \A x \in ids : g.timer_ids[x] = h.timer_ids[x]

LEMMA SizeOf ==
  ASSUME NEW h, NEW n \in Nat, DOMAIN h.heap = 0 .. n - 1
  PROVE  CurSize(h) = n
<1>1. Cardinality(0 .. n - 1) = n
  BY FS_Interval
<1> QED
  BY <1>1 DEF CurSize

Inserted(g, h, n, id, due) ==
  /\ SameRest(g, h) /\ Placed(g, n + 1) /\ InOrder(g, n + 1, due)
  /\ Range(g.heap) = Range(h.heap) \cup {id}
  /\ Kept(g, h, (0 .. h.max_size - 1) \ Range(g.heap))

LEMMA InsertNode ==
  ASSUME NEW h, NEW n, Placed(h, n),
         NEW id \in 1 .. h.max_size - 1, id \notin Range(h.heap),
         NEW due, Timed(Range(h.heap) \cup {id}, due),
         InOrder(h, n, due),
         NEW g, g = insert_node(h, id, due)
  PROVE  Inserted(g, h, n, id, due)
<1>1. n \in Nat /\ DOMAIN h.heap = 0 .. n - 1 /\ IsHeap(h) /\ h.max_size \in Nat
      /\ DOMAIN h.timer_ids = 0 .. h.max_size - 1
  BY DEF Placed
<1>2. g = reheap_up(h, id, n, due)
  BY <1>1, SizeOf DEF insert_node
<1>3. \A j \in 0 .. (n + 1) - 1 : j # n => j \in 0 .. n - 1
  BY <1>1
<1>4. \A j \in 0 .. n - 1 : h.heap[j] \in Range(h.heap)
  BY <1>1 DEF Range
<1>5. Hole(h, n, id, n + 1)
  <2>1. \A j \in 0 .. n - 1 : /\ h.heap[j] \in DOMAIN h.timer_ids /\ h.heap[j] # id
                              /\ h.timer_ids[h.heap[j]] = j
    BY <1>1, <1>4 DEF Placed
  <2>2. DOMAIN h.heap \cup {n} = 0 .. (n + 1) - 1 /\ n \in 0 .. (n + 1) - 1 /\ n + 1 \in Nat
    BY <1>1
  <2>3. id \in DOMAIN h.timer_ids
    BY <1>1
  <2> QED
    BY <1>1, <1>3, <2>1, <2>2, <2>3 DEF Hole
<1>6. \A k \in 0 .. (n + 1) - 1 : k # n => HEAP_PARENT(k) # n
  <2>1. \A k \in 0 .. n - 1 : HEAP_PARENT(k) # n
    <3> SUFFICES ASSUME NEW k \in 0 .. n - 1 PROVE HEAP_PARENT(k) # n
      OBVIOUS
    <3>1. k \in Nat /\ k < n
      BY <1>1
    <3>2. HEAP_PARENT(k) \in Nat /\ HEAP_PARENT(k) <= k
      BY <3>1, Parents
    <3> QED
      BY <1>1, <3>1, <3>2
  <2> QED
    BY <1>3, <2>1
<1>7. HoleOrdered(h, n, id, n + 1, due)
  BY <1>3, <1>4, <1>6 DEF HoleOrdered, InOrder, Timed
<1>8. Reheaped(g, h, n, id, n + 1) /\ InOrder(g, n + 1, due)
  BY <1>2, <1>5, <1>6, <1>7, ReheapUp
<1>9. Range(g.heap) = Range(h.heap) \cup {id} /\ Nodes(h, n, n + 1) = Range(h.heap)
  <2>1. (0 .. (n + 1) - 1) \ {n} = 0 .. n - 1
    BY <1>1
  <2>2. Nodes(h, n, n + 1) = Range(h.heap)
    BY <1>1, <2>1 DEF Nodes, Range
  <2> QED
    BY <1>8, <2>2 DEF Reheaped
<1>10. SameRest(g, h)
  BY <1>8 DEF Reheaped
<1>11. Placed(g, n + 1)
  <2>1. \A j \in 0 .. (n + 1) - 1 : g.heap[j] \in Range(g.heap) /\ g.timer_ids[g.heap[j]] = j
    BY <1>8 DEF Reheaped, Range
  <2>2. \A x \in Range(g.heap) : x \in 1 .. h.max_size - 1
    <3>1. \A x \in Range(h.heap) : x \in 1 .. h.max_size - 1
      BY <1>1 DEF Range, Placed
    <3> QED
      BY <1>9, <3>1
  <2>3. n + 1 \in Nat /\ DOMAIN g.heap = 0 .. (n + 1) - 1
    BY <1>1, <1>8 DEF Reheaped
  <2> QED
    BY <1>1, <1>10, <2>1, <2>2, <2>3 DEF Placed, SameRest
<1>12. Kept(g, h, (0 .. h.max_size - 1) \ Range(g.heap))
  BY <1>1, <1>8, <1>9 DEF Reheaped, Kept
<1> QED
  BY <1>8, <1>9, <1>10, <1>11, <1>12 DEF Inserted

Removed(g, h, n, id, due) ==
  /\ Placed(g, n - 1) /\ InOrder(g, n - 1, due) /\ g.max_size = h.max_size
  /\ Range(g.heap) = Range(h.heap) \ {id}
  /\ g.freelist = id /\ g.timer_ids[id] = -h.freelist
  /\ Kept(g, h, (0 .. h.max_size - 1) \ Range(h.heap))

LEMMA RemoveNode ==
  ASSUME NEW h, NEW n, Placed(h, n), NEW slot \in 0 .. n - 1,
         NEW id, id = h.heap[slot],
         NEW due, Timed(Range(h.heap), due),
         InOrder(h, n, due),
         NEW g, g = remove_node(h, slot, due)
  PROVE  Removed(g, h, n, id, due)
<1> DEFINE last == n - 1
           moved == h.heap[last]
           pushed == push_freelist(h, id)
           shorter == [pushed EXCEPT !.heap = Restrict(@, 0 .. last - 1)]
           filled == copy_node(shorter, slot, moved)
<1>1. n \in Nat /\ DOMAIN h.heap = 0 .. n - 1 /\ IsHeap(h) /\ h.max_size \in Nat
      /\ DOMAIN h.timer_ids = 0 .. h.max_size - 1 /\ CurSize(h) = n
  BY SizeOf DEF Placed
<1>2. last \in Nat /\ slot \in Nat /\ slot <= last /\ last \in 0 .. n - 1
      /\ (\A j \in 0 .. last - 1 : j \in 0 .. n - 1 /\ j # last)
      /\ (\A j \in 0 .. n - 1 : j = last \/ j \in 0 .. last - 1)
  BY <1>1
<1>3. \A j \in 0 .. n - 1 : /\ h.heap[j] \in Range(h.heap) /\ h.heap[j] \in 1 .. h.max_size - 1
                            /\ h.heap[j] \in DOMAIN h.timer_ids
                            /\ h.timer_ids[h.heap[j]] = j /\ due[h.heap[j]] \in Int
  <2>1. \A j \in 0 .. n - 1 : h.heap[j] \in 1 .. h.max_size - 1 /\ h.timer_ids[h.heap[j]] = j
    BY DEF Placed
  <2>2. \A j \in 0 .. n - 1 : h.heap[j] \in Range(h.heap)
    BY <1>1 DEF Range
  <2>4. \A x \in Range(h.heap) : due[x] \in Int
    BY DEF Timed
  <2>3. 1 .. h.max_size - 1 \subseteq DOMAIN h.timer_ids
    BY <1>1
  <2> QED
    BY <2>1, <2>2, <2>3, <2>4
<1>4. \A i, j \in 0 .. n - 1 : h.heap[i] = h.heap[j] => i = j
  BY <1>3
<1>5. /\ IsHeap(shorter) /\ shorter.max_size = h.max_size /\ shorter.freelist = id
      /\ DOMAIN shorter.heap = 0 .. last - 1
      /\ \A j \in 0 .. last - 1 : shorter.heap[j] = h.heap[j]
      /\ DOMAIN shorter.timer_ids = DOMAIN h.timer_ids
      /\ \A x \in DOMAIN h.timer_ids :
           shorter.timer_ids[x] = IF x = id THEN -h.freelist ELSE h.timer_ids[x]
  <2>1. IsHeap(pushed) /\ pushed.max_size = h.max_size /\ pushed.heap = h.heap
        /\ pushed.freelist = id /\ pushed.timer_ids = [h.timer_ids EXCEPT ![id] = -h.freelist]
    <3>1. IsHeap(h)
      BY <1>1
    <3>2. IsHeap(pushed)
      BY <3>1, PushFreelist
    <3> QED
      BY <3>1, <3>2 DEF push_freelist, IsHeap
  <2> HIDE DEF pushed, last
  <2>2. IsHeap(shorter) /\ shorter.heap = Restrict(pushed.heap, 0 .. last - 1)
        /\ shorter.max_size = pushed.max_size
        /\ shorter.freelist = pushed.freelist /\ shorter.timer_ids = pushed.timer_ids
    BY <2>1, Shorter
  <2> HIDE DEF shorter
  <2>3. DOMAIN shorter.heap = 0 .. last - 1
        /\ \A j \in 0 .. last - 1 : shorter.heap[j] = h.heap[j]
    BY <2>1, <2>2 DEF Restrict
  <2>4. DOMAIN shorter.timer_ids = DOMAIN h.timer_ids
        /\ \A x \in DOMAIN h.timer_ids :
             shorter.timer_ids[x] = IF x = id THEN -h.freelist ELSE h.timer_ids[x]
    BY <2>1, <2>2
  <2> QED
    BY <2>1, <2>2, <2>3, <2>4
<1>6. id \in DOMAIN h.timer_ids /\ id \in Range(h.heap)
  <2>1. slot \in 0 .. n - 1
    BY <1>2
  <2> QED
    BY <1>3, <2>1
<1>7. CASE slot = last
  <2>1. g = shorter
    <3>1. CurSize(h) - 1 = last
      BY <1>1
    <3> HIDE DEF last
    <3> QED
      BY <1>7, <3>1 DEF remove_node
  <2> HIDE DEF shorter
  <2>2. \A j \in 0 .. last - 1 : h.heap[j] # id
    BY <1>2, <1>4, <1>7
  <2>3. Placed(g, last)
    <3>1. IsHeap(g) /\ last \in Nat /\ DOMAIN g.heap = 0 .. last - 1 /\ g.max_size \in Nat
          /\ DOMAIN g.timer_ids = 0 .. g.max_size - 1
      BY <1>1, <1>2, <1>5, <2>1
    <3>2. ASSUME NEW j \in 0 .. last - 1
          PROVE  g.heap[j] \in 1 .. g.max_size - 1 /\ g.timer_ids[g.heap[j]] = j
      <4>1. g.heap[j] = h.heap[j] /\ g.max_size = h.max_size /\ h.heap[j] # id
        BY <1>5, <2>1, <2>2
      <4> HIDE DEF last
      <4> QED
        BY <1>2, <1>3, <1>5, <2>1, <4>1
    <3> QED
      BY <3>1, <3>2 DEF Placed
  <2>4. InOrder(g, last, due)
    <3> SUFFICES ASSUME NEW k \in 0 .. last - 1
                 PROVE  due[g.heap[HEAP_PARENT(k)]] <= due[g.heap[k]]
      BY DEF InOrder
    <3>1. k \in Nat /\ k < last
      BY <1>2
    <3>2. HEAP_PARENT(k) \in Nat /\ HEAP_PARENT(k) <= k
      BY <3>1, Parents
    <3>3. HEAP_PARENT(k) \in 0 .. last - 1
      BY <1>2, <3>1, <3>2
    <3>4. g.heap[k] = h.heap[k] /\ g.heap[HEAP_PARENT(k)] = h.heap[HEAP_PARENT(k)]
      BY <1>5, <2>1, <3>3
    <3>5. k \in 0 .. n - 1
      BY <1>2
    <3>6. due[h.heap[HEAP_PARENT(k)]] <= due[h.heap[k]]
      BY <3>5 DEF InOrder
    <3> QED
      BY <3>4, <3>6
  <2>5. Range(g.heap) = Range(h.heap) \ {id}
    <3>1. \A x \in Range(h.heap) : x # id => x \in Range(g.heap)
      BY <1>1, <1>2, <1>5, <1>7, <2>1 DEF Range
    <3>2. \A j \in 0 .. last - 1 : g.heap[j] \in Range(h.heap) /\ g.heap[j] # id
      BY <1>2, <1>3, <1>5, <2>1, <2>2
    <3>3. DOMAIN g.heap = 0 .. last - 1
      BY <1>5, <2>1
    <3>4. \A x \in Range(g.heap) : x \in Range(h.heap) /\ x # id
      BY <3>2, <3>3 DEF Range
    <3> QED
      BY <3>1, <3>4
  <2>6. Kept(g, h, (0 .. h.max_size - 1) \ Range(h.heap))
    BY <1>1, <1>5, <1>6, <2>1 DEF Kept
  <2> QED
    BY <1>5, <1>6, <2>1, <2>3, <2>4, <2>5, <2>6 DEF Removed
<1>8. CASE slot # last
  <2>1. slot < last /\ slot \in 0 .. last - 1 /\ moved # id
    BY <1>2, <1>4, <1>8
  <2>2. /\ SameRest(filled, shorter)
        /\ DOMAIN filled.heap = 0 .. last - 1
        /\ \A j \in 0 .. last - 1 : filled.heap[j] = IF j = slot THEN moved ELSE h.heap[j]
        /\ \A x \in DOMAIN h.timer_ids :
             filled.timer_ids[x] = IF x = moved THEN slot
                                   ELSE IF x = id THEN -h.freelist ELSE h.timer_ids[x]
    <3> HIDE DEF shorter, filled
    <3>1. /\ SameRest(filled, shorter)
          /\ DOMAIN filled.heap = DOMAIN shorter.heap \cup {slot}
          /\ \A j \in DOMAIN filled.heap : filled.heap[j] = IF j = slot THEN moved ELSE shorter.heap[j]
          /\ \A x \in DOMAIN filled.timer_ids :
               filled.timer_ids[x] = IF x = moved THEN slot ELSE shorter.timer_ids[x]
      <4> HIDE DEF last, moved
      <4>1. filled = copy_node(shorter, slot, moved) /\ IsHeap(shorter)
        BY <1>5 DEF filled
      <4> QED
        BY <4>1, CopyNode
    <3> HIDE DEF last, moved
    <3>2. DOMAIN filled.heap = 0 .. last - 1
      BY <1>5, <2>1, <3>1
    <3> QED
      BY <1>5, <3>1, <3>2 DEF SameRest
  <2>3. CurSize(filled) = last
    BY <1>2, <2>2, SizeOf
  <2>4. g = IF due[moved] >= due[filled.heap[HEAP_PARENT(slot)]]
            THEN reheap_down(filled, moved, slot, due)
            ELSE reheap_up(filled, moved, slot, due)
    BY <1>1, <2>1 DEF remove_node
  <2> HIDE DEF shorter, filled
  <2>5. \A j \in 0 .. last - 1 : j # slot =>
          /\ filled.heap[j] = h.heap[j] /\ h.heap[j] # id /\ h.heap[j] # moved
          /\ filled.timer_ids[h.heap[j]] = j
    <3> SUFFICES ASSUME NEW j \in 0 .. last - 1, j # slot
                 PROVE  /\ filled.heap[j] = h.heap[j] /\ h.heap[j] # id /\ h.heap[j] # moved
                        /\ filled.timer_ids[h.heap[j]] = j
      OBVIOUS
    <3>1. j \in 0 .. n - 1 /\ j # last
      BY <1>2
    <3>2. h.heap[j] # id /\ h.heap[j] # moved
      BY <1>2, <1>4, <3>1
    <3> HIDE DEF last, moved
    <3> QED
      BY <1>3, <2>2, <3>1, <3>2
  <2>6. Hole(filled, slot, moved, last)
    <3>1. IsHeap(filled) /\ DOMAIN filled.timer_ids = DOMAIN h.timer_ids
      BY <1>5, <2>2 DEF SameRest
    <3>2. moved \in DOMAIN h.timer_ids
      BY <1>2, <1>3
    <3>3. DOMAIN filled.heap \cup {slot} = 0 .. last - 1
      BY <2>1, <2>2
    <3> QED
      BY <1>2, <1>3, <2>1, <2>5, <3>1, <3>2, <3>3 DEF Hole
  <2>7. \A k \in 0 .. last - 1 : HEAP_PARENT(k) \in 0 .. last - 1
    <3> SUFFICES ASSUME NEW k \in 0 .. last - 1 PROVE HEAP_PARENT(k) \in 0 .. last - 1
      OBVIOUS
    <3>1. k \in Nat /\ k < last
      BY <1>2
    <3>2. HEAP_PARENT(k) \in Nat /\ HEAP_PARENT(k) <= k
      BY <3>1, Parents
    <3> QED
      BY <1>2, <3>1, <3>2
  <2>8. slot > 0 => HEAP_PARENT(slot) # slot /\ HEAP_PARENT(slot) \in 0 .. last - 1
    <3>1. slot > 0 => HEAP_PARENT(slot) \in Nat /\ HEAP_PARENT(slot) < slot
      BY <1>2, Parents
    <3> QED
      BY <1>2, <2>1, <2>7, <3>1
  <2>9. due[moved] \in Int /\ \A j \in 0 .. n - 1 : due[h.heap[j]] \in Int
    BY <1>2, <1>3
  <2>10. \A k \in 0 .. last - 1 : due[h.heap[HEAP_PARENT(k)]] <= due[h.heap[k]]
    BY <1>2 DEF InOrder
  <2>11. HoleOrdered(filled, slot, moved, last, due)
    <3>1. ASSUME NEW j \in 0 .. last - 1, j # slot PROVE due[filled.heap[j]] \in Int
      BY <1>2, <2>5, <2>9, <3>1
    <3>2. ASSUME NEW k \in 0 .. last - 1, k # slot, HEAP_PARENT(k) # slot
          PROVE  due[filled.heap[HEAP_PARENT(k)]] <= due[filled.heap[k]]
      BY <2>5, <2>7, <2>10, <3>2
    <3>3. ASSUME NEW k \in 0 .. last - 1, k # slot, HEAP_PARENT(k) = slot, slot > 0
          PROVE  due[filled.heap[HEAP_PARENT(slot)]] <= due[filled.heap[k]]
      <4>1. due[h.heap[slot]] <= due[h.heap[k]] /\ due[h.heap[HEAP_PARENT(slot)]] <= due[h.heap[slot]]
        BY <2>1, <2>10, <3>3
      <4>2. due[h.heap[slot]] \in Int /\ due[h.heap[k]] \in Int
            /\ due[h.heap[HEAP_PARENT(slot)]] \in Int
        BY <1>2, <2>8, <2>9, <3>3
      <4>3. due[h.heap[HEAP_PARENT(slot)]] <= due[h.heap[k]]
        BY <4>1, <4>2
      <4> QED
        BY <2>5, <2>8, <3>3, <4>3
    <3> QED
      BY <2>9, <3>1, <3>2, <3>3 DEF HoleOrdered
  <2>12. Reheaped(g, filled, slot, moved, last) /\ InOrder(g, last, due)
    <3>1. CASE due[moved] >= due[filled.heap[HEAP_PARENT(slot)]]
      <4>1. slot > 0 => due[filled.heap[HEAP_PARENT(slot)]] <= due[moved]
        <5>1. slot > 0 => due[filled.heap[HEAP_PARENT(slot)]] \in Int
          BY <2>8, <2>11 DEF HoleOrdered
        <5> QED
          BY <2>9, <3>1, <5>1
      <4>2. g = reheap_down(filled, moved, slot, due)
        BY <2>4, <3>1
      <4> HIDE DEF last, moved
      <4> QED
        BY <2>3, <2>6, <2>11, <4>1, <4>2, ReheapDown
    <3>2. CASE ~(due[moved] >= due[filled.heap[HEAP_PARENT(slot)]])
      <4>1. g = reheap_up(filled, moved, slot, due)
        BY <2>4, <3>2
      <4>2. slot > 0
        <5>1. CASE slot = 0
          <6>1. HEAP_PARENT(slot) = slot /\ filled.heap[slot] = moved
            BY <2>1, <2>2, <5>1, Parents
          <6> QED
            BY <2>9, <3>2, <6>1
        <5> QED
          BY <1>2, <5>1
      <4>3. ASSUME NEW k \in 0 .. last - 1, k # slot, HEAP_PARENT(k) = slot
            PROVE  due[moved] <= due[filled.heap[k]]
        <5>1. due[filled.heap[HEAP_PARENT(slot)]] <= due[filled.heap[k]]
          BY <2>11, <4>2, <4>3 DEF HoleOrdered
        <5>2. due[filled.heap[HEAP_PARENT(slot)]] \in Int /\ due[filled.heap[k]] \in Int
          BY <2>8, <2>11, <4>2, <4>3 DEF HoleOrdered
        <5> QED
          BY <2>9, <3>2, <5>1, <5>2
      <4> HIDE DEF last, moved
      <4> QED
        BY <2>6, <2>11, <4>1, <4>3, ReheapUp
    <3> QED
      BY <3>1, <3>2
  <2>13. Nodes(filled, slot, last) \cup {moved} = Range(h.heap) \ {id}
    <3>1. ASSUME NEW j \in 0 .. last - 1, j # slot
          PROVE  filled.heap[j] \in Range(h.heap) \ {id}
      BY <1>2, <1>3, <2>5, <3>1
    <3>2. moved \in Range(h.heap) \ {id}
      BY <1>2, <1>3, <2>1
    <3>3. ASSUME NEW j \in 0 .. n - 1, h.heap[j] # id
          PROVE  h.heap[j] \in Nodes(filled, slot, last) \cup {moved}
      <4>1. CASE j = last
        BY <4>1
      <4>2. CASE j \in 0 .. last - 1 /\ j # slot
        BY <2>5, <4>2 DEF Nodes
      <4> QED
        BY <1>2, <3>3, <4>1, <4>2
    <3> HIDE DEF last, moved
    <3>4. Nodes(filled, slot, last) \subseteq Range(h.heap) \ {id}
      BY <3>1 DEF Nodes
    <3>5. \A x \in Range(h.heap) : x # id => x \in Nodes(filled, slot, last) \cup {moved}
      BY <1>1, <3>3 DEF Range
    <3> QED
      BY <3>2, <3>4, <3>5
  <2>14. SameRest(g, filled) /\ IsHeap(g) /\ g.max_size = h.max_size /\ g.freelist = id
         /\ DOMAIN g.timer_ids = DOMAIN h.timer_ids /\ DOMAIN filled.timer_ids = DOMAIN h.timer_ids
    BY <1>5, <2>2, <2>12 DEF Reheaped, SameRest
  <2>15. Range(g.heap) = Range(h.heap) \ {id}
    BY <2>12, <2>13 DEF Reheaped
  <2>16. Placed(g, last)
    <3>1. \A x \in Range(h.heap) : x \in 1 .. h.max_size - 1
      BY <1>1, <1>3 DEF Range
    <3>2. \A j \in 0 .. last - 1 : g.heap[j] \in Range(g.heap) /\ g.timer_ids[g.heap[j]] = j
      BY <2>12 DEF Reheaped, Range
    <3>3. \A j \in 0 .. last - 1 : g.heap[j] \in 1 .. h.max_size - 1
      BY <2>15, <3>1, <3>2
    <3>4. DOMAIN g.heap = 0 .. last - 1
      BY <2>12 DEF Reheaped
    <3> QED
      BY <1>1, <1>2, <2>14, <3>2, <3>3, <3>4 DEF Placed
  <2>17. \A x \in DOMAIN h.timer_ids :
           x \notin Range(g.heap) => g.timer_ids[x] = filled.timer_ids[x]
    BY <2>12, <2>14 DEF Reheaped
  <2>18. g.timer_ids[id] = -h.freelist
    BY <1>6, <2>1, <2>2, <2>15, <2>17
  <2>19. Kept(g, h, (0 .. h.max_size - 1) \ Range(h.heap))
    <3>1. moved \in Range(h.heap)
      BY <1>2, <1>3
    <3> QED
      BY <1>1, <1>6, <2>2, <2>15, <2>17, <3>1 DEF Kept
  <2> QED
    BY <2>12, <2>14, <2>15, <2>16, <2>18, <2>19 DEF Removed
<1> QED
  BY <1>7, <1>8

-----------------------------------------------------------------------------
(* The freelist *)

\* The freelist visits p[0], p[1], and so on, which are the ids of free, each
\* once, and then points behind the table.
ChainOf(h, free, m, p) ==
  /\ m \in Nat /\ p \in [0 .. m -> Int]
  /\ p[0] = h.freelist /\ p[m] = h.max_size
  /\ \A i \in 0 .. m - 1 : p[i] \in free /\ h.timer_ids[p[i]] = -p[i + 1]
  /\ \A x \in free : \E i \in 0 .. m - 1 : p[i] = x
  /\ \A i, j \in 0 .. m - 1 : p[i] = p[j] => i = j

Chain(h, free) == \E m, p : ChainOf(h, free, m, p)

LEMMA ChainSame ==
  ASSUME NEW h, NEW free, Chain(h, free), NEW g,
         g.freelist = h.freelist, g.max_size = h.max_size,
         Kept(g, h, free)
  PROVE  Chain(g, free)
<1>1. PICK m, p : ChainOf(h, free, m, p)
  BY DEF Chain
<1>2. ChainOf(g, free, m, p)
  BY <1>1 DEF ChainOf, Kept
<1> QED
  BY <1>2 DEF Chain

LEMMA ChainPop ==
  ASSUME NEW h, IsHeap(h), NEW free, Chain(h, free), h.freelist # h.max_size,
         NEW g, g = pop_freelist(h)
  PROVE  h.freelist \in free /\ Chain(g, free \ {h.freelist})
<1>1. PICK m, p : ChainOf(h, free, m, p)
  BY DEF Chain
<1> DEFINE id == h.freelist
           q == [i \in 0 .. m - 1 |-> p[i + 1]]
<1>2. m \in Nat /\ m # 0
  BY <1>1 DEF ChainOf
<1>3. 0 \in 0 .. m - 1 /\ m - 1 \in Nat /\ (m - 1) + 1 = m
      /\ (\A i \in 0 .. m - 1 : i + 1 \in 0 .. m /\ i \in Int)
      /\ (\A i \in 0 .. (m - 1) - 1 : i + 1 \in 0 .. m - 1 /\ i \in 0 .. m - 1 /\ i + 1 # 0)
      /\ (\A i \in 0 .. m - 1 : i # 0 => i - 1 \in 0 .. (m - 1) - 1 /\ (i - 1) + 1 = i)
  BY <1>2
<1>4. id \in free /\ p[0] = id /\ h.timer_ids[id] = -p[1]
  BY <1>1, <1>3 DEF ChainOf
<1>5. g.max_size = h.max_size /\ g.timer_ids = h.timer_ids /\ g.freelist = p[1]
  <2>1. p[1] \in Int
    BY <1>1, <1>3 DEF ChainOf
  <2>2. g.max_size = h.max_size /\ g.timer_ids = h.timer_ids /\ g.freelist = -h.timer_ids[id]
    BY PopFreelist
  <2> QED
    BY <1>4, <2>1, <2>2
<1>6. q \in [0 .. m - 1 -> Int] /\ q[0] = p[1] /\ q[m - 1] = p[m]
  BY <1>1, <1>3 DEF ChainOf
<1>7. ASSUME NEW i \in 0 .. (m - 1) - 1
      PROVE  q[i] \in free \ {id} /\ g.timer_ids[q[i]] = -q[i + 1]
  <2>1. q[i] = p[i + 1] /\ q[i + 1] = p[(i + 1) + 1]
    BY <1>3
  <2>2. p[i + 1] \in free /\ h.timer_ids[p[i + 1]] = -p[(i + 1) + 1]
    BY <1>1, <1>3 DEF ChainOf
  <2>3. p[i + 1] # p[0]
    BY <1>1, <1>3 DEF ChainOf
  <2> HIDE DEF q
  <2> QED
    BY <1>4, <1>5, <2>1, <2>2, <2>3
<1>8. ASSUME NEW x \in free \ {id} PROVE \E i \in 0 .. (m - 1) - 1 : q[i] = x
  <2>1. PICK i \in 0 .. m - 1 : p[i] = x
    BY <1>1 DEF ChainOf
  <2>2. i # 0
    BY <1>4, <2>1
  <2>3. q[i - 1] = p[i] /\ i - 1 \in 0 .. (m - 1) - 1
    BY <1>3, <2>2
  <2> HIDE DEF q
  <2> QED
    BY <2>1, <2>3
<1>9. ASSUME NEW i \in 0 .. (m - 1) - 1, NEW j \in 0 .. (m - 1) - 1, q[i] = q[j] PROVE i = j
  <2>1. p[i + 1] = p[j + 1]
    BY <1>3, <1>9
  <2>2. i + 1 = j + 1
    BY <1>1, <1>3, <2>1 DEF ChainOf
  <2> QED
    BY <1>3, <2>2
<1> HIDE DEF q
<1>10. g.freelist = q[0] /\ g.max_size = q[m - 1]
  BY <1>1, <1>5, <1>6 DEF ChainOf
<1>11. ChainOf(g, free \ {id}, m - 1, q)
  BY <1>3, <1>6, <1>7, <1>8, <1>9, <1>10 DEF ChainOf
<1> QED
  BY <1>4, <1>11 DEF Chain

LEMMA ChainPush ==
  ASSUME NEW h, NEW free, Chain(h, free), NEW id \in Int, id \notin free,
         NEW g, g.freelist = id, g.max_size = h.max_size, g.timer_ids[id] = -h.freelist,
         Kept(g, h, free)
  PROVE  Chain(g, free \cup {id})
<1>1. PICK m, p : ChainOf(h, free, m, p)
  BY DEF Chain
<1> DEFINE q == [i \in 0 .. m + 1 |-> IF i = 0 THEN id ELSE p[i - 1]]
<1>2. m \in Nat
  BY <1>1 DEF ChainOf
<1>3. m + 1 \in Nat /\ (m + 1) - 1 = m /\ 0 \in 0 .. m + 1 /\ m + 1 \in 0 .. m + 1 /\ m + 1 # 0
      /\ (\A i \in 0 .. m + 1 : i # 0 => i - 1 \in 0 .. m)
      /\ (\A i \in 0 .. m : i \in 0 .. m + 1 /\ i + 1 \in 0 .. m + 1 /\ i + 1 # 0 /\ (i + 1) - 1 = i)
      /\ (\A i \in 0 .. m : i # 0 => i - 1 \in 0 .. m - 1 /\ (i - 1) + 1 = i)
      /\ (\A i \in 0 .. m - 1 : i + 1 \in 0 .. m /\ i \in 0 .. m)
  BY <1>2
<1>4. q \in [0 .. m + 1 -> Int] /\ q[0] = id /\ q[m + 1] = p[m]
      /\ \A i \in 0 .. m + 1 : i # 0 => q[i] = p[i - 1]
  BY <1>1, <1>3 DEF ChainOf
<1> HIDE DEF q
<1>5. ASSUME NEW i \in 0 .. m
      PROVE  q[i] \in free \cup {id} /\ g.timer_ids[q[i]] = -q[i + 1] /\ (q[i] = id => i = 0)
  <2>1. CASE i = 0
    <3>1. q[0 + 1] = p[0]
      BY <1>3, <1>4, <2>1
    <3>2. g.timer_ids[id] = -p[0]
      BY <1>1 DEF ChainOf
    <3> QED
      BY <1>4, <2>1, <3>1, <3>2
  <2>2. CASE i # 0
    <3>1. q[i] = p[i - 1] /\ q[i + 1] = p[(i - 1) + 1]
      BY <1>3, <1>4, <2>2
    <3>2. p[i - 1] \in free /\ h.timer_ids[p[i - 1]] = -p[(i - 1) + 1]
      BY <1>1, <1>3, <2>2 DEF ChainOf
    <3> QED
      BY <3>1, <3>2 DEF Kept
  <2> QED
    BY <2>1, <2>2
<1>6. ASSUME NEW x \in free \cup {id} PROVE \E i \in 0 .. m : q[i] = x
  <2>1. CASE x = id
    BY <1>2, <1>4, <2>1
  <2>2. CASE x \in free
    <3>1. PICK i \in 0 .. m - 1 : p[i] = x
      BY <1>1, <2>2 DEF ChainOf
    <3>2. i + 1 \in 0 .. m /\ q[i + 1] = p[i]
      BY <1>3, <1>4
    <3> QED
      BY <3>1, <3>2
  <2> QED
    BY <2>1, <2>2
<1>7. ASSUME NEW i \in 0 .. m, NEW j \in 0 .. m, q[i] = q[j] PROVE i = j
  <2>1. CASE i = 0 \/ j = 0
    BY <1>4, <1>5, <1>7, <2>1
  <2>2. CASE i # 0 /\ j # 0
    <3>1. p[i - 1] = p[j - 1]
      BY <1>3, <1>4, <1>7, <2>2
    <3>2. i - 1 = j - 1
      BY <1>1, <1>3, <2>2, <3>1 DEF ChainOf
    <3> QED
      BY <3>2
  <2> QED
    BY <2>1, <2>2
<1>8. g.freelist = q[0] /\ g.max_size = q[m + 1]
  BY <1>1, <1>4 DEF ChainOf
<1>9. ChainOf(g, free \cup {id}, m + 1, q)
  BY <1>3, <1>4, <1>5, <1>6, <1>7, <1>8 DEF ChainOf
<1> QED
  BY <1>9 DEF Chain

LEMMA ChainGrow ==
  ASSUME NEW h, IsHeap(h), NEW k \in Nat, k > 0, h.max_size = k,
         NEW free, free \subseteq 1 .. k - 1, Chain(h, free),
         NEW g, g = grow_heap(h)
  PROVE  Chain(g, free \cup k .. 2 * k - 1)
<1>1. PICK m, p : ChainOf(h, free, m, p)
  BY DEF Chain
<1> DEFINE q == [i \in 0 .. m + k |-> IF i < m THEN p[i] ELSE k + (i - m)]
<1>2. m \in Nat
  BY <1>1 DEF ChainOf
<1>3. g.max_size = 2 * k /\ g.freelist = h.freelist
      /\ g.timer_ids = [i \in 0 .. 2 * k - 1 |-> IF i < k THEN h.timer_ids[i] ELSE -(i + 1)]
  BY GrowHeap
<1>4. (\A x \in free : x < k /\ g.timer_ids[x] = h.timer_ids[x])
      /\ (\A x \in k .. 2 * k - 1 : g.timer_ids[x] = -(x + 1))
  BY <1>3
<1>5. (\A i \in 0 .. m + k : i < m => q[i] = p[i]) /\ (\A i \in 0 .. m + k : i >= m => q[i] = k + (i - m))
  BY <1>2
<1>6. q \in [0 .. m + k -> Int]
  <2>1. ASSUME NEW i \in 0 .. m + k PROVE (IF i < m THEN p[i] ELSE k + (i - m)) \in Int
    <3>1. CASE i < m
      <4>1. i \in 0 .. m
        BY <1>2, <3>1
      <4> QED
        BY <1>1, <3>1, <4>1 DEF ChainOf
    <3>2. CASE ~(i < m)
      BY <1>2, <3>2
    <3> QED
      BY <3>1, <3>2
  <2> QED
    BY <2>1
<1> HIDE DEF q
<1>7. q[m] = k /\ p[m] = k
  BY <1>1, <1>2, <1>5 DEF ChainOf
<1>8. ASSUME NEW i \in 0 .. (m + k) - 1
      PROVE  /\ q[i] \in free \cup k .. 2 * k - 1 /\ g.timer_ids[q[i]] = -q[i + 1]
             /\ i < m <=> q[i] < k
  <2>1. i \in 0 .. m + k /\ i + 1 \in 0 .. m + k
    BY <1>2
  <2>2. CASE i < m
    <3>1. i \in 0 .. m - 1
      BY <1>2, <2>1, <2>2
    <3>2. p[i] \in free /\ h.timer_ids[p[i]] = -p[i + 1]
      BY <1>1, <3>1 DEF ChainOf
    <3>3. q[i + 1] = p[i + 1]
      <4>1. CASE i + 1 < m
        BY <1>5, <2>1, <4>1
      <4>2. CASE i + 1 = m
        BY <1>7, <4>2
      <4> QED
        BY <1>2, <3>1, <4>1, <4>2
    <3>4. q[i] = p[i]
      BY <1>5, <2>1, <2>2
    <3> QED
      BY <1>4, <2>2, <3>2, <3>3, <3>4
  <2>3. CASE ~(i < m)
    <3>1. q[i] = k + (i - m) /\ q[i + 1] = k + ((i + 1) - m)
      BY <1>2, <1>5, <2>1, <2>3
    <3>2. q[i] \in k .. 2 * k - 1 /\ q[i + 1] = q[i] + 1 /\ ~(q[i] < k)
      BY <1>2, <2>3, <3>1
    <3> QED
      BY <1>4, <2>3, <3>2
  <2> QED
    BY <2>2, <2>3
<1>9. ASSUME NEW x \in free \cup k .. 2 * k - 1 PROVE \E i \in 0 .. (m + k) - 1 : q[i] = x
  <2>1. CASE x \in free
    <3>1. PICK i \in 0 .. m - 1 : p[i] = x
      BY <1>1, <2>1 DEF ChainOf
    <3>2. i \in 0 .. (m + k) - 1 /\ i \in 0 .. m + k /\ i < m
      BY <1>2
    <3> QED
      BY <1>5, <3>1, <3>2
  <2>2. CASE x \in k .. 2 * k - 1
    <3>1. m + (x - k) \in 0 .. (m + k) - 1 /\ m + (x - k) \in 0 .. m + k /\ m + (x - k) >= m
          /\ k + ((m + (x - k)) - m) = x
      BY <1>2, <2>2
    <3> QED
      BY <1>5, <3>1
  <2> QED
    BY <2>1, <2>2
<1>10. ASSUME NEW i \in 0 .. (m + k) - 1, NEW j \in 0 .. (m + k) - 1, q[i] = q[j] PROVE i = j
  <2>1. i \in 0 .. m + k /\ j \in 0 .. m + k
    BY <1>2
  <2>2. CASE i < m
    <3>1. i \in 0 .. m - 1 /\ j \in 0 .. m - 1
      BY <1>2, <1>8, <1>10, <2>1, <2>2
    <3>2. p[i] = p[j]
      BY <1>2, <1>5, <1>10, <2>1, <3>1
    <3> QED
      BY <1>1, <3>1, <3>2 DEF ChainOf
  <2>3. CASE ~(i < m)
    <3>1. ~(j < m)
      BY <1>8, <1>10, <2>3
    <3>2. k + (i - m) = k + (j - m)
      BY <1>2, <1>5, <1>10, <2>1, <2>3, <3>1
    <3> QED
      BY <1>2, <2>1, <3>2
  <2> QED
    BY <2>2, <2>3
<1>11. g.freelist = q[0] /\ g.max_size = q[m + k] /\ m + k \in Nat
  <2>1. q[0] = p[0]
    <3>1. CASE m = 0
      BY <1>7, <3>1
    <3>2. CASE m > 0
      BY <1>2, <1>5, <3>2
    <3> QED
      BY <1>2, <3>1, <3>2
  <2>2. q[m + k] = 2 * k /\ m + k \in Nat
    BY <1>2, <1>5
  <2> QED
    BY <1>1, <1>3, <2>1, <2>2 DEF ChainOf
<1>12. ChainOf(g, free \cup k .. 2 * k - 1, m + k, q)
  BY <1>6, <1>8, <1>9, <1>10, <1>11 DEF ChainOf
<1> QED
  BY <1>12 DEF Chain

\* The freelist as a set of links: no two lead to the same id, and the ids they
\* lead to are those they start from, but for the two ends.
LEMMA ChainLinks ==
  ASSUME NEW h, NEW k \in Nat, k > 0, h.max_size = k,
         NEW free, free \subseteq 1 .. k - 1, Chain(h, free)
  PROVE  /\ h.freelist \in free \cup {k}
         /\ \A x \in free : h.timer_ids[x] \in Int /\ h.timer_ids[x] < 0
         /\ {-h.timer_ids[x] : x \in free} \cup {h.freelist} = free \cup {k}
         /\ \A x, y \in free : -h.timer_ids[x] = -h.timer_ids[y] => x = y
<1>1. PICK m, p : ChainOf(h, free, m, p)
  BY DEF Chain
<1>2. m \in Nat /\ p[0] = h.freelist /\ p[m] = k
  BY <1>1 DEF ChainOf
<1>3. (\A i \in 0 .. m - 1 : i \in 0 .. m /\ i + 1 \in 0 .. m /\ i \in Int)
      /\ (\A i \in 0 .. m : i = m \/ i \in 0 .. m - 1)
      /\ (\A i \in 0 .. m : i = 0 \/ (i - 1 \in 0 .. m - 1 /\ (i - 1) + 1 = i))
      /\ 0 \in 0 .. m /\ m \in 0 .. m
  BY <1>2
<1>4. \A i \in 0 .. m : p[i] \in free \cup {k} /\ p[i] \in Int /\ p[i] > 0
  <2>1. \A i \in 0 .. m : p[i] \in free \cup {k}
    BY <1>1, <1>2, <1>3 DEF ChainOf
  <2>2. \A x \in free \cup {k} : x \in Int /\ x > 0
    OBVIOUS
  <2> QED
    BY <2>1, <2>2
<1>5. \A i \in 0 .. m - 1 : p[i] \in free /\ h.timer_ids[p[i]] = -p[i + 1] /\ -h.timer_ids[p[i]] = p[i + 1]
  <2>1. \A i \in 0 .. m - 1 : p[i] \in free /\ h.timer_ids[p[i]] = -p[i + 1]
    BY <1>1 DEF ChainOf
  <2>2. \A i \in 0 .. m - 1 : p[i + 1] \in Int
    BY <1>3, <1>4
  <2> QED
    BY <2>1, <2>2
<1>6. \A x \in free : \E i \in 0 .. m - 1 : p[i] = x
  BY <1>1 DEF ChainOf
<1>7. h.freelist \in free \cup {k}
  BY <1>2, <1>3, <1>4
<1>8. ASSUME NEW x \in free
      PROVE  h.timer_ids[x] \in Int /\ h.timer_ids[x] < 0 /\ -h.timer_ids[x] \in free \cup {k}
  <2>1. PICK i \in 0 .. m - 1 : p[i] = x
    BY <1>6
  <2>2. h.timer_ids[x] = -p[i + 1] /\ p[i + 1] \in Int /\ p[i + 1] > 0 /\ p[i + 1] \in free \cup {k}
        /\ -h.timer_ids[x] = p[i + 1]
    BY <1>3, <1>4, <1>5, <2>1
  <2> QED
    BY <2>2
<1>9. ASSUME NEW y \in free \cup {k}, y # h.freelist
      PROVE  \E x \in free : -h.timer_ids[x] = y
  <2>1. PICK i \in 0 .. m : p[i] = y
    BY <1>2, <1>3, <1>6
  <2>2. i # 0
    BY <1>2, <1>9, <2>1
  <2>3. i - 1 \in 0 .. m - 1 /\ (i - 1) + 1 = i
    BY <1>3, <2>2
  <2> QED
    BY <1>5, <2>1, <2>3
<1>10. \A i, j \in 0 .. m : p[i] = p[j] => i = j
  <2>1. \A i \in 0 .. m - 1 : p[i] # p[m]
    BY <1>2, <1>5
  <2>2. \A i, j \in 0 .. m - 1 : p[i] = p[j] => i = j
    BY <1>1 DEF ChainOf
  <2> QED
    BY <1>3, <2>1, <2>2
<1>11. ASSUME NEW x \in free, NEW y \in free, -h.timer_ids[x] = -h.timer_ids[y] PROVE x = y
  <2>1. PICK i \in 0 .. m - 1 : p[i] = x
    BY <1>6
  <2>2. PICK j \in 0 .. m - 1 : p[j] = y
    BY <1>6
  <2>3. p[i + 1] = p[j + 1]
    BY <1>5, <1>11, <2>1, <2>2
  <2>4. i + 1 = j + 1
    BY <1>3, <1>10, <2>3
  <2>5. i = j
    BY <1>3, <2>4
  <2> QED
    BY <2>1, <2>2, <2>5
<1>12. {-h.timer_ids[x] : x \in free} \cup {h.freelist} = free \cup {k}
  <2> DEFINE after == {-h.timer_ids[x] : x \in free}
  <2>1. after \subseteq free \cup {k}
    BY <1>8
  <2>2. \A y \in free \cup {k} : y = h.freelist \/ y \in after
    BY <1>9
  <2> HIDE DEF after
  <2>3. after \cup {h.freelist} = free \cup {k}
    BY <1>7, <2>1, <2>2
  <2> QED
    BY <2>3 DEF after
<1> QED
  BY <1>7, <1>8, <1>11, <1>12

-----------------------------------------------------------------------------
(* A sound heap, and what scheduling and removing make of it *)

Free(h) == (1 .. h.max_size - 1) \ Range(h.heap)

Sound(h) ==
  /\ h.max_size \in InitSize .. MaxSize
  /\ \E n \in 0 .. h.max_size - 2 : Placed(h, n)
  /\ Chain(h, Free(h))

OrderedBy(h, due) ==
  \A s \in DOMAIN h.heap : due[h.heap[HEAP_PARENT(s)]] <= due[h.heap[s]]

LEMMA SoundFacts ==
  ASSUME NEW h, Sound(h)
  PROVE  /\ h.max_size \in Nat /\ h.max_size >= 2 /\ h.max_size <= MaxSize
         /\ 1 .. h.max_size - 1 \subseteq AllIds
         /\ Range(h.heap) \subseteq 1 .. h.max_size - 1
         /\ CurSize(h) \in Nat /\ CurSize(h) + 2 <= h.max_size
         /\ DOMAIN h.heap = 0 .. CurSize(h) - 1 /\ Placed(h, CurSize(h))
<1>1. PICK n \in 0 .. h.max_size - 2 : Placed(h, n)
  BY DEF Sound
<1>2. h.max_size \in Nat /\ h.max_size >= 2 /\ h.max_size <= MaxSize
  BY HeapAssumption DEF Sound
<1>3. 1 .. h.max_size - 1 \subseteq AllIds
  BY <1>2, HeapAssumption DEF AllIds
<1>4. Range(h.heap) \subseteq 1 .. h.max_size - 1
  BY <1>1 DEF Placed, Range
<1>5. n \in Nat /\ DOMAIN h.heap = 0 .. n - 1 /\ CurSize(h) = n
  BY <1>1, SizeOf DEF Placed
<1>6. n + 2 <= h.max_size
  BY <1>2, <1>5
<1> QED
  BY <1>1, <1>2, <1>3, <1>4, <1>5, <1>6

\* There are more ids than nodes, so the freelist is not at its end.
LEMMA FreeIdLeft ==
  ASSUME NEW h, Sound(h)
  PROVE  h.freelist \in Free(h) /\ h.freelist \in 1 .. h.max_size - 1
<1> DEFINE n == CurSize(h)
           k == h.max_size
<1>1. /\ k \in Nat /\ k >= 2 /\ n \in Nat /\ n + 2 <= k
      /\ Range(h.heap) \subseteq 1 .. k - 1 /\ DOMAIN h.heap = 0 .. n - 1 /\ Placed(h, n)
  BY SoundFacts
<1> HIDE DEF n, k
<1>2. PICK x \in 1 .. k - 1 : x \notin Range(h.heap)
  <2>1. SUFFICES ASSUME 1 .. k - 1 \subseteq Range(h.heap) PROVE FALSE
    OBVIOUS
  <2> DEFINE f == [j \in 0 .. n - 1 |-> h.heap[j]]
  <2>2. f \in Surjection(0 .. n - 1, 1 .. k - 1)
    <3>1. Range(h.heap) = 1 .. k - 1
      BY <1>1, <2>1
    <3>2. \A j \in 0 .. n - 1 : h.heap[j] \in 1 .. k - 1
      BY <1>1 DEF Placed, k
    <3>3. \A t \in 1 .. k - 1 : \E j \in 0 .. n - 1 : h.heap[j] = t
      BY <1>1, <3>1 DEF Range
    <3> QED
      BY <3>2, <3>3 DEF Surjection
  <2>3. IsFiniteSet(0 .. n - 1) /\ Cardinality(0 .. n - 1) = n
    BY <1>1, FS_Interval
  <2>4. Cardinality(1 .. k - 1) = k - 1
    BY <1>1, FS_Interval
  <2>5. Cardinality(1 .. k - 1) <= Cardinality(0 .. n - 1)
    BY <2>2, <2>3, FS_Surjection
  <2> QED
    BY <1>1, <2>3, <2>4, <2>5
<1>3. PICK m, p : ChainOf(h, Free(h), m, p)
  BY DEF Sound, Chain
<1>4. x \in Free(h)
  BY <1>2 DEF Free, k
<1>5. PICK i \in 0 .. m - 1 : p[i] = x
  BY <1>3, <1>4 DEF ChainOf
<1>6. m \in Nat /\ 0 \in 0 .. m - 1
  BY <1>3, <1>5 DEF ChainOf
<1> QED
  BY <1>3, <1>6 DEF ChainOf, Free

\* The heap has given out an id, and has grown if that was due.
Ready(ready, h) ==
  \/ CurSize(h) + 2 < h.max_size /\ ready = pop_freelist(h)
  \/ 2 * h.max_size <= MaxSize /\ ready = grow_heap(pop_freelist(h))

Gained(g, h, id, due) ==
  /\ Sound(g) /\ OrderedBy(g, due) /\ h.max_size <= g.max_size
  /\ Range(g.heap) = Range(h.heap) \cup {id} /\ id \notin Range(h.heap)

LEMMA ScheduleHeap ==
  ASSUME NEW h, Sound(h), NEW id, id = h.freelist,
         NEW due, Timed(Range(h.heap) \cup {id}, due), OrderedBy(h, due),
         NEW ready, Ready(ready, h), NEW g, g = insert_node(ready, id, due)
  PROVE  Gained(g, h, id, due)
<1> DEFINE n == CurSize(h)
           k == h.max_size
           popped == pop_freelist(h)
           grows == 2 * k <= MaxSize /\ ready = grow_heap(popped)
           kk == IF grows THEN 2 * k ELSE k
<1>1. /\ k \in Nat /\ k >= 2 /\ k <= MaxSize /\ n \in Nat /\ n + 2 <= k
      /\ Range(h.heap) \subseteq 1 .. k - 1 /\ DOMAIN h.heap = 0 .. n - 1 /\ Placed(h, n)
      /\ id \in Free(h) /\ id \in 1 .. k - 1 /\ id \notin Range(h.heap)
  BY SoundFacts, FreeIdLeft DEF Free
<1>2. IsHeap(h) /\ InOrder(h, n, due) /\ k \in InitSize .. MaxSize
      /\ DOMAIN h.timer_ids = 0 .. k - 1 /\ Chain(h, Free(h))
  BY <1>1 DEF Placed, InOrder, OrderedBy, Sound
<1>3. /\ IsHeap(popped) /\ popped.max_size = k /\ popped.heap = h.heap
      /\ popped.timer_ids = h.timer_ids
  BY <1>2, PopFreelist
<1>4. Chain(popped, Free(h) \ {id})
  <2>1. h.freelist # h.max_size
    BY <1>1
  <2> QED
    BY <1>2, <2>1, ChainPop
<1>0. grows \/ (~grows /\ n + 2 < k /\ ready = popped)
  BY DEF Ready
<1> HIDE DEF n, popped, grows
<1>5. /\ IsHeap(ready) /\ ready.max_size = kk /\ ready.heap = h.heap
      /\ DOMAIN ready.timer_ids = 0 .. kk - 1
      /\ \A x \in 1 .. k - 1 : ready.timer_ids[x] = h.timer_ids[x]
      /\ Chain(ready, (1 .. kk - 1) \ (Range(h.heap) \cup {id}))
  <2>1. CASE grows
    <3>1. ready = grow_heap(popped) /\ kk = 2 * k
      BY <2>1 DEF grows
    <3> HIDE DEF kk
    <3>2. /\ IsHeap(ready) /\ ready.max_size = 2 * k /\ ready.heap = h.heap
          /\ ready.timer_ids =
               [i \in 0 .. 2 * k - 1 |-> IF i < k THEN h.timer_ids[i] ELSE -(i + 1)]
      BY <1>3, <3>1, GrowHeap
    <3>3. \A x \in 1 .. k - 1 : ready.timer_ids[x] = h.timer_ids[x]
      <4>1. \A x \in 1 .. k - 1 : x \in 0 .. 2 * k - 1 /\ x < k
        BY <1>1
      <4> QED
        BY <3>2, <4>1
    <3>4. Chain(ready, (Free(h) \ {id}) \cup k .. 2 * k - 1)
      <4>1. Free(h) \ {id} \subseteq 1 .. k - 1
        BY DEF Free
      <4> QED
        BY <1>1, <1>3, <1>4, <3>1, <4>1, ChainGrow
    <3>5. (Free(h) \ {id}) \cup k .. 2 * k - 1 = (1 .. 2 * k - 1) \ (Range(h.heap) \cup {id})
      <4>1. 1 .. 2 * k - 1 = (1 .. k - 1) \cup k .. 2 * k - 1
            /\ \A x \in 1 .. k - 1 : x \notin k .. 2 * k - 1
        BY <1>1
      <4>2. Range(h.heap) \cup {id} \subseteq 1 .. k - 1
        BY <1>1
      <4>3. Free(h) = (1 .. k - 1) \ Range(h.heap)
        BY DEF Free
      <4> QED
        BY <4>1, <4>2, <4>3, Zenon
    <3> QED
      BY <3>1, <3>2, <3>3, <3>4, <3>5
  <2>2. CASE ~grows
    <3>1. ready = popped /\ kk = k
      BY <1>0, <2>2
    <3>2. Free(h) \ {id} = (1 .. k - 1) \ (Range(h.heap) \cup {id})
      BY DEF Free
    <3> QED
      BY <1>2, <1>3, <1>4, <3>1, <3>2
  <2> QED
    BY <2>1, <2>2
<1>6. kk \in Nat /\ kk >= k /\ kk \in InitSize .. MaxSize /\ n + 1 \in 0 .. kk - 2
  <2>1. CASE grows
    <3>1. kk = 2 * k /\ 2 * k <= MaxSize
      BY <2>1 DEF grows
    <3>2. k \in Nat /\ k >= 2 /\ n \in Nat /\ n + 2 <= k /\ k >= InitSize
      BY <1>1, <1>2
    <3>3. InitSize \in Nat /\ MaxSize \in Nat
      BY HeapAssumption
    <3> HIDE DEF kk, k
    <3> QED
      BY <3>1, <3>2, <3>3
  <2>2. CASE ~grows
    BY <1>0, <1>1, <1>2, <2>2
  <2> QED
    BY <2>1, <2>2
<1> HIDE DEF kk, k
<1>7. Placed(ready, n) /\ InOrder(ready, n, due)
  <2>1. \A j \in 0 .. n - 1 : h.heap[j] \in 1 .. k - 1 /\ h.timer_ids[h.heap[j]] = j
    BY <1>1 DEF Placed, k
  <2>2. 1 .. k - 1 \subseteq 1 .. kk - 1
    BY <1>1, <1>6
  <2>3. \A j \in 0 .. n - 1 : ready.heap[j] \in 1 .. ready.max_size - 1
                              /\ ready.timer_ids[ready.heap[j]] = j
    BY <1>5, <2>1, <2>2
  <2>4. Placed(ready, n)
    BY <1>1, <1>5, <1>6, <2>3 DEF Placed
  <2> QED
    BY <1>2, <1>5, <2>4 DEF InOrder
<1>8. id \in 1 .. ready.max_size - 1 /\ id \notin Range(ready.heap)
  BY <1>1, <1>5, <1>6
<1>9. /\ SameRest(g, ready) /\ Placed(g, n + 1) /\ InOrder(g, n + 1, due)
      /\ Range(g.heap) = Range(h.heap) \cup {id}
      /\ Kept(g, ready, (0 .. kk - 1) \ Range(g.heap))
  <2>1. Timed(Range(ready.heap) \cup {id}, due)
    BY <1>5
  <2>2. Inserted(g, ready, n, id, due)
    BY <1>7, <1>8, <2>1, InsertNode, Zenon
  <2> QED
    BY <1>5, <2>2 DEF Inserted
<1>10. Chain(g, Free(g))
  <2>1. g.max_size = kk /\ Free(g) = (1 .. kk - 1) \ (Range(h.heap) \cup {id})
    BY <1>5, <1>9 DEF SameRest, Free
  <2>2. Kept(g, ready, Free(g))
    <3>1. \A x \in Free(g) : x \in 0 .. kk - 1 /\ x \notin Range(g.heap)
      BY <1>6, <1>9, <2>1
    <3> QED
      BY <1>9, <3>1 DEF Kept
  <2>3. g.freelist = ready.freelist /\ g.max_size = ready.max_size
    BY <1>9 DEF SameRest
  <2>4. Chain(ready, Free(g))
    BY <1>5, <2>1
  <2> QED
    BY <2>2, <2>3, <2>4, ChainSame
<1>11. g.max_size = kk /\ Sound(g)
  BY <1>5, <1>6, <1>9, <1>10 DEF SameRest, Sound
<1>12. OrderedBy(g, due)
  BY <1>9 DEF InOrder, OrderedBy, Placed
<1> QED
  BY <1>1, <1>6, <1>9, <1>11, <1>12 DEF k, Gained

Lost(g, h, id, due) ==
  /\ Sound(g) /\ OrderedBy(g, due) /\ h.max_size = g.max_size
  /\ Range(g.heap) = Range(h.heap) \ {id} /\ id \in Range(h.heap)

LEMMA RemoveHeap ==
  ASSUME NEW h, Sound(h), NEW slot \in DOMAIN h.heap, NEW id, id = h.heap[slot],
         NEW due, Timed(Range(h.heap), due), OrderedBy(h, due),
         NEW g, g = remove_node(h, slot, due)
  PROVE  Lost(g, h, id, due)
<1> DEFINE n == CurSize(h)
           k == h.max_size
<1>1. /\ k \in Nat /\ k >= 2 /\ n \in Nat /\ n + 2 <= k
      /\ Range(h.heap) \subseteq 1 .. k - 1 /\ DOMAIN h.heap = 0 .. n - 1 /\ Placed(h, n)
  BY SoundFacts
<1>2. InOrder(h, n, due) /\ k \in InitSize .. MaxSize /\ Chain(h, Free(h))
  BY <1>1 DEF InOrder, OrderedBy, Sound
<1>3. id \in Range(h.heap)
  BY DEF Range
<1> HIDE DEF n
<1>4. /\ Placed(g, n - 1) /\ InOrder(g, n - 1, due) /\ g.max_size = k
      /\ Range(g.heap) = Range(h.heap) \ {id}
      /\ g.freelist = id /\ g.timer_ids[id] = -h.freelist
      /\ Kept(g, h, (0 .. k - 1) \ Range(h.heap))
  <2>1. slot \in 0 .. n - 1
    BY <1>1
  <2> HIDE DEF k
  <2>2. Removed(g, h, n, id, due)
    <3>1. Placed(h, n) /\ InOrder(h, n, due)
      BY <1>1, <1>2
    <3> QED
      BY <2>1, <3>1, RemoveNode, Zenon
  <2> QED
    BY <2>2 DEF k, Removed
<1> HIDE DEF k
<1>5. Chain(g, Free(g))
  <2>1. Free(g) = Free(h) \cup {id} /\ id \notin Free(h) /\ id \in Int
    BY <1>1, <1>3, <1>4 DEF Free, k
  <2>2. \A x \in Free(h) : x \in 0 .. k - 1 /\ x \notin Range(h.heap)
    BY <1>1 DEF Free, k
  <2>3. Kept(g, h, Free(h))
    BY <1>4, <2>2 DEF Kept
  <2>4. g.max_size = h.max_size
    BY <1>4 DEF k
  <2>5. Chain(g, Free(h) \cup {id})
    BY <1>2, <1>4, <2>1, <2>3, <2>4, ChainPush
  <2> QED
    BY <2>1, <2>5
<1>6. n - 1 \in 0 .. k - 2
  <2>1. n - 1 \in Nat
    BY <1>4 DEF Placed
  <2> QED
    BY <1>1, <2>1
<1>7. Sound(g)
  BY <1>2, <1>4, <1>5, <1>6 DEF Sound
<1>8. OrderedBy(g, due)
  BY <1>4 DEF InOrder, OrderedBy, Placed
<1> QED
  BY <1>3, <1>4, <1>7, <1>8 DEF k, Lost

\* The root is the earliest node.
LEMMA RootFirst ==
  ASSUME NEW h, Sound(h), NEW due, Timed(Range(h.heap), due), OrderedBy(h, due),
         NEW y \in Range(h.heap)
  PROVE  0 \in DOMAIN h.heap /\ due[h.heap[0]] <= due[y]
<1> DEFINE n == CurSize(h)
           late(j) == ~(due[h.heap[0]] <= due[h.heap[j]])
           Late == {j \in 0 .. n - 1 : late(j)}
<1>1. n \in Nat /\ DOMAIN h.heap = 0 .. n - 1
  BY SoundFacts
<1> HIDE DEF n
<1>2. PICK i \in 0 .. n - 1 : h.heap[i] = y
  BY <1>1 DEF Range
<1>3. 0 \in 0 .. n - 1
  BY <1>1, <1>2
<1>4. \A j \in 0 .. n - 1 : due[h.heap[j]] \in Int
  BY <1>1 DEF Range, Timed
<1>5. SUFFICES ASSUME Late # {} PROVE FALSE
  BY <1>1, <1>2, <1>3
<1>6. PICK j \in Late : \A m \in Late : j <= m
  <2>1. Late \subseteq Nat
    BY <1>1
  <2> HIDE DEF Late
  <2> QED
    BY <1>5, <2>1, LeastExists
<1>7. j \in 0 .. n - 1 /\ j \in Nat /\ ~(due[h.heap[0]] <= due[h.heap[j]])
  BY <1>1
<1>8. j > 0
  BY <1>3, <1>4, <1>7
<1>9. HEAP_PARENT(j) \in Nat /\ HEAP_PARENT(j) < j
  BY <1>7, <1>8, Parents
<1>10. HEAP_PARENT(j) \in 0 .. n - 1 /\ HEAP_PARENT(j) \notin Late
  BY <1>1, <1>6, <1>7, <1>9
<1>11. due[h.heap[HEAP_PARENT(j)]] <= due[h.heap[j]]
  BY <1>1, <1>7 DEF OrderedBy
<1>12. due[h.heap[0]] <= due[h.heap[HEAP_PARENT(j)]]
  BY <1>10
<1> QED
  BY <1>3, <1>4, <1>7, <1>10, <1>11, <1>12

LEMMA OrderedAgain ==
  ASSUME NEW h, Sound(h), NEW due, OrderedBy(h, due), NEW due2,
         \A x \in Range(h.heap) : due2[x] = due[x]
  PROVE  OrderedBy(h, due2)
<1> SUFFICES ASSUME NEW s \in DOMAIN h.heap
             PROVE  due2[h.heap[HEAP_PARENT(s)]] <= due2[h.heap[s]]
  BY DEF OrderedBy
<1> DEFINE n == CurSize(h)
<1>1. n \in Nat /\ DOMAIN h.heap = 0 .. n - 1
  BY SoundFacts
<1> HIDE DEF n
<1>2. s \in Nat /\ s < n
  BY <1>1
<1>3. HEAP_PARENT(s) \in Nat /\ HEAP_PARENT(s) <= s
  BY <1>2, Parents
<1>4. HEAP_PARENT(s) \in DOMAIN h.heap
  BY <1>1, <1>2, <1>3
<1>5. h.heap[s] \in Range(h.heap) /\ h.heap[HEAP_PARENT(s)] \in Range(h.heap)
  BY <1>4 DEF Range
<1>6. due[h.heap[HEAP_PARENT(s)]] <= due[h.heap[s]]
  BY DEF OrderedBy
<1> QED
  BY <1>5, <1>6

-----------------------------------------------------------------------------
(* The inductive invariant *)

Typed ==
  /\ dups \in [AllIds -> [entry : Entries \cup {Nobody}, value : 0 .. Horizon]]
  /\ timer_id \in [Entries -> -1 .. ht.max_size - 1] /\ cb \in [Entries -> BOOLEAN]

\* Exactly the ids of nodes have a timer under them.
Armed ==
  \A id \in AllIds : IF id \in Scheduled THEN dups[id].entry \in Entries ELSE dups[id] = NoDup

Polled ==
  /\ poll \in [running : BOOLEAN, entry : Entries \cup {Nobody}, now : Nat, count : 0 .. PerPoll]
  /\ poll.running <=> poll.count > 0
  /\ poll.now <= clock /\ clock \in Nat /\ clock >= 1

HeapInv == Sound(ht) /\ Typed /\ HeapOrdered /\ Armed /\ OwnersFindTheirTimers

IInv == HeapInv /\ Polled

LEMMA InvFacts ==
  ASSUME HeapInv
  PROVE  /\ Scheduled \subseteq AllIds /\ Scheduled \subseteq 1 .. ht.max_size - 1
         /\ Timed(Scheduled, value) /\ OrderedBy(ht, value)
         /\ \A id \in AllIds : value[id] = dups[id].value /\ dups[id].value \in 0 .. Horizon
         /\ \A id \in Scheduled : dups[id].entry \in Entries
<1>1. Scheduled \subseteq AllIds /\ Scheduled \subseteq 1 .. ht.max_size - 1
  BY SoundFacts DEF HeapInv, Scheduled
<1>2. \A id \in AllIds : value[id] = dups[id].value /\ dups[id].value \in 0 .. Horizon
  BY DEF HeapInv, Typed, value
<1>3. Timed(Scheduled, value)
  <2>1. \A id \in AllIds : value[id] \in 0 .. Horizon
    BY <1>2
  <2>2. 0 .. Horizon \subseteq Int
    OBVIOUS
  <2> QED
    BY <1>1, <2>1, <2>2 DEF Timed
<1>4. OrderedBy(ht, value)
  BY DEF HeapInv, HeapOrdered, OrderedBy
<1>5. \A id \in Scheduled : dups[id].entry \in Entries
  BY <1>1 DEF HeapInv, Armed
<1> QED
  BY <1>1, <1>2, <1>3, <1>4, <1>5

LEMMA InitInv == Init => IInv
<1> SUFFICES ASSUME Init PROVE IInv
  OBVIOUS
<1> DEFINE t == [i \in 0 .. InitSize - 1 |-> -(i + 1)]
           k == InitSize
<1>1. k \in Nat /\ k >= 2 /\ k \in InitSize .. MaxSize
  BY HeapAssumption
<1>2. /\ IsHeap(ht) /\ ht.max_size = k /\ ht.heap = <<>> /\ ht.freelist = 1
      /\ ht.timer_ids = t
  BY DEF Init, IsHeap
<1>3. DOMAIN ht.heap = 0 .. 0 - 1
  <2>1. DOMAIN ht.heap = {}
    BY <1>2
  <2>2. 0 .. 0 - 1 = {}
    OBVIOUS
  <2> QED
    BY <2>1, <2>2
<1>4. Range(ht.heap) = {} /\ Scheduled = {}
  <2>1. DOMAIN ht.heap = {}
    BY <1>2
  <2> QED
    BY <2>1 DEF Range, Scheduled
<1>5. Placed(ht, 0)
  BY <1>1, <1>2, <1>3 DEF Placed
<1>6. Chain(ht, Free(ht))
  <2> DEFINE p == [i \in 0 .. k - 1 |-> i + 1]
  <2>1. Free(ht) = 1 .. k - 1
    BY <1>2, <1>4 DEF Free
  <2>2. p \in [0 .. k - 1 -> Int] /\ p[0] = 1 /\ p[k - 1] = k /\ k - 1 \in Nat
    BY <1>1
  <2>3. \A i \in 0 .. (k - 1) - 1 : p[i] \in 1 .. k - 1 /\ t[p[i]] = -p[i + 1]
    BY <1>1
  <2>4. \A x \in 1 .. k - 1 : \E i \in 0 .. (k - 1) - 1 : p[i] = x
    <3>1. \A x \in 1 .. k - 1 : x - 1 \in 0 .. (k - 1) - 1 /\ p[x - 1] = x
      BY <1>1
    <3> HIDE DEF p
    <3> QED
      BY <3>1
  <2>5. \A i, j \in 0 .. (k - 1) - 1 : p[i] = p[j] => i = j
    BY <1>1
  <2> HIDE DEF p, t, k
  <2>6. ChainOf(ht, Free(ht), k - 1, p)
    BY <1>2, <2>1, <2>2, <2>3, <2>4, <2>5 DEF ChainOf
  <2> QED
    BY <2>6 DEF Chain
<1>7. Sound(ht)
  <2>1. 0 \in 0 .. ht.max_size - 2
    BY <1>1, <1>2
  <2> QED
    BY <1>1, <1>2, <1>5, <1>6, <2>1 DEF Sound
<1>8. Typed
  <2>1. NoDup \in [entry : Entries \cup {Nobody}, value : 0 .. Horizon]
    BY HeapAssumption DEF NoDup
  <2>2. -1 \in -1 .. ht.max_size - 1
    BY <1>1, <1>2
  <2> QED
    BY <2>1, <2>2, HeapAssumption DEF Init, Typed
<1>9. HeapOrdered
  BY <1>2 DEF HeapOrdered
<1>10. Armed
  BY <1>4 DEF Init, Armed
<1>11. OwnersFindTheirTimers
  BY DEF Init, OwnersFindTheirTimers
<1>12. Polled
  BY HeapAssumption DEF Init, Polled, NotPolling
<1> QED
  BY <1>7, <1>8, <1>9, <1>10, <1>11, <1>12 DEF IInv, HeapInv

\* Schedule takes the first free id, arms it and hands it to the entry.
LEMMA ScheduleInv ==
  ASSUME HeapInv, clock \in Nat, NEW e \in Entries, NEW d \in Delays, Schedule(e, d)
  PROVE  /\ HeapInv' /\ ht.freelist \in AllIds \ Scheduled
         /\ dups' = [dups EXCEPT ![ht.freelist] = [entry |-> e, value |-> clock + d]]
         /\ timer_id' = [timer_id EXCEPT ![e] = ht.freelist]
<1> DEFINE id == ht.freelist
           ready == IF Full THEN grow_heap(pop_freelist(ht)) ELSE pop_freelist(ht)
           new == [dups EXCEPT ![id] = [entry |-> e, value |-> clock + d]]
           due == [i \in AllIds |-> new[i].value]
<1>1. /\ ht' = insert_node(ready, id, due) /\ dups' = new
      /\ timer_id' = [timer_id EXCEPT ![e] = id] /\ cb' = cb
      /\ clock + d \in 0 .. Horizon /\ (Full => 2 * ht.max_size <= MaxSize)
  BY HeapAssumption DEF Schedule
<1>2. /\ Sound(ht) /\ Typed /\ Scheduled \subseteq AllIds
      /\ id \in AllIds /\ id \notin Scheduled /\ id \in 1 .. ht.max_size - 1
      /\ \A i \in AllIds : value[i] = dups[i].value /\ dups[i].value \in 0 .. Horizon
      /\ OrderedBy(ht, value)
  <2>1. Sound(ht) /\ Typed
    BY DEF HeapInv
  <2> QED
    BY <2>1, InvFacts, SoundFacts, FreeIdLeft DEF Free, Scheduled
<1>3. /\ new \in [AllIds -> [entry : Entries \cup {Nobody}, value : 0 .. Horizon]]
      /\ new[id] = [entry |-> e, value |-> clock + d]
      /\ \A i \in AllIds : i # id => new[i] = dups[i]
  <2>1. [entry |-> e, value |-> clock + d] \in [entry : Entries \cup {Nobody}, value : 0 .. Horizon]
    BY <1>1
  <2>2. dups \in [AllIds -> [entry : Entries \cup {Nobody}, value : 0 .. Horizon]]
    BY <1>2 DEF Typed
  <2> QED
    BY <1>2, <2>1, <2>2
<1> HIDE DEF new
<1>4. (\A i \in AllIds : due[i] = new[i].value /\ new[i].value \in 0 .. Horizon)
      /\ (\A i \in Scheduled : due[i] = value[i])
  BY <1>2, <1>3
<1> HIDE DEF due
<1>5. Timed(Scheduled \cup {id}, due)
  <2>1. 0 .. Horizon \subseteq Int
    OBVIOUS
  <2> QED
    BY <1>2, <1>4, <2>1 DEF Timed
<1>6. OrderedBy(ht, due)
  BY <1>2, <1>4, OrderedAgain DEF Scheduled
<1>7. Ready(ready, ht)
  <2>1. ht.max_size \in Nat /\ CurSize(ht) \in Nat
    BY <1>2, SoundFacts
  <2>2. CASE Full
    BY <1>1, <2>2 DEF Ready
  <2>3. CASE ~Full
    <3>1. CurSize(ht) + 2 < ht.max_size
      BY <2>1, <2>3 DEF Full
    <3> QED
      BY <2>3, <3>1 DEF Ready
  <2> QED
    BY <2>2, <2>3
<1> HIDE DEF ready
<1>8. Gained(ht', ht, id, due)
  <2>1. Timed(Range(ht.heap) \cup {id}, due)
    BY <1>5 DEF Scheduled
  <2> QED
    BY <1>1, <1>2, <1>6, <1>7, <2>1, ScheduleHeap, Zenon
<1>9. Sound(ht') /\ OrderedBy(ht', due) /\ ht.max_size <= ht'.max_size
      /\ Scheduled' = Scheduled \cup {id}
  BY <1>8 DEF Gained, Scheduled
<1>10. ht.max_size \in Nat /\ ht'.max_size \in Nat
  BY <1>2, <1>9, SoundFacts
<1>11. Typed'
  <2>1. timer_id' \in [Entries -> -1 .. ht'.max_size - 1]
    <3>1. -1 .. ht.max_size - 1 \subseteq -1 .. ht'.max_size - 1
      BY <1>9, <1>10
    <3>2. id \in -1 .. ht'.max_size - 1
      BY <1>2, <1>9, <1>10
    <3>3. timer_id \in [Entries -> -1 .. ht.max_size - 1]
      BY <1>2 DEF Typed
    <3> QED
      BY <1>1, <3>1, <3>2, <3>3
  <2> QED
    BY <1>1, <1>2, <1>3, <2>1 DEF Typed
<1>12. HeapOrdered'
  <2>1. value' = due
    BY <1>1 DEF value, due
  <2> QED
    BY <1>9, <2>1 DEF HeapOrdered, OrderedBy
<1>13. Armed'
  BY <1>1, <1>2, <1>3, <1>9 DEF HeapInv, Armed
<1>14. OwnersFindTheirTimers'
  <2> SUFFICES ASSUME NEW f \in Entries, timer_id'[f] >= 1
               PROVE  timer_id'[f] \in Scheduled' /\ dups'[timer_id'[f]].entry = f
    BY DEF OwnersFindTheirTimers
  <2>1. timer_id \in [Entries -> -1 .. ht.max_size - 1]
    BY <1>2 DEF Typed
  <2>2. CASE f = e
    BY <1>1, <1>3, <1>9, <2>1, <2>2
  <2>3. CASE f # e
    <3>1. timer_id'[f] = timer_id[f]
      BY <1>1, <2>1, <2>3
    <3>2. timer_id[f] \in Scheduled /\ dups[timer_id[f]].entry = f
      BY <3>1 DEF HeapInv, OwnersFindTheirTimers
    <3> QED
      BY <1>1, <1>2, <1>3, <1>9, <3>1, <3>2
  <2> QED
    BY <2>2, <2>3
<1> QED
  BY <1>1, <1>2, <1>9, <1>11, <1>12, <1>13, <1>14 DEF HeapInv, new

\* A node that is removed leaves nothing behind that leads to it.
LEMMA RemoveInv ==
  ASSUME HeapInv, NEW slot \in DOMAIN ht.heap, Remove(slot), cb' = cb
  PROVE  HeapInv'
<1> DEFINE id == ht.heap[slot]
           owner == dups[id].entry
<1>1. /\ ht' = remove_node(ht, slot, value) /\ dups' = [dups EXCEPT ![id] = NoDup]
      /\ timer_id' = [timer_id EXCEPT ![owner] = -1]
  BY DEF Remove
<1>2. /\ Sound(ht) /\ Typed /\ Scheduled \subseteq AllIds
      /\ id \in Scheduled /\ owner \in Entries
      /\ Timed(Scheduled, value) /\ OrderedBy(ht, value)
      /\ \A i \in AllIds : value[i] = dups[i].value
  <2>1. Sound(ht) /\ Typed
    BY DEF HeapInv
  <2>2. id \in Scheduled
    BY DEF Scheduled, Range
  <2> QED
    BY <2>1, <2>2, InvFacts
<1> HIDE DEF id, owner
<1>3. Lost(ht', ht, id, value)
  <2>1. Timed(Range(ht.heap), value) /\ id = ht.heap[slot]
    BY <1>2 DEF Scheduled, id
  <2> QED
    BY <1>1, <1>2, <2>1, RemoveHeap, Zenon
<1>4. Sound(ht') /\ OrderedBy(ht', value) /\ ht.max_size = ht'.max_size
      /\ Scheduled' = Scheduled \ {id}
  BY <1>3 DEF Lost, Scheduled
<1>5. dups'[id] = NoDup /\ \A i \in AllIds : i # id => dups'[i] = dups[i]
  BY <1>1, <1>2 DEF Typed
<1>6. Typed'
  <2>1. NoDup \in [entry : Entries \cup {Nobody}, value : 0 .. Horizon]
    BY HeapAssumption DEF NoDup
  <2>2. timer_id \in [Entries -> -1 .. ht.max_size - 1] /\ -1 \in -1 .. ht.max_size - 1
    <3>1. ht.max_size \in Nat
      BY <1>2, SoundFacts
    <3> QED
      BY <1>2, <3>1 DEF Typed
  <2> QED
    BY <1>1, <1>2, <1>4, <2>1, <2>2 DEF Typed
<1>7. HeapOrdered'
  <2>1. \A x \in Range(ht'.heap) : value'[x] = value[x]
    <3>1. \A x \in Scheduled \ {id} : x \in AllIds /\ dups'[x] = dups[x]
      BY <1>2, <1>5
    <3>2. \A x \in AllIds : value'[x] = dups'[x].value
      BY DEF value
    <3> QED
      BY <1>2, <1>4, <3>1, <3>2 DEF Scheduled
  <2>2. OrderedBy(ht', value')
    BY <1>4, <2>1, OrderedAgain
  <2> QED
    BY <2>2 DEF HeapOrdered, OrderedBy
<1>8. Armed'
  BY <1>2, <1>4, <1>5 DEF HeapInv, Armed
<1>9. OwnersFindTheirTimers'
  <2> SUFFICES ASSUME NEW f \in Entries, timer_id'[f] >= 1
               PROVE  timer_id'[f] \in Scheduled' /\ dups'[timer_id'[f]].entry = f
    BY DEF OwnersFindTheirTimers
  <2>1. f # owner /\ timer_id'[f] = timer_id[f]
    BY <1>1, <1>2 DEF Typed
  <2>2. timer_id[f] \in Scheduled /\ dups[timer_id[f]].entry = f
    BY <2>1 DEF HeapInv, OwnersFindTheirTimers
  <2>3. timer_id[f] # id
    BY <2>1, <2>2 DEF owner
  <2> QED
    BY <1>2, <1>4, <1>5, <2>1, <2>2, <2>3
<1> QED
  BY <1>4, <1>6, <1>7, <1>8, <1>9 DEF HeapInv

\* An id that an entry holds finds the entry's own node: the branch of cancel
\* with the assertion is never taken.
LEMMA HolderFindsNode ==
  ASSUME HeapInv, NEW e \in Entries, InUse(e)
  PROVE  /\ ht.timer_ids[timer_id[e]] \in DOMAIN ht.heap
         /\ ht.heap[ht.timer_ids[timer_id[e]]] = timer_id[e]
         /\ timer_id[e] \in Scheduled /\ dups[timer_id[e]].entry = e
<1>1. timer_id[e] \in Scheduled /\ dups[timer_id[e]].entry = e
  BY DEF HeapInv, OwnersFindTheirTimers, InUse
<1>2. PICK j \in DOMAIN ht.heap : ht.heap[j] = timer_id[e]
  BY <1>1 DEF Scheduled, Range
<1>3. ht.timer_ids[timer_id[e]] = j
  <2>1. Placed(ht, CurSize(ht)) /\ DOMAIN ht.heap = 0 .. CurSize(ht) - 1
    BY SoundFacts DEF HeapInv
  <2> QED
    BY <1>2, <2>1 DEF Placed
<1> QED
  BY <1>1, <1>2, <1>3

\* Taking its id from an entry disturbs nothing else.
LEMMA ForgetInv ==
  ASSUME HeapInv, NEW e \in Entries, NEW none \in {-1, 0},
         timer_id' = [timer_id EXCEPT ![e] = none],
         cb' \in [Entries -> BOOLEAN], UNCHANGED <<ht, dups>>
  PROVE  HeapInv'
<1>1. ht.max_size \in Nat /\ ht.max_size >= 2 /\ Sound(ht')
  BY SoundFacts DEF HeapInv
<1>2. timer_id \in [Entries -> -1 .. ht.max_size - 1]
  BY DEF HeapInv, Typed
<1>3. none \in -1 .. ht.max_size - 1
  BY <1>1
<1>4. Typed'
  BY <1>2, <1>3 DEF HeapInv, Typed
<1>5. HeapOrdered' /\ Armed'
  BY DEF HeapInv, HeapOrdered, Armed, Scheduled, value
<1>6. OwnersFindTheirTimers'
  BY <1>2 DEF HeapInv, OwnersFindTheirTimers, Scheduled
<1> QED
  BY <1>1, <1>4, <1>5, <1>6 DEF HeapInv

LEMMA SameHeapInv ==
  ASSUME HeapInv, UNCHANGED <<ht, dups, timer_id, cb>>
  PROVE  HeapInv'
<1>1. Sound(ht') /\ Typed'
  BY DEF HeapInv, Typed
<1>2. HeapOrdered' /\ Armed' /\ OwnersFindTheirTimers'
  BY DEF HeapInv, HeapOrdered, Armed, OwnersFindTheirTimers, Scheduled, value
<1> QED
  BY <1>1, <1>2 DEF HeapInv

\* The callback is made for the root, which is the earliest node and is due.
LEMMA CallBackInv ==
  ASSUME HeapInv, NEW now \in Nat, now <= clock, clock \in Nat, clock >= 1,
         NEW count \in Nat, CallBack(now, count), UNCHANGED <<cb, clock>>
  PROVE  /\ HeapInv' /\ Polled' /\ 0 \in DOMAIN ht.heap
         /\ dups[ht.heap[0]].value <= now /\ poll'.count = count + 1
<1>1. Expired(now) /\ count < PerPoll /\ Remove(0)
      /\ poll' = [running |-> TRUE,
                  entry |-> IF cb[dups[ht.heap[0]].entry] THEN dups[ht.heap[0]].entry ELSE Nobody,
                  now |-> now, count |-> count + 1]
  BY DEF CallBack
<1>2. CurSize(ht) \in Nat /\ DOMAIN ht.heap = 0 .. CurSize(ht) - 1
  BY SoundFacts DEF HeapInv
<1>3. 0 \in DOMAIN ht.heap
  BY <1>1, <1>2 DEF Expired
<1>4. HeapInv'
  BY <1>1, <1>3, RemoveInv
<1>5. ht.heap[0] \in Scheduled /\ dups[ht.heap[0]].entry \in Entries
  BY <1>3, InvFacts DEF Scheduled, Range
<1>6. Polled'
  <2>1. count + 1 \in 0 .. PerPoll /\ count + 1 > 0
    BY <1>1, HeapAssumption
  <2> QED
    BY <1>1, <1>5, <2>1 DEF Polled
<1> QED
  BY <1>1, <1>3, <1>4, <1>6 DEF Expired

LEMMA SamePolled ==
  ASSUME Polled, UNCHANGED <<poll, clock>>
  PROVE  Polled'
BY DEF Polled

LEMMA NextInv == IInv /\ [Next]_vars => IInv'
<1> SUFFICES ASSUME IInv, [Next]_vars PROVE IInv'
  OBVIOUS
<1>0. HeapInv /\ Polled
  BY DEF IInv
<1>1. ASSUME NEW e \in Entries, NEW d \in Delays, Schedule(e, d) PROVE IInv'
  <2>1. clock \in Nat /\ UNCHANGED <<poll, clock>>
    BY <1>0, <1>1 DEF Polled, Schedule
  <2>2. HeapInv'
    BY <1>0, <1>1, <2>1, ScheduleInv
  <2> QED
    BY <1>0, <2>1, <2>2, SamePolled DEF IInv
<1>2. ASSUME NEW e \in Entries, Cancel(e) PROVE IInv'
  <2>1. UNCHANGED <<poll, clock, cb>>
    BY <1>2 DEF Cancel
  <2>2. cb \in [Entries -> BOOLEAN]
    BY <1>0 DEF HeapInv, Typed
  <2>3. CASE InUse(e)
    <3> DEFINE slot == ht.timer_ids[timer_id[e]]
    <3>1. slot \in DOMAIN ht.heap /\ dups[ht.heap[slot]].entry = e
      BY <1>0, <2>3, HolderFindsNode
    <3>2. Remove(slot)
      BY <1>2, <2>3, <3>1 DEF Cancel
    <3> HIDE DEF slot
    <3>3. HeapInv'
      BY <1>0, <2>1, <3>1, <3>2, RemoveInv
    <3> QED
      BY <1>0, <2>1, <3>3, SamePolled DEF IInv
  <2>4. CASE ~InUse(e)
    <3>1. timer_id' = [timer_id EXCEPT ![e] = -1] /\ UNCHANGED <<ht, dups>>
      BY <1>2, <2>4 DEF Cancel
    <3>2. HeapInv'
      BY <1>0, <2>1, <2>2, <3>1, ForgetInv
    <3> QED
      BY <1>0, <2>1, <3>2, SamePolled DEF IInv
  <2> QED
    BY <2>3, <2>4
<1>3. ASSUME NEW e \in Entries, Initialise(e) PROVE IInv'
  <2>1. /\ timer_id' = [timer_id EXCEPT ![e] = -1] /\ cb' = [cb EXCEPT ![e] = TRUE]
        /\ UNCHANGED <<ht, dups, poll, clock>>
    BY <1>3 DEF Initialise
  <2>2. cb' \in [Entries -> BOOLEAN]
    BY <1>0, <2>1 DEF HeapInv, Typed
  <2>3. HeapInv'
    BY <1>0, <2>1, <2>2, ForgetInv
  <2> QED
    BY <1>0, <2>1, <2>3, SamePolled DEF IInv
<1>4. ASSUME NEW e \in Entries, Wipe(e) PROVE IInv'
  <2>1. /\ timer_id' = [timer_id EXCEPT ![e] = 0] /\ cb' = [cb EXCEPT ![e] = FALSE]
        /\ UNCHANGED <<ht, dups, poll, clock>>
    BY <1>4 DEF Wipe
  <2>2. cb' \in [Entries -> BOOLEAN]
    BY <1>0, <2>1 DEF HeapInv, Typed
  <2>3. HeapInv'
    BY <1>0, <2>1, <2>2, ForgetInv
  <2> QED
    BY <1>0, <2>1, <2>3, SamePolled DEF IInv
<1>5. CASE OutOfMemory \/ UNCHANGED vars
  <2>1. UNCHANGED <<ht, dups, timer_id, cb, poll, clock>>
    BY <1>5 DEF OutOfMemory, vars
  <2> QED
    BY <1>0, <2>1, SameHeapInv, SamePolled DEF IInv
<1>6. CASE PollBegin
  <2>1. CallBack(clock, 0) /\ UNCHANGED <<cb, clock>> /\ clock \in Nat /\ clock >= 1 /\ clock <= clock
    BY <1>0, <1>6 DEF PollBegin, Polled
  <2> QED
    BY <1>0, <2>1, CallBackInv DEF IInv
<1>7. CASE PollNext
  <2>1. UNCHANGED <<cb, clock>> /\ clock \in Nat /\ clock >= 1
        /\ poll.now \in Nat /\ poll.count \in Nat /\ poll.now <= clock
    BY <1>0, <1>7 DEF PollNext, Polled
  <2>2. CASE CallBack(poll.now, poll.count)
    BY <1>0, <2>1, <2>2, CallBackInv DEF IInv
  <2>3. CASE poll' = NotPolling /\ UNCHANGED <<ht, dups, timer_id>>
    <3>1. HeapInv'
      BY <1>0, <2>1, <2>3, SameHeapInv
    <3>2. Polled'
      BY <2>1, <2>3, HeapAssumption DEF Polled, NotPolling
    <3> QED
      BY <3>1, <3>2 DEF IInv
  <2> QED
    BY <1>7, <2>2, <2>3 DEF PollNext
<1>8. CASE Tick
  <2>1. UNCHANGED <<ht, dups, timer_id, cb, poll>> /\ clock' = clock + 1
    BY <1>8 DEF Tick
  <2>2. Polled'
    BY <1>0, <2>1 DEF Polled
  <2> QED
    BY <1>0, <2>1, <2>2, SameHeapInv DEF IInv
<1> QED
  BY <1>1, <1>2, <1>3, <1>4, <1>5, <1>6, <1>7, <1>8 DEF Next

\* The inductive invariant of the heap.
THEOREM Invariant == Spec => []IInv
BY InitInv, NextInv, PTL DEF Spec

-----------------------------------------------------------------------------
(* The properties *)

\* The heap has the type it should: the ids in its array are those of its table,
\* and an entry holds an id of the table or none.
THEOREM HeapTypes == Spec => []HeapTypeOK
<1>1. IInv => HeapTypeOK
  <2> SUFFICES ASSUME IInv PROVE HeapTypeOK
    OBVIOUS
  <2>1. Sound(ht) /\ Typed /\ Polled
    BY DEF IInv, HeapInv
  <2>2. /\ ht.max_size \in InitSize .. MaxSize /\ ht.max_size \in Nat
        /\ DOMAIN ht.heap = 0 .. CurSize(ht) - 1 /\ Scheduled \subseteq 1 .. ht.max_size - 1
        /\ DOMAIN ht.timer_ids = 0 .. ht.max_size - 1
    BY <2>1, SoundFacts DEF Sound, Scheduled, Placed
  <2>3. ht.freelist \in 1 .. ht.max_size
    BY <2>1, <2>2, FreeIdLeft
  <2> QED
    BY <2>1, <2>2, <2>3 DEF HeapTypeOK, Typed, Polled
<1> QED
  BY <1>1, Invariant, PTL

\* Whenever pj_timer_heap_schedule pops the freelist there is an id on it, and
\* room in the array for the node: grow_heap has been called in time.
THEOREM RoomLeft == Spec => []RoomForOneMore
<1>1. IInv => RoomForOneMore
  <2> SUFFICES ASSUME Sound(ht) PROVE RoomForOneMore
    BY DEF IInv, HeapInv
  <2> QED
    BY SoundFacts, FreeIdLeft DEF RoomForOneMore
<1> QED
  BY <1>1, Invariant, PTL

\* reheap_up and reheap_down keep every node no earlier than its parent,
\* whichever node remove_node takes away.
THEOREM Ordered == Spec => []HeapOrdered
<1>1. IInv => HeapOrdered
  BY DEF IInv, HeapInv
<1> QED
  BY <1>1, Invariant, PTL

\* copy_node keeps the table: it leads from an id in the heap to its slot and
\* back, and marks every other id as free.
THEOREM TableTrue == Spec => []TableFindsNodes
<1>1. IInv => TableFindsNodes
  <2> SUFFICES ASSUME Sound(ht), NEW id \in 1 .. ht.max_size - 1
               PROVE  IF id \in Scheduled
                      THEN ht.timer_ids[id] \in DOMAIN ht.heap /\ ht.heap[ht.timer_ids[id]] = id
                      ELSE ht.timer_ids[id] < 0
    BY DEF IInv, HeapInv, TableFindsNodes
  <2>1. CASE id \in Scheduled
    <3>1. PICK j \in DOMAIN ht.heap : ht.heap[j] = id
      BY <2>1 DEF Scheduled, Range
    <3>2. Placed(ht, CurSize(ht)) /\ DOMAIN ht.heap = 0 .. CurSize(ht) - 1
      BY SoundFacts
    <3> QED
      BY <2>1, <3>1, <3>2 DEF Placed
  <2>2. CASE id \notin Scheduled
    <3>1. id \in Free(ht) /\ Free(ht) \subseteq 1 .. ht.max_size - 1 /\ Chain(ht, Free(ht))
      BY <2>2 DEF Free, Scheduled, Sound
    <3>2. ht.max_size \in Nat /\ ht.max_size > 0
      BY SoundFacts
    <3> QED
      BY <2>2, <3>1, <3>2, ChainLinks
  <2> QED
    BY <2>1, <2>2
<1> QED
  BY <1>1, Invariant, PTL

\* push_freelist, pop_freelist and grow_heap keep the freelist running once
\* through every id that is not in the heap.
THEOREM FreelistComplete == Spec => []FreelistIsTheRest
<1>1. IInv => FreelistIsTheRest
  <2> SUFFICES ASSUME Sound(ht) PROVE FreelistIsTheRest
    BY DEF IInv, HeapInv
  <2>1. Free(ht) \subseteq 1 .. ht.max_size - 1 /\ Chain(ht, Free(ht))
        /\ Free(ht) = (1 .. ht.max_size - 1) \ Scheduled
    BY DEF Free, Scheduled, Sound
  <2>2. ht.max_size \in Nat /\ ht.max_size > 0
    BY SoundFacts
  <2>3. /\ {-ht.timer_ids[x] : x \in Free(ht)} \cup {ht.freelist} = Free(ht) \cup {ht.max_size}
        /\ \A x, y \in Free(ht) : -ht.timer_ids[x] = -ht.timer_ids[y] => x = y
    BY <2>1, <2>2, ChainLinks
  <2> QED
    BY <2>1, <2>3 DEF FreelistIsTheRest
<1> QED
  BY <1>1, Invariant, PTL

\* The id an owner holds leads to the owner's own timer, although ids are used
\* again and owners wipe entries that are scheduled.
THEOREM OwnersFind == Spec => []OwnersFindTheirTimers
<1>1. IInv => OwnersFindTheirTimers
  BY DEF IInv, HeapInv
<1> QED
  BY <1>1, Invariant, PTL

-----------------------------------------------------------------------------
(* The heap implements the promise *)

LEMMA InitService == Init => Service!Init
<1> SUFFICES ASSUME Init PROVE Service!Init
  OBVIOUS
<1>1. \A i \in AllIds : dups[i] = NoDup
  BY DEF Init
<1>2. [i \in AllIds |-> dups[i].entry] = [t \in AllIds |-> Nobody]
      /\ value = [t \in AllIds |-> 0]
  BY <1>1 DEF NoDup, value
<1> QED
  BY <1>2 DEF Init, NotPolling, Service!Init

\* What TimerService sees of dups: the entry armed under each id.
Arming == [i \in AllIds |-> dups[i].entry]

\* The array of armed entries and that of times after one id has changed.
LEMMA DupsChange ==
  ASSUME HeapInv, NEW id \in AllIds, NEW dup, dups' = [dups EXCEPT ![id] = dup]
  PROVE  /\ Arming' = [Arming EXCEPT ![id] = dup.entry]
         /\ value' = [value EXCEPT ![id] = dup.value]
<1>1. \A i \in AllIds : dups'[i] = IF i = id THEN dup ELSE dups[i]
  BY DEF HeapInv, Typed
<1>2. Arming' = [i \in AllIds |-> dups'[i].entry] /\ value' = [i \in AllIds |-> dups'[i].value]
  BY DEF Arming, value
<1>3. [i \in AllIds |-> dups'[i].entry] = [Arming EXCEPT ![id] = dup.entry]
  <2>1. \A i \in AllIds : dups'[i].entry = IF i = id THEN dup.entry ELSE Arming[i]
    BY <1>1 DEF Arming
  <2>2. DOMAIN Arming = AllIds
    BY DEF Arming
  <2> QED
    BY <2>1, <2>2
<1>4. [i \in AllIds |-> dups'[i].value] = [value EXCEPT ![id] = dup.value]
  <2>1. \A i \in AllIds : dups'[i].value = IF i = id THEN dup.value ELSE value[i]
    BY <1>1 DEF value
  <2>2. DOMAIN value = AllIds
    BY DEF value
  <2> QED
    BY <2>1, <2>2
<1> QED
  BY <1>2, <1>3, <1>4

LEMMA RemoveDisarms ==
  ASSUME HeapInv, NEW slot \in DOMAIN ht.heap, Remove(slot), clock' = clock,
         NEW id \in AllIds, id = ht.heap[slot]
  PROVE  Service!Disarm(id)
<1>1. dups' = [dups EXCEPT ![id] = NoDup] /\ timer_id' = [timer_id EXCEPT ![dups[id].entry] = -1]
  BY DEF Remove
<1>2. /\ Arming' = [Arming EXCEPT ![id] = NoDup.entry]
      /\ value' = [value EXCEPT ![id] = NoDup.value]
  BY <1>1, DupsChange
<1>3. NoDup.entry = Nobody /\ NoDup.value = 0
  BY DEF NoDup
<1>4. Arming' = [Arming EXCEPT ![id] = Nobody] /\ value' = [value EXCEPT ![id] = 0]
  BY <1>2, <1>3
<1>5. timer_id' = [timer_id EXCEPT ![Arming[id]] = -1]
  BY <1>1 DEF Arming
<1> QED
  BY <1>4, <1>5 DEF Service!Disarm, Arming

LEMMA CallBackExpires ==
  ASSUME HeapInv, NEW now \in Nat, now <= clock, clock \in Nat, clock >= 1,
         poll.count \in Nat, CallBack(now, poll.count), UNCHANGED <<cb, clock>>
  PROVE  \E t \in AllIds : Service!Expire(t)
<1>1. 0 \in DOMAIN ht.heap /\ dups[ht.heap[0]].value <= now /\ poll'.count = poll.count + 1
  BY CallBackInv
<1>2. ht.heap[0] \in Scheduled /\ ht.heap[0] \in AllIds
  BY <1>1, InvFacts DEF Scheduled, Range
<1>3. PICK id \in AllIds : id = ht.heap[0]
  BY <1>2
<1>4. 0 \in DOMAIN ht.heap /\ dups[id].value <= now /\ poll'.count = poll.count + 1
  BY <1>1, <1>3
<1>5. id \in Scheduled /\ id \in AllIds /\ dups[id].entry \in Entries
  BY <1>2, <1>3, InvFacts
<1>6. Service!Disarm(id)
  <2>1. Remove(0) /\ clock' = clock
    BY DEF CallBack
  <2> QED
    BY <1>4, <1>3, <2>1, RemoveDisarms
<1>7. \A u \in AllIds : dups[u].entry # Nobody => value[id] <= value[u]
  <2> SUFFICES ASSUME NEW u \in AllIds, dups[u].entry # Nobody PROVE value[id] <= value[u]
    OBVIOUS
  <2>1. u \in Scheduled
    BY DEF HeapInv, Armed, NoDup
  <2>2. Sound(ht) /\ Timed(Range(ht.heap), value) /\ OrderedBy(ht, value) /\ u \in Range(ht.heap)
    BY <2>1, InvFacts DEF HeapInv, Scheduled
  <2> QED
    BY <1>3, <2>2, RootFirst
<1>8. dups[id].entry # Nobody
  BY <1>5, HeapAssumption
<1>9. value[id] <= clock
  BY <1>4, <1>5, InvFacts
<1>10. Service!Expire(id)
  BY <1>4, <1>5, <1>6, <1>7, <1>8, <1>9 DEF Service!Expire, Service!Earliest
<1> QED
  BY <1>5, <1>10

LEMMA NextService == IInv /\ [Next]_vars => [Service!Next]_(Service!service)
<1> SUFFICES ASSUME IInv, [Next]_vars PROVE Service!Next \/ UNCHANGED Service!service
  OBVIOUS
<1>0. HeapInv /\ Polled
  BY DEF IInv
<1>1. ASSUME NEW e \in Entries, NEW d \in Delays, Schedule(e, d) PROVE Service!Next
  <2> DEFINE t == ht.freelist
             dup == [entry |-> e, value |-> clock + d]
  <2>1. clock \in Nat /\ UNCHANGED <<poll, clock>> /\ timer_id[e] < 1
    BY <1>0, <1>1 DEF Polled, Schedule
  <2>2. t \in AllIds \ Scheduled /\ dups' = [dups EXCEPT ![t] = dup]
        /\ timer_id' = [timer_id EXCEPT ![e] = t]
    BY <1>0, <1>1, <2>1, ScheduleInv
  <2>3. dups[t].entry = Nobody
    BY <1>0, <2>2 DEF HeapInv, Armed, NoDup
  <2> HIDE DEF t, dup
  <2>4. /\ Arming' = [Arming EXCEPT ![t] = dup.entry]
        /\ value' = [value EXCEPT ![t] = dup.value]
    BY <1>0, <2>2, DupsChange
  <2>5. dup.entry = e /\ dup.value = clock + d
    BY DEF dup
  <2>6. Service!Arm(e)
    BY <2>1, <2>2, <2>3, <2>4, <2>5 DEF Service!Arm, Arming
  <2> QED
    BY <2>6 DEF Service!Next
<1>2. ASSUME NEW e \in Entries, Cancel(e) PROVE Service!Next
  <2>1. UNCHANGED <<poll, clock, cb>>
    BY <1>2 DEF Cancel
  <2>2. CASE InUse(e)
    <3> DEFINE slot == ht.timer_ids[timer_id[e]]
    <3>1. /\ slot \in DOMAIN ht.heap /\ ht.heap[slot] = timer_id[e]
          /\ timer_id[e] \in AllIds /\ dups[timer_id[e]].entry = e
      BY <1>0, <2>2, HolderFindsNode, InvFacts
    <3>2. Remove(slot)
      BY <1>2, <2>2, <3>1 DEF Cancel
    <3> HIDE DEF slot
    <3>3. HeapInv /\ slot \in DOMAIN ht.heap /\ Remove(slot) /\ clock' = clock
      BY <1>0, <2>1, <3>1, <3>2
    <3>4. PICK id \in AllIds : id = ht.heap[slot] /\ id = timer_id[e]
      BY <3>1
    <3>5. Service!Disarm(id)
      BY <3>3, <3>4, RemoveDisarms
    <3>6. Service!Cancel(e)
      BY <2>1, <3>1, <3>4, <3>5 DEF Service!Cancel, Service!Disarm
    <3> QED
      BY <3>6 DEF Service!Next
  <2>3. CASE ~InUse(e)
    <3>1. timer_id' = [timer_id EXCEPT ![e] = -1] /\ UNCHANGED <<ht, dups>>
      BY <1>2, <2>3 DEF Cancel
    <3>2. Service!Forget(e)
      BY <2>1, <3>1 DEF Service!Forget, value
    <3> QED
      BY <3>2 DEF Service!Next
  <2> QED
    BY <2>2, <2>3
<1>3. ASSUME NEW e \in Entries, Initialise(e) \/ Wipe(e) PROVE Service!Next
  <2>1. (\E none \in {-1, 0} : timer_id' = [timer_id EXCEPT ![e] = none])
        /\ UNCHANGED <<dups, poll, clock>>
    BY <1>3 DEF Initialise, Wipe
  <2>2. Service!Forget(e)
    BY <2>1 DEF Service!Forget, value
  <2> QED
    BY <2>2 DEF Service!Next
<1>4. CASE OutOfMemory \/ UNCHANGED vars
  <2>1. UNCHANGED <<dups, timer_id, poll, clock>>
    BY <1>4 DEF OutOfMemory, vars
  <2>2. UNCHANGED Service!service
    BY <2>1 DEF Service!service, value
  <2> QED
    BY <2>2
<1>5. CASE PollBegin
  <2>1. CallBack(clock, 0) /\ UNCHANGED <<cb, clock>> /\ clock \in Nat /\ clock >= 1 /\ clock <= clock
    BY <1>0, <1>5 DEF PollBegin, Polled
  <2>2. poll.count = 0
    BY <1>0, <1>5 DEF PollBegin, Polled
  <2>3. \E t \in AllIds : Service!Expire(t)
    BY <1>0, <2>1, <2>2, CallBackExpires
  <2> QED
    BY <2>3 DEF Service!Next
<1>6. CASE PollNext
  <2>1. UNCHANGED <<cb, clock>> /\ clock \in Nat /\ clock >= 1
        /\ poll.now \in Nat /\ poll.count \in Nat /\ poll.now <= clock /\ poll.count > 0
    BY <1>0, <1>6 DEF PollNext, Polled
  <2>2. CASE CallBack(poll.now, poll.count)
    <3>1. \E t \in AllIds : Service!Expire(t)
      BY <1>0, <2>1, <2>2, CallBackExpires
    <3> QED
      BY <3>1 DEF Service!Next
  <2>3. CASE poll' = NotPolling /\ UNCHANGED <<ht, dups, timer_id>>
    <3>1. Service!PollEnd
      BY <2>1, <2>3 DEF Service!PollEnd, NotPolling, value
    <3> QED
      BY <3>1 DEF Service!Next
  <2> QED
    BY <1>6, <2>2, <2>3 DEF PollNext
<1>7. CASE Tick
  <2>1. Service!Tick
    BY <1>7 DEF Tick, Service!Tick, value
  <2> QED
    BY <2>1 DEF Service!Next
<1> QED
  BY <1>1, <1>2, <1>3, <1>4, <1>5, <1>6, <1>7 DEF Next

\* The timer heap keeps what TimerService promises: what expires is due and is
\* the earliest of all that are armed, and a cancelled timer never expires.
THEOREM HeapKeepsService == Spec => KeepsService
BY InitService, NextService, Invariant, PTL DEF Spec, KeepsService, Service!Spec
=============================================================================
