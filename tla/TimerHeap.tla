------------------------------ MODULE TimerHeap ------------------------------
(***************************************************************************)
(* The timer heap of pjlib, as the SIP endpoint that the auto-answerer     *)
(* runs on uses it: a binary heap of timer ids ordered by expiry time, a   *)
(* table that leads from an id to its slot, and a freelist threaded        *)
(* through the unused part of that table (timer.c, built with              *)
(* PJ_TIMER_USE_COPY and without PJ_TIMER_USE_LINKED_LIST).                *)
(*                                                                         *)
(* Every operation runs under the heap's lock; the poll lets go of it      *)
(* around each callback, and any thread or the callback itself may then    *)
(* schedule and cancel.                                                    *)
(***************************************************************************)
EXTENDS Integers, FiniteSets, Functions

CONSTANTS
  Entries,    \* the timer entries of all users
  InitSize,   \* the size asked of pj_timer_heap_create, plus two
  MaxSize,    \* bound: the heap does not grow beyond this
  Delays,     \* delays that users schedule with
  Horizon,    \* bound: the clock stops here
  Quota,      \* bound: how many timers are ever scheduled
  PerPoll,    \* max_entries_per_poll
  Careless,   \* may an owner wipe an entry that is scheduled?
  Nobody      \* no entry

ASSUME HeapAssumption ==
  /\ InitSize \in Nat /\ InitSize >= 2 /\ MaxSize \in Nat /\ InitSize <= MaxSize
  /\ Delays \subseteq Nat /\ Horizon \in Nat /\ Quota \in Nat /\ PerPoll \in Nat \ {0}
  /\ Careless \in BOOLEAN /\ Nobody \notin Entries

VARIABLES
  ht,         \* pj_timer_heap_t: max_size, heap, timer_ids, timer_ids_freelist
  dups,       \* timer_dups: id -> entry and _timer_value of what is in the heap
  timer_id,   \* entry -> _timer_id
  cb,         \* entry -> cb is set
  clock,      \* pj_gettickcount
  poll,       \* pj_timer_heap_poll: now and count, and the entry called back
  quota,      \* what is left of Quota
  crashed     \* why the process died, or "no"

vars == <<ht, dups, timer_id, cb, clock, poll, quota, crashed>>

NoDup == [entry |-> Nobody, value |-> 0]
AllIds == 1 .. MaxSize - 1

CurSize(h) == Cardinality(DOMAIN h.heap)
Scheduled == Range(ht.heap)

NotPolling == [running |-> FALSE, entry |-> Nobody, now |-> 0, count |-> 0]
Live == crashed = "no"

-----------------------------------------------------------------------------
(* The array *)

HEAP_PARENT(s) == IF s = 0 THEN 0 ELSE (s - 1) \div 2
HEAP_LEFT(s) == s + s + 1

\* The array with id in a slot of it, or in the one behind its end.
With(heap, slot, id) ==
  [s \in DOMAIN heap \cup {slot} |-> IF s = slot THEN id ELSE heap[s]]

\* Mutant of copy_node: the table keeps the old slot.
copy_node_only(h, slot, id) == [h EXCEPT !.heap = With(@, slot, id)]

copy_node(h, slot, id) ==
  [h EXCEPT !.heap = With(@, slot, id), !.timer_ids[id] = slot]

push_freelist(h, id) == [h EXCEPT !.timer_ids[id] = -h.freelist, !.freelist = id]

\* Mutant of pop_freelist: the sign is forgotten.
pop_freelist_raw(h) == [h EXCEPT !.freelist = h.timer_ids[h.freelist]]

\* Links of the freelist are negative, slots of the heap are not.
pop_freelist(h) == [h EXCEPT !.freelist = -h.timer_ids[h.freelist]]

\* Node id goes up from slot past every ancestor that is later.
reheap_up(h, id, slot, due) ==
  LET up[s \in 0 .. slot] ==
        LET p == HEAP_PARENT(s) IN
          IF s > 0 /\ due[id] < due[h.heap[p]]
          THEN copy_node(up[p], s, h.heap[p])
          ELSE copy_node(h, s, id)
  IN up[slot]

\* Mutant of reheap_down: only the left child is looked at.
reheap_down_left(h, id, slot, due) ==
  LET size == CurSize(h)
      down[s \in 0 .. size] ==
        IF HEAP_LEFT(s) < size /\ due[h.heap[HEAP_LEFT(s)]] < due[id]
        THEN copy_node(down[HEAP_LEFT(s)], s, h.heap[HEAP_LEFT(s)])
        ELSE copy_node(h, s, id)
  IN down[slot]

\* Node id goes down from slot past the earlier of two children, as long as
\* that one is earlier than the node.
reheap_down(h, id, slot, due) ==
  LET size == CurSize(h)
      child(s) == LET l == HEAP_LEFT(s) IN
        IF l + 1 < size /\ due[h.heap[l + 1]] < due[h.heap[l]] THEN l + 1 ELSE l
      down[s \in 0 .. size] ==
        IF HEAP_LEFT(s) < size /\ due[h.heap[child(s)]] < due[id]
        THEN copy_node(down[child(s)], s, h.heap[child(s)])
        ELSE copy_node(h, s, id)
  IN down[slot]

\* Mutant of remove_node: the node that fills the gap only moves down.
remove_node_down(h, slot, due) ==
  LET last    == CurSize(h) - 1
      moved   == h.heap[last]
      shorter == [push_freelist(h, h.heap[slot]) EXCEPT !.heap = Restrict(@, 0 .. last - 1)]
  IN IF slot = last THEN shorter ELSE reheap_down(copy_node(shorter, slot, moved), moved, slot, due)

\* The last node takes the place of the removed one, and moves down or up.
remove_node(h, slot, due) ==
  LET last    == CurSize(h) - 1
      moved   == h.heap[last]
      shorter == [push_freelist(h, h.heap[slot]) EXCEPT !.heap = Restrict(@, 0 .. last - 1)]
      filled  == copy_node(shorter, slot, moved)
  IN CASE slot = last -> shorter
       [] slot < last /\ due[moved] >= due[filled.heap[HEAP_PARENT(slot)]]
            -> reheap_down(filled, moved, slot, due)
       [] OTHER -> reheap_up(filled, moved, slot, due)

-----------------------------------------------------------------------------
(* Scheduling and cancelling *)

\* Mutant of grow_heap: the first new id is left out of the freelist.
grow_heap_short(h) ==
  [h EXCEPT !.max_size = 2 * @,
            !.timer_ids = [i \in 0 .. 2 * h.max_size - 1 |->
                             IF i < h.max_size THEN h.timer_ids[i] ELSE -(i + 2)]]

\* Every array doubles, and the new ids end the freelist.
grow_heap(h) ==
  [h EXCEPT !.max_size = 2 * @,
            !.timer_ids = [i \in 0 .. 2 * h.max_size - 1 |->
                             IF i < h.max_size THEN h.timer_ids[i] ELSE -(i + 1)]]

\* The id is taken before insert_node looks whether the heap must grow.
FullLate == CurSize(ht) + 1 >= ht.max_size  \* mutant of Full
Full == CurSize(ht) + 2 >= ht.max_size

\* Mutant of insert_node: the node stays where it is put.
insert_node_unsorted(h, id, values) == copy_node(h, CurSize(h), id)
insert_node(h, id, values) == reheap_up(h, id, CurSize(h), values)

\* pj_timer_heap_schedule.  An entry that is running is refused, and one without
\* a callback never comes here.
Schedule(e, delay) ==
  /\ cb[e] /\ timer_id[e] < 1
  /\ clock + delay <= Horizon /\ quota > 0 /\ quota' = quota - 1
  /\ Full => 2 * ht.max_size <= MaxSize
  /\ LET id   == ht.freelist
         h    == IF Full THEN grow_heap(pop_freelist(ht)) ELSE pop_freelist(ht)
         new  == [dups EXCEPT ![id] = [entry |-> e, value |-> clock + delay]]
     IN /\ ht' = insert_node(h, id, [i \in AllIds |-> new[i].value])
        /\ dups' = new
        /\ timer_id' = [timer_id EXCEPT ![e] = id]
  /\ UNCHANGED <<cb, clock, poll, crashed>>

\* The pool of the endpoint throws when it cannot grow, and nobody catches.
OutOfMemory ==
  /\ \E e \in Entries : cb[e] /\ timer_id[e] < 1
  /\ Full
  /\ crashed' = "no_memory"
  /\ UNCHANGED <<ht, dups, timer_id, cb, clock, poll, quota>>

value == [i \in AllIds |-> dups[i].value]

\* Mutant of Remove: the entry is not told.
RemoveSilently(slot) ==
  LET id == ht.heap[slot] IN
  /\ ht' = remove_node(ht, slot, value)
  /\ dups' = [dups EXCEPT ![id] = NoDup]
  /\ UNCHANGED timer_id

\* A node leaves the heap; its entry is told.  (The copy keeps its old contents,
\* which nobody looks at before the id is used again.)
Remove(slot) ==
  LET id == ht.heap[slot] IN
  /\ ht' = remove_node(ht, slot, value)
  /\ dups' = [dups EXCEPT ![id] = NoDup]
  /\ timer_id' = [timer_id EXCEPT ![dups[id].entry] = -1]

\* cancel: the id is in range and not on the freelist.
InUse(e) ==
  timer_id[e] >= 1 /\ timer_id[e] < ht.max_size /\ ht.timer_ids[timer_id[e]] >= 0

\* pj_timer_heap_cancel, of an entry that is not marked as stopped already.
Cancel(e) ==
  /\ timer_id[e] # -1
  /\ IF InUse(e)
     THEN LET slot == ht.timer_ids[timer_id[e]] IN
            IF dups[ht.heap[slot]].entry = e
            THEN Remove(slot) /\ UNCHANGED crashed
            ELSE /\ timer_id' = [timer_id EXCEPT ![e] = -1]
                 /\ crashed' \in {crashed, "assert"} /\ UNCHANGED <<ht, dups>>
     ELSE timer_id' = [timer_id EXCEPT ![e] = -1] /\ UNCHANGED <<ht, dups, crashed>>
  /\ UNCHANGED <<cb, clock, poll, quota>>

\* pj_timer_entry_init, of an entry that was wiped or never used.
Initialise(e) ==
  /\ timer_id[e] < 1 /\ ~cb[e]
  /\ timer_id' = [timer_id EXCEPT ![e] = -1] /\ cb' = [cb EXCEPT ![e] = TRUE]
  /\ UNCHANGED <<ht, dups, clock, poll, quota, crashed>>

\* call_data_release of uas.c: the entry is zeroed, scheduled or not.
Wipe(e) ==
  /\ Careless
  /\ timer_id' = [timer_id EXCEPT ![e] = 0] /\ cb' = [cb EXCEPT ![e] = FALSE]
  /\ UNCHANGED <<ht, dups, clock, poll, quota, crashed>>

-----------------------------------------------------------------------------
(* pj_timer_heap_poll *)

\* Mutant of Expired: a root whose owner has wiped it is not taken out.
ExpiredUnlessWiped(now) ==
  CurSize(ht) > 0 /\ dups[ht.heap[0]].value <= now /\ cb[dups[ht.heap[0]].entry]

Expired(now) == CurSize(ht) > 0 /\ dups[ht.heap[0]].value <= now

\* The root is removed and, if its owner has not wiped it, called back.
CallBack(now, count) ==
  LET e == dups[ht.heap[0]].entry IN
  /\ Expired(now) /\ count < PerPoll
  /\ Remove(0)
  /\ poll' = [running |-> TRUE, entry |-> IF cb[e] THEN e ELSE Nobody,
              now |-> now, count |-> count + 1]

PollBegin == ~poll.running /\ CallBack(clock, 0) /\ UNCHANGED <<cb, clock, quota, crashed>>

\* The callback has returned: the next expired timer, or the end.
PollNext ==
  /\ poll.running
  /\ \/ CallBack(poll.now, poll.count)
     \/ /\ ~(Expired(poll.now) /\ poll.count < PerPoll)
        /\ poll' = NotPolling /\ UNCHANGED <<ht, dups, timer_id>>
  /\ UNCHANGED <<cb, clock, quota, crashed>>

Tick ==
  /\ clock < Horizon /\ clock' = clock + 1
  /\ UNCHANGED <<ht, dups, timer_id, cb, poll, quota, crashed>>

-----------------------------------------------------------------------------
\* pj_timer_heap_create
Init ==
  /\ ht = [max_size |-> InitSize, heap |-> <<>>, freelist |-> 1,
           timer_ids |-> [i \in 0 .. InitSize - 1 |-> -(i + 1)]]
  /\ dups = [i \in AllIds |-> NoDup]
  /\ timer_id = [e \in Entries |-> -1]
  /\ cb = [e \in Entries |-> ~Careless]
  /\ clock = 1
  /\ poll = NotPolling
  /\ quota = Quota
  /\ crashed = "no"

Next ==
  /\ Live
  /\ \/ \E e \in Entries, d \in Delays : Schedule(e, d)
     \/ \E e \in Entries : Cancel(e) \/ Initialise(e) \/ Wipe(e)
     \/ OutOfMemory \/ PollBegin \/ PollNext \/ Tick

Spec == Init /\ [][Next]_vars

\* The worker polls again and again, and no callback blocks.
FairSpec == Spec /\ WF_vars(Live /\ (PollBegin \/ PollNext))

-----------------------------------------------------------------------------
(* What the code promises *)

HeapTypeOK ==
  /\ ht.max_size \in InitSize .. MaxSize
  /\ DOMAIN ht.heap = 0 .. CurSize(ht) - 1 /\ Scheduled \subseteq 1 .. ht.max_size - 1
  /\ DOMAIN ht.timer_ids = 0 .. ht.max_size - 1
  /\ ht.freelist \in 1 .. ht.max_size
  /\ dups \in [AllIds -> [entry : Entries \cup {Nobody}, value : 0 .. Horizon]]
  /\ timer_id \in [Entries -> -1 .. ht.max_size - 1] /\ cb \in [Entries -> BOOLEAN]
  /\ poll.entry \in Entries \cup {Nobody} /\ poll.count \in 0 .. PerPoll

\* The next free id is one of the table whenever it is needed: the heap grows
\* one node before the freelist runs off the table's end.
RoomForOneMore == CurSize(ht) + 2 <= ht.max_size /\ ht.freelist < ht.max_size

\* No node is earlier than its parent, whichever node was removed: the root is
\* the next to expire.
HeapOrdered ==
  \A s \in DOMAIN ht.heap : value[ht.heap[HEAP_PARENT(s)]] <= value[ht.heap[s]]

\* The table leads from each id in the heap to its slot and back.
TableFindsNodes ==
  \A id \in 1 .. ht.max_size - 1 :
    IF id \in Scheduled
    THEN ht.timer_ids[id] \in DOMAIN ht.heap /\ ht.heap[ht.timer_ids[id]] = id
    ELSE ht.timer_ids[id] < 0

\* The freelist runs once through every id that is not in the heap, so no id is
\* lost or handed out twice, and ends where growth will continue it.
FreelistIsTheRest ==
  LET rest == (1 .. ht.max_size - 1) \ Scheduled
      after(id) == -ht.timer_ids[id]
  IN /\ {after(id) : id \in rest} \cup {ht.freelist} = rest \cup {ht.max_size}
     /\ \A i, j \in rest : after(i) = after(j) => i = j

\* An id that an owner holds and has not wiped leads to the owner's own timer,
\* so the assertion in cancel never fails.
OwnersFindTheirTimers ==
  \A e \in Entries : timer_id[e] >= 1 => timer_id[e] \in Scheduled /\ dups[timer_id[e]].entry = e

\* The heap keeps what TimerService promises, however entries are wiped.
Service == INSTANCE TimerService WITH
  Ids <- AllIds,
  armed <- [i \in AllIds |-> dups[i].entry],
  due <- value,
  handle <- timer_id,
  calls <- poll.count

KeepsService == Service!Spec

\* What is due expires or is cancelled, although a poll stops after PerPoll
\* callbacks and callbacks may schedule again.
DueTimersExpire ==
  \A i \in AllIds : (dups[i].entry # Nobody /\ dups[i].value <= clock)
                     ~> (~Live \/ dups[i].entry = Nobody)
=============================================================================
