---------------------------- MODULE TimerService ----------------------------
(***************************************************************************)
(* What the users of a timer heap are promised, with no heap in sight.     *)
(*                                                                         *)
(* An entry is armed under an id for a time.  Only what is due expires,    *)
(* the earliest first, and a cancelled timer is gone, unless its owner has *)
(* wiped the entry and with it the id that leads to the timer.             *)
(***************************************************************************)
EXTENDS Integers

CONSTANTS
  Entries,   \* the timer entries of all users
  Ids,       \* timer ids
  Delays,    \* delays that timers are scheduled with
  Nobody     \* no entry

VARIABLES
  armed,     \* id -> the entry armed under it, or Nobody
  due,       \* id -> when it expires, 0 for a free id
  handle,    \* entry -> the id its owner holds, or less than 1
  clock,
  calls      \* callbacks made since the poll began, 0 between polls

service == <<armed, due, handle, clock, calls>>

\* The time 0 is past: nothing is scheduled for it.
Init ==
  /\ armed = [t \in Ids |-> Nobody]
  /\ due = [t \in Ids |-> 0]
  /\ handle = [e \in Entries |-> -1]
  /\ clock = 1
  /\ calls = 0

Tick == clock' = clock + 1 /\ UNCHANGED <<armed, due, handle, calls>>

Arm(e) ==
  \E t \in Ids, d \in Delays :
    /\ handle[e] < 1 /\ armed[t] = Nobody
    /\ armed' = [armed EXCEPT ![t] = e]
    /\ due' = [due EXCEPT ![t] = clock + d]
    /\ handle' = [handle EXCEPT ![e] = t]
    /\ UNCHANGED <<clock, calls>>

Disarm(t) ==
  /\ armed' = [armed EXCEPT ![t] = Nobody]
  /\ due' = [due EXCEPT ![t] = 0]
  /\ handle' = [handle EXCEPT ![armed[t]] = -1]
  /\ UNCHANGED clock

Cancel(e) ==
  handle[e] \in Ids /\ armed[handle[e]] = e /\ Disarm(handle[e]) /\ UNCHANGED calls

Earliest(t) == armed[t] # Nobody /\ \A u \in Ids : armed[u] # Nobody => due[t] <= due[u]

\* The callback of an expired timer is made.
Expire(t) == Earliest(t) /\ due[t] <= clock /\ Disarm(t) /\ calls' = calls + 1

PollEnd == calls > 0 /\ calls' = 0 /\ UNCHANGED <<armed, due, handle, clock>>

\* The owner gives up its id, armed or not; one that is wiped reads 0.
Forget(e) ==
  /\ \E none \in {-1, 0} : handle' = [handle EXCEPT ![e] = none]
  /\ UNCHANGED <<armed, due, clock, calls>>

Next ==
  \/ Tick \/ PollEnd
  \/ \E e \in Entries : Arm(e) \/ Cancel(e) \/ Forget(e)
  \/ \E t \in Ids : Expire(t)

Spec == Init /\ [][Next]_service
=============================================================================
