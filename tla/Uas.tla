--------------------------------- MODULE Uas ---------------------------------
(***************************************************************************)
(* The auto-answerer of uas.c while it serves calls.                       *)
(*                                                                         *)
(* pjsua runs ONE worker thread, which handles SIP messages and expired    *)
(* timers one at a time and calls back into uas.c.  The program keeps an   *)
(* array of cells (app_data.calls_data); a cell is claimed by an incoming  *)
(* call, holds its ring mode and its two timer entries, and is released    *)
(* when the call ends.  A call is answered by its delay timer and hung up  *)
(* by its duration timer.                                                  *)
(*                                                                         *)
(* The module composes those callbacks with the parts of pjproject they    *)
(* drive: the call slots of pjsua, the server side of the INVITE session,  *)
(* and the timer heap.  A callback is a sequence of steps, one for each    *)
(* call it makes into pjsua; `pc' says which is next, and messages and     *)
(* timers are handled only when it is "idle".  A call of pjsua that calls  *)
(* back into uas.c synchronously (pjsua_call_hangup, a failing             *)
(* pjsua_call_answer) is one step together with the nested callback.       *)
(***************************************************************************)
EXTENDS Integers

CONSTANTS
  NumCells,    \* MAX_CALLS: cells of calls_data
  MaxCalls,    \* ua_cfg.max_calls: call slots of pjsua
  NumTimers,   \* timer ids the heap can hand out (a bound of the model)
  Numbers,     \* users the To URI of an INVITE may name
  Unsendable   \* responses whose transmission may fail in the transport

\* Both numbers are 20: MAX_CALLS in uas.h, PJSUA_MAX_CALLS in pjsua.h.
ASSUME SizeAssumption ==
  /\ NumCells \in Nat /\ MaxCalls \in Nat \ {0} /\ MaxCalls <= NumCells
  /\ NumTimers \in Nat

ASSUME SipAssumption ==
  /\ Numbers \subseteq {"111", "222", "333", "other"}
  /\ Unsendable \subseteq {100, 180, 404}

Calls == 0 .. MaxCalls - 1
Cells == 0 .. NumCells - 1
NoCall == -1                              \* PJSUA_INVALID_ID
NoCell == -1                              \* a NULL call_data pointer

RingModes == {"NOT_SET", "DIAL", "WAV", "RINGBACK"}

Entries == Cells \X {"delay", "timeout"}  \* the pj_timer_entry's of the cells
NoEntry == <<>>
TimerIds == 1 .. NumTimers

Junk == -2                                \* memory nobody has written
TimerEntry == [id: Calls \cup {NoCall, Junk},
               tid: TimerIds \cup {0, -1, Junk},
               cb: BOOLEAN]
Unwritten == [id |-> Junk, tid |-> Junk, cb |-> FALSE]
Zeroed    == [id |-> 0, tid |-> 0, cb |-> FALSE]

InvStates == {"NULL", "INCOMING", "EARLY", "CONNECTING", "CONFIRMED"}

Labels == {"idle", "trying", "claim", "not_found", "ringing", "delay_init",
           "delay_schedule", "delay_lookup", "answer", "answered",
           "answer_failed", "timeout_schedule", "timeout_lookup",
           "timeout_hangup", "timeout_done"}

VARIABLES
  owner,     \* cell -> call_data.call_id
  mode,      \* cell -> call_data.ring_mode
  entry,     \* the timer entries inside the cells
  heap,      \* timer id -> the entry scheduled under it
  inv,       \* call slot -> state of its invite session, "NULL" when free
  hanging,   \* call slot -> pjsua_call.hanging_up
  bye,       \* call slot -> a BYE of ours is under way
  number,    \* call slot -> the user its INVITE was addressed to
  tone,      \* call slot -> the source connected to its conference port
  nextCall,  \* pjsua_var.next_call_id
  pc,        \* next step of the callback the worker is in
  cur,       \* call_id of that callback
  ptr,       \* its current_call_data
  fired,     \* its pj_timer_entry argument
  crashed    \* why the process died, or "no"

cellVars == <<owner, mode, entry>>
slotVars == <<inv, hanging, bye, number, tone>>
callback == <<pc, cur, ptr, fired>>
vars == <<cellVars, heap, slotVars, nextCall, callback, crashed>>

-----------------------------------------------------------------------------
(* The cell array *)

\* call_data_get_by_id: the first cell that carries the id, or NULL.
CellOf(c) ==
  IF \E k \in Cells : owner[k] = c
  THEN CHOOSE k \in Cells : owner[k] = c /\ \A j \in Cells : owner[j] = c => k <= j
  ELSE NoCell

\* call_data_get_free
FreeCell == CellOf(NoCall)

\* ring_mode_get
RingModeGet(n) ==
  CASE n = "111" -> "DIAL"
    [] n = "222" -> "WAV"
    [] n = "333" -> "RINGBACK"
    [] OTHER     -> "NOT_SET"

\* Mutant of Release: call_id is left 0 by the bzero.
ReleaseToZero(k) ==
  /\ owner' = [owner EXCEPT ![k] = 0]
  /\ mode'  = [mode EXCEPT ![k] = "NOT_SET"]
  /\ entry' = [e \in Entries |-> IF e[1] = k THEN Zeroed ELSE entry[e]]

\* call_data_release: bzero, so the timer ids become 0 and not -1.
Release(k) ==
  /\ owner' = [owner EXCEPT ![k] = NoCall]
  /\ mode'  = [mode EXCEPT ![k] = "NOT_SET"]
  /\ entry' = [e \in Entries |-> IF e[1] = k THEN Zeroed ELSE entry[e]]

-----------------------------------------------------------------------------
(* The timer heap, as far as the entries of the cells are concerned *)

\* pj_timer_entry_init followed by the assignment to id: whatever the heap
\* still holds for this entry is forgotten.
InitialisedAnonymous(c) == [id |-> 0, tid |-> -1, cb |-> TRUE]  \* mutant: id not set
Initialised(c) == [id |-> c, tid |-> -1, cb |-> TRUE]

FreeTimers == {t \in TimerIds : heap[t] = NoEntry}

\* pj_timer_heap_schedule
Schedule(e) ==
  /\ FreeTimers # {}
  /\ LET t == CHOOSE t \in FreeTimers : TRUE IN
       /\ heap'  = [heap EXCEPT ![t] = e]
       /\ entry' = [entry EXCEPT ![e].tid = t]

\* Mutant of Cancels: the answer delay timer is forgotten.
CancelsDurationOnly(k) == {e \in {<<k, "timeout">>} : entry[e].id # NoCall}

\* The timers on_call_state stops: those whose id is not PJSUA_INVALID_ID.
Cancels(k) == {e \in {<<k, "delay">>, <<k, "timeout">>} : entry[e].id # NoCall}

\* The heap after pj_timer_heap_cancel of those: a node is removed only if its
\* timer id still leads to that entry.
HeapAfterCancel(k) ==
  [t \in TimerIds |->
     IF \E e \in Cancels(k) : entry[e].tid = t /\ heap[t] = e THEN NoEntry ELSE heap[t]]

\* pj_timer_heap_cancel may read outside the heap's arrays or fail its
\* assertion: the entry was never written, or its id leads to another entry.
BadCancel(k) ==
  \E e \in Cancels(k) :
    \/ entry[e].tid = Junk
    \/ entry[e].tid \in TimerIds /\ heap[entry[e].tid] \notin {NoEntry, e}

-----------------------------------------------------------------------------
(* The end of a call *)

\* Mutant of OnCallState: the cell is released only where timers are stopped.
OnCallStateKeeps404(c, notFound) ==
  LET k == CellOf(c) IN
    IF k = NoCell \/ notFound
    THEN UNCHANGED <<cellVars, heap, crashed>>
    ELSE /\ Release(k)
         /\ heap' = HeapAfterCancel(k)
         /\ crashed' \in IF BadCancel(k) THEN {crashed, "bad_cancel"} ELSE {crashed}

\* on_call_state with state DISCONNECTED.  An unwritten id is any integer,
\* -1 included, and a bad cancel need not crash.
OnCallState(c, notFound) ==
  LET k == CellOf(c) IN
    IF k = NoCell
    THEN UNCHANGED <<cellVars, heap, crashed>>
    ELSE /\ Release(k)
         /\ heap' = IF notFound THEN heap ELSE HeapAfterCancel(k)
         /\ crashed' \in IF ~notFound /\ BadCancel(k)
                         THEN {crashed, "bad_cancel"} ELSE {crashed}

Alive(c) == inv[c] # "NULL"

\* Mutant of FreeSlot: the conference port keeps its connection.
FreeSlotKeepsTone(c) ==
  /\ inv'     = [inv EXCEPT ![c] = "NULL"]
  /\ hanging' = [hanging EXCEPT ![c] = FALSE]
  /\ bye'     = [bye EXCEPT ![c] = FALSE]
  /\ UNCHANGED tone

\* reset_call, and the invite session is gone.
FreeSlot(c) ==
  /\ inv'     = [inv EXCEPT ![c] = "NULL"]
  /\ hanging' = [hanging EXCEPT ![c] = FALSE]
  /\ bye'     = [bye EXCEPT ![c] = FALSE]
  /\ tone'    = [tone EXCEPT ![c] = "NOT_SET"]

\* pjsua_call_on_state_changed when the invite session reaches DISCONNECTED:
\* uas.c hears of it unless the call is being hung up.
Disconnect(c, notFound) ==
  /\ IF hanging[c] THEN UNCHANGED <<cellVars, heap, crashed>>
                   ELSE OnCallState(c, notFound)
  /\ FreeSlot(c)

\* pjsua_call_hangup: uas.c hears DISCONNECTED at once.  A call that was not
\* answered is over with the final response; an answered one needs a BYE,
\* which waits for the ACK.
Hangup(c) ==
  IF c \notin Calls \/ ~Alive(c) \/ hanging[c]
  THEN UNCHANGED <<cellVars, heap, crashed, inv, hanging, bye, tone>>
  ELSE /\ OnCallState(c, FALSE)
       /\ IF inv[c] \in {"INCOMING", "EARLY"}
          THEN FreeSlot(c)
          ELSE /\ hanging' = [hanging EXCEPT ![c] = TRUE]
               /\ bye'     = [bye EXCEPT ![c] = bye[c] \/ inv[c] = "CONFIRMED"]
               /\ tone'    = [tone EXCEPT ![c] = "NOT_SET"]
               /\ UNCHANGED inv

Goto(label) == pc' = label /\ UNCHANGED <<cur, ptr, fired>>
Return == pc' = "idle" /\ cur' = NoCall /\ ptr' = NoCell /\ fired' = NoEntry

-----------------------------------------------------------------------------
(* An INVITE arrives: pjsua_call_on_incoming, then on_incoming_call *)

FreeSlots == {c \in Calls : inv[c] = "NULL"}

\* alloc_call_id: round robin from next_call_id, then from 0.
FirstSlotUnwrapped == nextCall              \* mutant of FirstSlot
FirstSlot == IF nextCall >= MaxCalls THEN 0 ELSE nextCall
AllocCall(c) ==
  /\ c \in FreeSlots
  /\ \A d \in FreeSlots : IF c >= FirstSlot THEN d >= FirstSlot => c <= d
                                            ELSE d < FirstSlot /\ c <= d
  /\ nextCall' = FirstSlot + 1

\* The slot is allocated and pjsua's own 100 is out.
Incoming(c, n) ==
  /\ pc = "idle"
  /\ AllocCall(c)
  /\ inv'    = [inv EXCEPT ![c] = "INCOMING"]
  /\ number' = [number EXCEPT ![c] = n]
  /\ pc' = "trying" /\ cur' = c /\ UNCHANGED <<ptr, fired>>
  /\ UNCHANGED <<cellVars, heap, hanging, bye, tone, crashed>>

\* pjsua_call_answer(100), whose status is ignored.
AnswerTrying ==
  /\ pc = "trying"
  /\ Goto("claim")
  /\ UNCHANGED <<number, nextCall>>
  /\ \/ UNCHANGED <<cellVars, heap, inv, hanging, bye, tone, crashed>>
     \/ 100 \in Unsendable /\ Disconnect(cur, FALSE)

\* call_data_get_free finds nothing: pjsua_call_answer(600).
AnswerBusy ==
  /\ IF Alive(cur) THEN Disconnect(cur, FALSE)
     ELSE UNCHANGED <<cellVars, heap, inv, hanging, bye, tone, crashed>>
  /\ Return

\* Mutant of TakeCell: a number without a tone is not refused.
TakeCellAnyNumber(k) ==
  /\ owner' = [owner EXCEPT ![k] = cur]
  /\ mode'  = [mode EXCEPT ![k] = RingModeGet(number[cur])]
  /\ ptr' = k
  /\ pc' = "ringing"
  /\ UNCHANGED <<cur, fired, entry, heap, inv, hanging, bye, tone, crashed>>

\* call_data_get_free finds a cell, which now carries this call's id.
TakeCell(k) ==
  /\ owner' = [owner EXCEPT ![k] = cur]
  /\ mode'  = [mode EXCEPT ![k] = RingModeGet(number[cur])]
  /\ ptr' = k
  /\ pc' = IF RingModeGet(number[cur]) = "NOT_SET" THEN "not_found" ELSE "ringing"
  /\ UNCHANGED <<cur, fired, entry, heap, inv, hanging, bye, tone, crashed>>

ClaimCell ==
  /\ pc = "claim"
  /\ IF FreeCell = NoCell THEN AnswerBusy ELSE TakeCell(FreeCell)
  /\ UNCHANGED <<number, nextCall>>

\* pjsua_call_answer(404): on_call_state skips the timers only if the 404,
\* and not a transport error, became the cause of the disconnection.
AnswerNotFound ==
  /\ pc = "not_found"
  /\ IF Alive(cur)
     THEN \/ Disconnect(cur, TRUE)
          \/ 404 \in Unsendable /\ Disconnect(cur, FALSE)
     ELSE UNCHANGED <<cellVars, heap, inv, hanging, bye, tone, crashed>>
  /\ Return
  /\ UNCHANGED <<number, nextCall>>

\* pjsua_call_answer(180), whose status is ignored.
AnswerRinging ==
  /\ pc = "ringing"
  /\ IF Alive(cur)
     THEN \/ /\ inv' = [inv EXCEPT ![cur] = "EARLY"]
             /\ UNCHANGED <<cellVars, heap, hanging, bye, tone, crashed>>
          \/ 180 \in Unsendable /\ Disconnect(cur, FALSE)
     ELSE UNCHANGED <<cellVars, heap, inv, hanging, bye, tone, crashed>>
  /\ Goto("delay_init")
  /\ UNCHANGED <<number, nextCall>>

\* pj_timer_entry_init of the answer delay timer.
InitDelay ==
  /\ pc = "delay_init"
  /\ entry' = [entry EXCEPT ![<<ptr, "delay">>] = Initialised(cur)]
  /\ Goto("delay_schedule")
  /\ UNCHANGED <<owner, mode, heap, slotVars, nextCall, crashed>>

\* pjsip_endpt_schedule_timer, or the hangup when it fails.  What follows,
\* set_user_data, cannot fail, and call_id >= MAX_CALLS cannot hold.
ScheduleDelay ==
  /\ pc = "delay_schedule"
  /\ \/ /\ Schedule(<<ptr, "delay">>)
        /\ UNCHANGED <<owner, mode, inv, hanging, bye, tone, crashed>>
     \/ Hangup(cur)
  /\ Return
  /\ UNCHANGED <<number, nextCall>>

-----------------------------------------------------------------------------
(* A timer expires: pj_timer_heap_poll *)

\* remove_node also tells the entry that it is not scheduled any more.
PoppedSilently(e) == entry                  \* mutant of Popped: it does not
Popped(e) == [entry EXCEPT ![e].tid = -1]

\* The callback runs unless the entry no longer has one.
Fire(t) ==
  LET e == heap[t] IN
  /\ pc = "idle"
  /\ e # NoEntry
  /\ heap'  = [heap EXCEPT ![t] = NoEntry]
  /\ entry' = Popped(e)
  /\ IF entry[e].cb
     THEN /\ pc' = IF e[2] = "delay" THEN "delay_lookup" ELSE "timeout_lookup"
          /\ fired' = e
          /\ UNCHANGED <<cur, ptr>>
     ELSE UNCHANGED callback
  /\ UNCHANGED <<owner, mode, slotVars, nextCall, crashed>>

\* The first lines of both callbacks: entry->id, then call_data_get_by_id.
Lookup(from, to) ==
  /\ pc = from
  /\ pc' = to
  /\ cur' = entry[fired].id
  /\ ptr' = CellOf(cur')
  /\ UNCHANGED <<fired, cellVars, heap, slotVars, nextCall, crashed>>

DelayLookup == Lookup("delay_lookup", "answer")
TimeoutLookup == Lookup("timeout_lookup", "timeout_hangup")

\* on_call_media_state with active media: the mode of the call's cell chooses
\* the source; the callback does not test the cell for NULL.
ConnectTone(c) ==
  IF CellOf(c) = NoCell
  THEN crashed' = "null_cell" /\ UNCHANGED tone
  ELSE /\ mode[CellOf(c)] # "NOT_SET"
       /\ tone' = [tone EXCEPT ![c] = mode[CellOf(c)]]
       /\ UNCHANGED crashed

Waiting(c) == c \in Calls /\ inv[c] \in {"INCOMING", "EARLY"}

\* pjsua_call_answer(200) succeeds.  If the INVITE had an offer, its SDP is
\* negotiated and the tone connected before the 200 goes out; the media may
\* also be inactive, or the offer be ours and its answer come with the ACK.
AnswerOk ==
  /\ Waiting(cur)
  /\ inv' = [inv EXCEPT ![cur] = "CONNECTING"]
  /\ ConnectTone(cur) \/ UNCHANGED <<tone, crashed>>
  /\ Goto("answered")
  /\ UNCHANGED <<cellVars, heap, hanging, bye>>

\* It fails: the id is invalid (an assertion of pjsua), the call does not wait
\* for an answer, or negotiation, the media channel, the tone's connection or
\* the transport failed; each of these last ends the call before the return.
AnswerFails ==
  /\ IF Waiting(cur) THEN Disconnect(cur, FALSE)
     ELSE /\ crashed' \in IF cur \in Calls THEN {crashed} ELSE {crashed, "assert"}
          /\ UNCHANGED <<cellVars, heap, inv, hanging, bye, tone>>
  /\ Goto("answer_failed")

DelayAnswer ==
  /\ pc = "answer"
  /\ AnswerOk \/ AnswerFails
  /\ UNCHANGED <<number, nextCall>>

\* The failure branch logs a field of the cell, then hangs up.
DelayHangup ==
  /\ pc = "answer_failed"
  /\ IF ptr = NoCell
     THEN /\ crashed' = "null_cell"
          /\ UNCHANGED <<cellVars, heap, inv, hanging, bye, tone>>
     ELSE Hangup(cur)
  /\ Return
  /\ UNCHANGED <<number, nextCall>>

\* The success branch clears the delay timer's id and initialises the other.
InitTimeout ==
  /\ pc = "answered"
  /\ IF ptr = NoCell
     THEN crashed' = "null_cell" /\ Return /\ UNCHANGED entry
     ELSE /\ entry' = [entry EXCEPT ![<<ptr, "delay">>].id = NoCall,
                                    ![<<ptr, "timeout">>] = Initialised(cur)]
          /\ Goto("timeout_schedule")
          /\ UNCHANGED crashed
  /\ UNCHANGED <<owner, mode, heap, slotVars, nextCall>>

\* Mutant of ScheduleTimeout: no hangup when the timer cannot be scheduled.
ScheduleTimeoutUnchecked ==
  /\ pc = "timeout_schedule"
  /\ \/ Schedule(<<ptr, "timeout">>) \/ UNCHANGED <<entry, heap>>
  /\ Return
  /\ UNCHANGED <<owner, mode, slotVars, nextCall, crashed>>

ScheduleTimeout ==
  /\ pc = "timeout_schedule"
  /\ \/ /\ Schedule(<<ptr, "timeout">>)
        /\ UNCHANGED <<owner, mode, inv, hanging, bye, tone, crashed>>
     \/ Hangup(cur)
  /\ Return
  /\ UNCHANGED <<number, nextCall>>

\* call_timeout_callback hangs up with 200 unless the id is invalid.
TimeoutHangup ==
  /\ pc = "timeout_hangup"
  /\ IF cur = NoCall
     THEN Return /\ UNCHANGED <<cellVars, heap, inv, hanging, bye, tone, crashed>>
     ELSE Goto("timeout_done") /\ Hangup(cur)
  /\ UNCHANGED <<number, nextCall>>

\* Its last line writes to the cell, released or not.
TimeoutDone ==
  /\ pc = "timeout_done"
  /\ IF ptr = NoCell
     THEN crashed' = "null_cell" /\ UNCHANGED entry
     ELSE entry' = [entry EXCEPT ![<<ptr, "timeout">>].id = NoCall] /\ UNCHANGED crashed
  /\ Return
  /\ UNCHANGED <<owner, mode, heap, slotVars, nextCall>>

-----------------------------------------------------------------------------
(* What the caller and the transaction layer do to a call *)

\* CANCEL, a BYE in any state, or a retransmission that cannot be sent while
\* the call rings: the session is DISCONNECTED.
RemoteEnds(c) ==
  /\ pc = "idle" /\ Alive(c)
  /\ Disconnect(c, FALSE)
  /\ UNCHANGED <<number, nextCall, callback>>

\* A media update of a call that is CONFIRMED afterwards: on_call_media_state
\* connects the tone, finds the media inactive, or hangs up because it cannot
\* connect; or pjsua cannot update the channel and ends the session with a
\* BYE, without a word to uas.c.
MediaUpdate(c) ==
  \/ /\ ConnectTone(c) \/ (tone' = [tone EXCEPT ![c] = "NOT_SET"] /\ UNCHANGED crashed)
     /\ UNCHANGED <<cellVars, heap, hanging, bye>>
  \/ /\ OnCallState(c, FALSE)
     /\ hanging' = [hanging EXCEPT ![c] = TRUE]
     /\ bye'     = [bye EXCEPT ![c] = TRUE]
     /\ tone'    = [tone EXCEPT ![c] = "NOT_SET"]
  \/ /\ bye' = [bye EXCEPT ![c] = TRUE]
     /\ UNCHANGED <<cellVars, heap, hanging, tone, crashed>>

\* The ACK, perhaps with the SDP answer: CONNECTING becomes CONFIRMED and a
\* BYE that waited for it is sent.
Ack(c) ==
  /\ pc = "idle" /\ inv[c] = "CONNECTING" /\ ~bye[c]
  /\ inv' = [inv EXCEPT ![c] = "CONFIRMED"]
  /\ \/ /\ bye' = [bye EXCEPT ![c] = hanging[c]]
        /\ UNCHANGED <<cellVars, heap, hanging, tone, crashed>>
     \/ ~hanging[c] /\ MediaUpdate(c)
  /\ UNCHANGED <<number, nextCall, callback>>

\* A re-INVITE or UPDATE.
Reoffer(c) ==
  /\ pc = "idle" /\ inv[c] = "CONFIRMED" /\ ~hanging[c]
  /\ MediaUpdate(c)
  /\ UNCHANGED <<inv, number, nextCall, callback>>

\* No ACK: timer H, or the 200 cannot be retransmitted.  The INVITE session
\* sends a BYE itself and says nothing to uas.c.
NoAck(c) ==
  /\ pc = "idle" /\ inv[c] = "CONNECTING" /\ ~bye[c]
  /\ bye' = [bye EXCEPT ![c] = TRUE]
  /\ UNCHANGED <<cellVars, heap, inv, hanging, number, tone, nextCall, callback, crashed>>

\* Our BYE is answered, times out or cannot be sent.
ByeDone(c) ==
  /\ pc = "idle" /\ bye[c]
  /\ Disconnect(c, FALSE)
  /\ UNCHANGED <<number, nextCall, callback>>

-----------------------------------------------------------------------------
\* app_init has filled calls_data: only call_id of each cell is written.
CellsFilled ==
  /\ owner = [k \in Cells |-> NoCall]
  /\ mode  = [k \in Cells |-> "NOT_SET"]
  /\ entry = [e \in Entries |-> Unwritten]

\* No call, no timer, no callback.
NothingRuns ==
  /\ heap  = [t \in TimerIds |-> NoEntry]
  /\ inv     = [c \in Calls |-> "NULL"]
  /\ hanging = [c \in Calls |-> FALSE]
  /\ bye     = [c \in Calls |-> FALSE]
  /\ number  = [c \in Calls |-> "other"]
  /\ tone    = [c \in Calls |-> "NOT_SET"]
  /\ nextCall = 0
  /\ pc = "idle" /\ cur = NoCall /\ ptr = NoCell /\ fired = NoEntry
  /\ crashed = "no"

Init == CellsFilled /\ NothingRuns

\* The callback the worker is in goes on.
Step ==
  \/ AnswerTrying \/ ClaimCell \/ AnswerNotFound \/ AnswerRinging
  \/ InitDelay \/ ScheduleDelay
  \/ DelayLookup \/ DelayAnswer \/ DelayHangup \/ InitTimeout \/ ScheduleTimeout
  \/ TimeoutLookup \/ TimeoutHangup \/ TimeoutDone

Live == crashed = "no"

\* The caller or the transaction layer does something to call c.
CallEvent(c) == RemoteEnds(c) \/ Ack(c) \/ NoAck(c) \/ ByeDone(c) \/ Reoffer(c)

Next ==
  /\ Live
  /\ \/ Step
     \/ \E t \in TimerIds : Fire(t)
     \/ \E c \in Calls, n \in Numbers : Incoming(c, n)
     \/ \E c \in Calls : CallEvent(c)

Spec == Init /\ [][Next]_vars

\* The worker never blocks inside a callback; an expired timer is polled
\* before the next message is read; and a BYE is answered or its transaction
\* times out.  No ACK is assumed, and no end of the waiting for one.
Fairness ==
  /\ WF_vars(Live /\ Step)
  /\ \A t \in TimerIds : SF_vars(Live /\ Fire(t))
  /\ \A c \in Calls : SF_vars(Live /\ ByeDone(c))

FairSpec == Spec /\ Fairness

-----------------------------------------------------------------------------
(* What the code promises *)

\* The ranges of the variables; and a callback that is about to use its call, its
\* cell or its timer entry has one, which somebody has written.
Typed ==
  /\ owner \in [Cells -> Calls \cup {NoCall, Junk}]
  /\ mode  \in [Cells -> RingModes]
  /\ entry \in [Entries -> TimerEntry]
  /\ heap  \in [TimerIds -> Entries \cup {NoEntry}]
  /\ inv     \in [Calls -> InvStates]
  /\ hanging \in [Calls -> BOOLEAN]
  /\ bye     \in [Calls -> BOOLEAN]
  /\ number  \in [Calls -> Numbers \cup {"other"}]
  /\ tone    \in [Calls -> RingModes]
  /\ nextCall \in 0 .. MaxCalls
  /\ pc \in Labels
  /\ cur \in Calls \cup {NoCall}
  /\ ptr \in Cells \cup {NoCell}
  /\ fired \in Entries \cup {NoEntry}
  /\ crashed \in {"no", "null_cell", "bad_cancel", "assert"}
  /\ \A e \in Entries : entry[e].cb => entry[e].id # Junk
  /\ pc \in {"trying", "claim", "not_found", "ringing"} => cur \in Calls
  /\ pc \in {"not_found", "ringing", "delay_init", "delay_schedule", "timeout_schedule"}
       => ptr \in Cells
  /\ pc \in {"delay_lookup", "timeout_lookup"}
       => fired \in Entries /\ entry[fired].id # Junk

\* While the program serves, app_init has written the id of every cell.
TypeOK == Typed /\ \A k \in Cells : owner[k] # Junk

\* Cells and calls match one to one: no call has two cells, a cell is claimed
\* only by a call that still exists and is not being hung up, and every such
\* call has a cell once on_incoming_call has looked for one; until then its
\* slot is in use and no cell carries its id.  A call being hung up keeps its
\* slot.  On this rests every use of call_data_get_by_id without a test for NULL.
CellsOwnLiveCalls ==
  /\ \A j, k \in Cells : owner[j] = owner[k] /\ owner[j] \in Calls => j = k
  /\ \A k \in Cells : owner[k] \in Calls => Alive(owner[k]) /\ ~hanging[owner[k]]
  /\ \A c \in Calls : Alive(c) /\ ~hanging[c]
       => \/ \E k \in Cells : owner[k] = c
          \/ cur = c /\ pc \in {"trying", "claim"}
  /\ pc \in {"trying", "claim"}
       => Alive(cur) /\ ~hanging[cur] /\ \A k \in Cells : owner[k] # cur
  /\ \A c \in Calls : hanging[c] => Alive(c)

\* A call that pjsua found a slot for always finds a free cell: the 600 of
\* on_incoming_call is never needed, although a slot stays taken until its BYE
\* is over and the cell does not.
FreeCellForNewCall == pc = "claim" => FreeCell # NoCell

\* A pending timer belongs to the call that owns the cell it lies in, the cell
\* still leads to it (so it can be cancelled), and it is the timer that the
\* call's phase asks for.  No timer outlives its call or meets another one.
TimersTrackCalls ==
  \A t \in TimerIds : heap[t] # NoEntry =>
    LET e == heap[t] IN
      /\ entry[e].tid = t
      /\ entry[e].id = owner[e[1]]
      /\ owner[e[1]] \in Calls
      /\ inv[owner[e[1]]] \in IF e[2] = "delay" THEN {"EARLY"} ELSE {"CONNECTING", "CONFIRMED"}

\* Between two events every call that is not being hung up has a timer that
\* will answer it or end it.
LiveCallIsTimed ==
  pc = "idle" => \A c \in Calls : Alive(c) /\ ~hanging[c]
    => \E t \in TimerIds : heap[t] # NoEntry /\ owner[heap[t][1]] = c

\* No timer is pending in cell k.
Untimed(k) == \A t \in TimerIds : heap[t] # NoEntry => heap[t][1] # k

\* A callback works on the cell of its own call: on_incoming_call on the one it
\* claimed, while the call is in the state its last answer left it in; a timer
\* callback on the one its timer lies in, to which the search by call id brings
\* it back.  No other timer is pending there while it does.
CallbackFindsItsCell ==
  /\ pc \in {"trying", "claim"} => inv[cur] = "INCOMING"
  /\ pc \in {"not_found", "ringing"} => owner[ptr] = cur /\ inv[cur] = "INCOMING"
  /\ pc \in {"delay_init", "delay_schedule"}
       => owner[ptr] = cur /\ cur \in Calls /\ inv[cur] = "EARLY" /\ Untimed(ptr)
  /\ pc \in {"delay_lookup", "timeout_lookup"}
       => /\ entry[fired].id = owner[fired[1]] /\ owner[fired[1]] \in Calls
          /\ Untimed(fired[1])
  /\ pc \in {"answer", "answered", "answer_failed", "timeout_schedule",
             "timeout_hangup", "timeout_done"}
       => ptr = fired[1] /\ ptr \in Cells /\ Untimed(ptr)
  /\ pc \in {"answer", "answered", "timeout_schedule", "timeout_hangup"}
       => owner[ptr] = cur /\ cur # NoCall
  /\ pc \in {"answered", "timeout_schedule"} => inv[cur] = "CONNECTING"
  /\ pc = "delay_schedule" => entry[<<ptr, "delay">>].id = cur
  /\ pc = "timeout_schedule" => entry[<<ptr, "timeout">>].id = cur

\* A caller hears the tone that belongs to the number it dialled.
ToneMatchesNumber ==
  \A c \in Calls : tone[c] # "NOT_SET" => tone[c] = RingModeGet(number[c])

\* The assertion of pj_timer_heap_cancel holds: the timer id of an entry never
\* leads to the node of another entry.
CancelFindsItsNode ==
  \A e \in Entries : entry[e].tid \in TimerIds => heap[entry[e].tid] = e

\* A callback never reads or writes through a NULL call_data, and never gives
\* pjsua a call id that its assertions reject.
NoNullCell == crashed \notin {"null_cell", "assert"}

\* Every call that gets a slot gives it back, answered, refused or given up,
\* unless in the end uas.c has hung it up and its BYE waits for ever for an ACK
\* (or the process died): no failure on the way leaves a call that nobody hangs up.
CallsEnd ==
  \A c \in Calls :
    \/ []<>(~Alive(c) \/ ~Live)
    \/ <>[](inv[c] = "CONNECTING" /\ hanging[c] /\ ~bye[c])
=============================================================================
