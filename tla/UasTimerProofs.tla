--------------------------- MODULE UasTimerProofs ---------------------------
(***************************************************************************)
(* Timers and their calls, for every number of cells, calls and timers.    *)
(* That a pending timer belongs to a call needs the 100 and the 180 of     *)
(* on_incoming_call to go out; that every call has a timer needs only the  *)
(* 100, and that a timer id leads to its own entry neither.                *)
(***************************************************************************)
EXTENDS UasContractProofs, Sequences

USE DEF Calls, Cells, NoCall, NoCell, NoEntry, Junk, RingModes

\* Everything the induction needs: the types, the match of cells and calls, the
\* timers, and what the callback in progress knows.
TimerInv == Typed /\ CellsOwnLiveCalls /\ TimersTrackCalls /\ CallbackFindsItsCell

LEMMA InitTimers == Init => TimersTrackCalls /\ CallbackFindsItsCell /\ NoNullCell
BY DEF Init, CellsFilled, NothingRuns, TimersTrackCalls, CallbackFindsItsCell, NoNullCell

\* What TimersTrackCalls says of one pending timer.
Tracked(t) ==
  /\ heap[t] \in Entries
  /\ heap[t][1] \in Cells
  /\ heap[t] \in {<<heap[t][1], "delay">>, <<heap[t][1], "timeout">>}
  /\ entry[heap[t]].tid = t
  /\ entry[heap[t]].id = owner[heap[t][1]]
  /\ owner[heap[t][1]] \in Calls
  /\ inv[owner[heap[t][1]]] \in IF heap[t][2] = "delay" THEN {"EARLY"}
                                ELSE {"CONNECTING", "CONFIRMED"}

LEMMA AllTracked ==
  ASSUME Typed, TimersTrackCalls, NEW t \in TimerIds, heap[t] # NoEntry
  PROVE  Tracked(t)
<1>1. heap[t] \in Entries
  BY DEF Typed
<1>2. /\ heap[t][1] \in Cells
      /\ heap[t] \in {<<heap[t][1], "delay">>, <<heap[t][1], "timeout">>}
  BY <1>1 DEF Entries
<1>3. owner[heap[t][1]] \in Calls
  BY <1>2 DEF Typed, TimersTrackCalls
<1> QED
  BY <1>1, <1>2, <1>3 DEF Tracked, TimersTrackCalls

\* A cell has at most one pending timer.
LEMMA OneTimerPerCell ==
  ASSUME Typed, TimersTrackCalls, NEW s \in TimerIds, NEW t \in TimerIds,
         heap[s] # NoEntry, heap[t] # NoEntry, heap[s][1] = heap[t][1]
  PROVE  s = t
<1>1. Tracked(s) /\ Tracked(t)
  BY AllTracked
<1>2. heap[s] = heap[t]
  BY <1>1 DEF Tracked
<1> QED
  BY <1>1, <1>2 DEF Tracked

\* What the end of call c, or the beginning of its end, does to the timers.
TimersGone(c) ==
  /\ \A t \in TimerIds : heap'[t] # NoEntry => heap'[t] = heap[t] /\ owner[heap[t][1]] # c
  /\ \A e \in Entries : owner[e[1]] # c => entry'[e] = entry[e]

\* on_call_state cancels every timer of the call: both ids are set, so neither is
\* passed over, and each leads to its node.  After a 404 nothing is pending.
LEMMA OnCallStateTimers ==
  ASSUME Typed, CellsOwnLiveCalls, TimersTrackCalls,
         NEW c \in Calls, NEW notFound \in BOOLEAN, OnCallState(c, notFound),
         notFound => inv[c] = "INCOMING"
  PROVE  TimersGone(c)
<1> DEFINE k == CellOf(c)
<1>1. CASE k = NoCell
  <2>1. \A j \in Cells : owner[j] # c
    BY <1>1, CellOfCorrect DEF Typed
  <2>2. \A t \in TimerIds : heap[t] # NoEntry => owner[heap[t][1]] # c
    BY <2>1, AllTracked DEF Tracked
  <2>3. UNCHANGED <<heap, entry>>
    BY <1>1 DEF OnCallState, cellVars
  <2> QED
    BY <2>2, <2>3 DEF TimersGone
<1>2. CASE k # NoCell
  <2>1. k \in Cells /\ owner[k] = c
    BY <1>2, CellOfCorrect DEF Typed
  <2>2. \A j \in Cells : owner[j] = c => j = k
    BY <2>1 DEF CellsOwnLiveCalls
  <2>3. entry' = [e \in Entries |-> IF e[1] = k THEN Zeroed ELSE entry[e]]
    BY <1>2 DEF OnCallState, Release
  <2>4. \A e \in Entries : owner[e[1]] # c => entry'[e] = entry[e]
    BY <2>1, <2>3
  <2>5. ASSUME NEW t \in TimerIds, heap'[t] # NoEntry
        PROVE  heap'[t] = heap[t] /\ owner[heap[t][1]] # c
    <3>1. CASE notFound
      <4>1. heap' = heap
        BY <1>2, <3>1 DEF OnCallState
      <4>2. Tracked(t)
        BY <2>5, <4>1, AllTracked
      <4> QED
        BY <3>1, <4>1, <4>2 DEF Tracked
    <3>2. CASE ~notFound
      <4>1. heap' = HeapAfterCancel(k)
        BY <1>2, <3>2 DEF OnCallState
      <4>2. heap'[t] = heap[t] /\ heap[t] # NoEntry
        BY <2>5, <4>1 DEF HeapAfterCancel
      <4>3. Tracked(t)
        BY <4>2, AllTracked
      <4>4. ASSUME owner[heap[t][1]] = c PROVE FALSE
        <5>1. heap[t][1] = k
          BY <2>2, <4>3, <4>4 DEF Tracked
        <5>2. heap[t] \in Cancels(k)
          BY <4>3, <4>4, <5>1 DEF Tracked, Cancels
        <5> QED
          BY <2>5, <4>1, <4>3, <5>2 DEF Tracked, HeapAfterCancel
      <4> QED
        BY <4>2, <4>4
    <3> QED
      BY <3>1, <3>2
  <2> QED
    BY <2>4, <2>5 DEF TimersGone
<1> QED
  BY <1>1, <1>2

LEMMA DisconnectTimers ==
  ASSUME Typed, CellsOwnLiveCalls, TimersTrackCalls,
         NEW c \in Calls, NEW notFound \in BOOLEAN, Disconnect(c, notFound),
         notFound => inv[c] = "INCOMING"
  PROVE  TimersGone(c)
<1>1. CASE hanging[c]
  <2>1. \A t \in TimerIds : heap[t] # NoEntry => owner[heap[t][1]] # c
    BY <1>1, AllTracked DEF Tracked, CellsOwnLiveCalls
  <2> QED
    BY <1>1, <2>1 DEF Disconnect, TimersGone, cellVars
<1>2. CASE ~hanging[c]
  BY <1>2, OnCallStateTimers DEF Disconnect
<1> QED
  BY <1>1, <1>2

LEMMA HangupTimers ==
  ASSUME Typed, CellsOwnLiveCalls, TimersTrackCalls,
         NEW c \in Calls \cup {NoCall}, Hangup(c)
  PROVE  TimersGone(c)
<1>1. CASE c \notin Calls \/ ~Alive(c) \/ hanging[c]
  <2>1. \A t \in TimerIds : heap[t] # NoEntry => owner[heap[t][1]] # c
    BY <1>1, AllTracked DEF Tracked, CellsOwnLiveCalls
  <2>2. UNCHANGED <<heap, entry>>
    BY <1>1 DEF Hangup, cellVars
  <2> QED
    BY <2>1, <2>2 DEF TimersGone
<1>2. CASE ~(c \notin Calls \/ ~Alive(c) \/ hanging[c])
  <2>1. OnCallState(c, FALSE)
    BY <1>2 DEF Hangup
  <2> QED
    BY <1>2, <2>1, OnCallStateTimers
<1> QED
  BY <1>1, <1>2

\* The end of one call disturbs no other call's timer ...
LEMMA GoneKeepsTimers ==
  ASSUME Typed, TimersTrackCalls, NEW c \in Calls \cup {NoCall}, Gone(c), TimersGone(c)
  PROVE  /\ TimersTrackCalls'
         /\ \A k : Untimed(k) => Untimed(k)'
<1>1. ASSUME NEW t \in TimerIds, heap'[t] # NoEntry
      PROVE  /\ heap'[t] = heap[t] /\ Tracked(t)
             /\ owner'[heap[t][1]] = owner[heap[t][1]]
             /\ inv'[owner[heap[t][1]]] = inv[owner[heap[t][1]]]
             /\ entry'[heap[t]] = entry[heap[t]]
  <2>1. heap'[t] = heap[t] /\ owner[heap[t][1]] # c
    BY <1>1 DEF TimersGone
  <2>2. Tracked(t)
    BY <1>1, <2>1, AllTracked
  <2> QED
    BY <2>1, <2>2 DEF Tracked, TimersGone, Gone
<1>2. TimersTrackCalls'
  BY <1>1 DEF TimersTrackCalls, Tracked
<1>3. \A k : Untimed(k) => Untimed(k)'
  BY <1>1 DEF Untimed
<1> QED
  BY <1>2, <1>3

\* ... and neither does a step that leaves the timers and cells alone, or one that
\* takes a call without timers from state to state.
LEMMA QuietKeepsTimers ==
  ASSUME Typed, TimersTrackCalls, UNCHANGED <<heap, entry, owner>>,
         \A d \in Calls :
           \/ inv'[d] = inv[d]
           \/ inv[d] = "CONNECTING" /\ inv'[d] = "CONFIRMED"
           \/ \A k \in Cells : owner[k] = d => Untimed(k)
  PROVE  /\ TimersTrackCalls'
         /\ \A k : Untimed(k) => Untimed(k)'
<1>1. ASSUME NEW t \in TimerIds, heap[t] # NoEntry
      PROVE  /\ Tracked(t)
             /\ inv'[owner[heap[t][1]]] \in IF heap[t][2] = "delay" THEN {"EARLY"}
                                            ELSE {"CONNECTING", "CONFIRMED"}
  <2>1. Tracked(t)
    BY <1>1, AllTracked
  <2>2. ~Untimed(heap[t][1])
    BY <1>1 DEF Untimed
  <2> QED
    BY <2>1, <2>2 DEF Tracked
<1> QED
  BY <1>1 DEF TimersTrackCalls, Tracked, Untimed

\* Nor does a step that writes the entries of a cell without a timer.
LEMMA UntimedEntry ==
  ASSUME Typed, TimersTrackCalls, NEW k, Untimed(k), UNCHANGED <<heap, owner, inv>>,
         \A e \in Entries : e[1] # k => entry'[e] = entry[e]
  PROVE  /\ TimersTrackCalls'
         /\ \A j : Untimed(j) => Untimed(j)'
<1>1. ASSUME NEW t \in TimerIds, heap[t] # NoEntry
      PROVE  Tracked(t) /\ entry'[heap[t]] = entry[heap[t]]
  <2>1. Tracked(t)
    BY <1>1, AllTracked
  <2> QED
    BY <1>1, <2>1 DEF Tracked, Untimed
<1> QED
  BY <1>1 DEF TimersTrackCalls, Tracked, Untimed

\* A timer scheduled in a cell without one, for the call that owns it.
LEMMA ScheduleTimers ==
  ASSUME Typed, TimersTrackCalls, NEW e \in Entries, Schedule(e), Untimed(e[1]),
         entry[e].id = owner[e[1]], owner[e[1]] \in Calls,
         inv[owner[e[1]]] \in IF e[2] = "delay" THEN {"EARLY"} ELSE {"CONNECTING", "CONFIRMED"},
         UNCHANGED <<owner, inv>>
  PROVE  TimersTrackCalls'
<1>1. PICK t \in TimerIds : /\ heap[t] = NoEntry
                            /\ heap' = [heap EXCEPT ![t] = e]
                            /\ entry' = [entry EXCEPT ![e].tid = t]
  <2>1. (CHOOSE t \in FreeTimers : TRUE) \in FreeTimers
    BY DEF Schedule
  <2> QED
    BY <2>1 DEF Schedule, FreeTimers
<1>2. entry'[e].tid = t /\ entry'[e].id = entry[e].id
  BY <1>1 DEF Typed, TimerEntry
<1>3. ASSUME NEW s \in TimerIds, s # t, heap'[s] # NoEntry
      PROVE  Tracked(s) /\ heap'[s] = heap[s] /\ entry'[heap[s]] = entry[heap[s]]
  <2>1. heap'[s] = heap[s]
    BY <1>1, <1>3 DEF Typed
  <2>2. Tracked(s)
    BY <1>3, <2>1, AllTracked
  <2>3. heap[s] # e
    BY <1>3, <2>1 DEF Untimed
  <2> QED
    BY <1>1, <2>1, <2>2, <2>3 DEF Tracked, Typed
<1>4. heap'[t] = e
  BY <1>1 DEF Typed
<1> QED
  BY <1>2, <1>3, <1>4 DEF TimersTrackCalls, Tracked

-----------------------------------------------------------------------------
(* The steps *)

\* When no callback is left there is nothing for it to find.
LEMMA IdleFinds == pc' = "idle" => CallbackFindsItsCell'
BY DEF CallbackFindsItsCell

\* The steps of on_incoming_call.
LEMMA IncomingTimers ==
  ASSUME TimerInv, {100, 180} \cap Unsendable = {},
         \/ \E c \in Calls, n \in Numbers : Incoming(c, n)
         \/ AnswerTrying \/ ClaimCell \/ AnswerNotFound \/ AnswerRinging
         \/ InitDelay \/ ScheduleDelay
  PROVE  TimersTrackCalls' /\ CallbackFindsItsCell'
<1>0. Typed /\ CellsOwnLiveCalls /\ TimersTrackCalls /\ CallbackFindsItsCell
  BY DEF TimerInv
<1>1. ASSUME NEW c \in Calls, NEW n \in Numbers, Incoming(c, n)
      PROVE  TimersTrackCalls' /\ CallbackFindsItsCell'
  <2>1. /\ inv[c] = "NULL" /\ inv' = [inv EXCEPT ![c] = "INCOMING"]
        /\ pc' = "trying" /\ cur' = c
        /\ UNCHANGED <<owner, heap, entry>>
    BY <1>1 DEF Incoming, AllocCall, FreeSlots, cellVars
  <2>2. \A k \in Cells : owner[k] # c
    BY <1>0, <2>1 DEF CellsOwnLiveCalls, Alive
  <2>3. inv'[c] = "INCOMING" /\ \A d \in Calls : d # c => inv'[d] = inv[d]
    BY <1>0, <2>1 DEF Typed
  <2>4. TimersTrackCalls'
    BY <1>0, <2>1, <2>2, <2>3, QuietKeepsTimers
  <2> QED
    BY <2>1, <2>3, <2>4 DEF CallbackFindsItsCell
<1>2. ASSUME AnswerTrying PROVE TimersTrackCalls' /\ CallbackFindsItsCell'
  <2>1. /\ pc = "trying" /\ pc' = "claim"
        /\ UNCHANGED <<owner, heap, entry, inv, cur>>
    BY <1>2 DEF AnswerTrying, Goto, cellVars
  <2>2. TimersTrackCalls'
    BY <1>0, <2>1, QuietKeepsTimers
  <2> QED
    BY <1>0, <2>1, <2>2 DEF CallbackFindsItsCell
<1>3. ASSUME ClaimCell PROVE TimersTrackCalls' /\ CallbackFindsItsCell'
  <2>0. pc = "claim" /\ cur \in Calls
    BY <1>0, <1>3 DEF ClaimCell, Typed
  <2>1. CASE FreeCell = NoCell
    <3>1. pc' = "idle" /\ (Alive(cur) => Disconnect(cur, FALSE))
      BY <1>3, <2>1 DEF ClaimCell, AnswerBusy, Return
    <3>2. Alive(cur)
      BY <1>0, <2>0 DEF CellsOwnLiveCalls
    <3>3. Gone(cur) /\ TimersGone(cur)
      BY <1>0, <2>0, <3>1, <3>2, DisconnectGone, DisconnectTimers
    <3> QED
      BY <1>0, <2>0, <3>1, <3>3, GoneKeepsTimers, IdleFinds
  <2>2. CASE FreeCell # NoCell
    <3>1. FreeCell \in Cells /\ owner[FreeCell] = NoCall
      BY <1>0, <2>2, CellOfCorrect DEF FreeCell, Typed
    <3>2. /\ owner' = [owner EXCEPT ![FreeCell] = cur]
          /\ ptr' = FreeCell /\ pc' \in {"not_found", "ringing"}
          /\ UNCHANGED <<heap, entry, inv, cur>>
      BY <1>3, <2>2 DEF ClaimCell, TakeCell
    <3>3. ASSUME NEW t \in TimerIds, heap[t] # NoEntry
          PROVE  Tracked(t) /\ owner'[heap[t][1]] = owner[heap[t][1]]
      <4>1. Tracked(t)
        BY <1>0, <3>3, AllTracked
      <4>2. heap[t][1] # FreeCell
        BY <3>1, <4>1 DEF Tracked
      <4> QED
        BY <1>0, <3>2, <4>1, <4>2 DEF Tracked, Typed
    <3>4. TimersTrackCalls'
      BY <3>2, <3>3 DEF TimersTrackCalls, Tracked
    <3>5. owner'[ptr'] = cur' /\ inv'[cur'] = "INCOMING"
      BY <1>0, <2>0, <3>1, <3>2 DEF CallbackFindsItsCell, Typed
    <3> QED
      BY <3>2, <3>4, <3>5 DEF CallbackFindsItsCell
  <2> QED
    BY <2>1, <2>2
<1>4. ASSUME AnswerNotFound PROVE TimersTrackCalls' /\ CallbackFindsItsCell'
  <2>1. pc = "not_found" /\ pc' = "idle"
    BY <1>4 DEF AnswerNotFound, Return
  <2>2. cur \in Calls /\ inv[cur] = "INCOMING"
    BY <1>0, <2>1 DEF Typed, CallbackFindsItsCell
  <2>3. PICK notFound \in BOOLEAN : Disconnect(cur, notFound)
    BY <1>4, <2>2 DEF AnswerNotFound, Alive
  <2>4. Gone(cur) /\ TimersGone(cur)
    BY <1>0, <2>2, <2>3, DisconnectGone, DisconnectTimers
  <2> QED
    BY <1>0, <2>1, <2>2, <2>4, GoneKeepsTimers, IdleFinds
<1>5. ASSUME AnswerRinging PROVE TimersTrackCalls' /\ CallbackFindsItsCell'
  <2>1. pc = "ringing" /\ pc' = "delay_init" /\ UNCHANGED <<cur, ptr>>
    BY <1>5 DEF AnswerRinging, Goto
  <2>2. cur \in Calls /\ ptr \in Cells /\ inv[cur] = "INCOMING" /\ owner[ptr] = cur
    BY <1>0, <2>1 DEF Typed, CallbackFindsItsCell
  <2>3. inv' = [inv EXCEPT ![cur] = "EARLY"] /\ UNCHANGED <<owner, heap, entry>>
    BY <1>5, <2>2 DEF AnswerRinging, Alive, cellVars
  <2>4. \A k \in Cells : owner[k] = cur => Untimed(k)
    BY <1>0, <2>2, AllTracked DEF Tracked, Untimed
  <2>5. inv'[cur] = "EARLY" /\ \A d \in Calls : d # cur => inv'[d] = inv[d]
    BY <1>0, <2>2, <2>3 DEF Typed
  <2>6. TimersTrackCalls' /\ \A k : Untimed(k) => Untimed(k)'
    BY <1>0, <2>3, <2>4, <2>5, QuietKeepsTimers
  <2>7. Untimed(ptr)'
    BY <2>1, <2>2, <2>4, <2>6 DEF Untimed
  <2> QED
    BY <2>1, <2>2, <2>3, <2>5, <2>6, <2>7 DEF CallbackFindsItsCell
<1>6. ASSUME InitDelay PROVE TimersTrackCalls' /\ CallbackFindsItsCell'
  <2>1. /\ pc = "delay_init" /\ pc' = "delay_schedule"
        /\ entry' = [entry EXCEPT ![<<ptr, "delay">>] = Initialised(cur)]
        /\ UNCHANGED <<cur, ptr, owner, heap, inv>>
    BY <1>6 DEF InitDelay, Goto, slotVars
  <2>2. /\ ptr \in Cells /\ owner[ptr] = cur /\ cur \in Calls /\ inv[cur] = "EARLY"
        /\ Untimed(ptr)
    BY <1>0, <2>1 DEF Typed, CallbackFindsItsCell
  <2>3. <<ptr, "delay">> \in Entries
    BY <2>2 DEF Entries
  <2>4. \A e \in Entries : e[1] # ptr => entry'[e] = entry[e]
    BY <1>0, <2>1, <2>3 DEF Typed
  <2>5. TimersTrackCalls' /\ Untimed(ptr)'
    BY <1>0, <2>1, <2>2, <2>4, UntimedEntry DEF Untimed
  <2>6. entry'[<<ptr, "delay">>].id = cur
    BY <1>0, <2>1, <2>3 DEF Typed, Initialised
  <2> QED
    BY <2>1, <2>2, <2>5, <2>6 DEF CallbackFindsItsCell
<1>7. ASSUME ScheduleDelay PROVE TimersTrackCalls' /\ CallbackFindsItsCell'
  <2>1. pc = "delay_schedule" /\ pc' = "idle"
    BY <1>7 DEF ScheduleDelay, Return
  <2>2. /\ ptr \in Cells /\ owner[ptr] = cur /\ cur \in Calls /\ inv[cur] = "EARLY"
        /\ Untimed(ptr) /\ entry[<<ptr, "delay">>].id = cur
    BY <1>0, <2>1 DEF Typed, CallbackFindsItsCell
  <2>3. CASE Hangup(cur)
    BY <1>0, <2>1, <2>2, <2>3, HangupGone, HangupTimers, GoneKeepsTimers, IdleFinds
  <2>4. CASE ~Hangup(cur)
    <3>1. Schedule(<<ptr, "delay">>) /\ UNCHANGED <<owner, inv>>
      BY <1>7, <2>4 DEF ScheduleDelay
    <3>2. <<ptr, "delay">> \in Entries
      BY <2>2 DEF Entries
    <3>3. TimersTrackCalls'
      BY <1>0, <2>2, <3>1, <3>2, ScheduleTimers
    <3> QED
      BY <2>1, <3>3, IdleFinds
  <2> QED
    BY <2>3, <2>4
<1> QED
  BY <1>1, <1>2, <1>3, <1>4, <1>5, <1>6, <1>7

\* A timer expires: it was the only one of its cell, and the callback gets an
\* entry whose id is the call that owns the cell.
LEMMA FireTimers ==
  ASSUME TimerInv, NEW t \in TimerIds, Fire(t)
  PROVE  TimersTrackCalls' /\ CallbackFindsItsCell'
<1>0. Typed /\ TimersTrackCalls /\ CallbackFindsItsCell
  BY DEF TimerInv
<1> DEFINE e == heap[t]
<1>1. /\ e # NoEntry /\ pc = "idle"
      /\ heap' = [heap EXCEPT ![t] = NoEntry] /\ entry' = [entry EXCEPT ![e].tid = -1]
      /\ UNCHANGED <<owner, inv>>
  BY DEF Fire, Popped, slotVars
<1>2. Tracked(t)
  BY <1>0, <1>1, AllTracked
<1>3. ASSUME NEW s \in TimerIds, heap'[s] # NoEntry
      PROVE  /\ Tracked(s) /\ heap'[s] = heap[s] /\ entry'[heap[s]] = entry[heap[s]]
             /\ heap[s][1] # e[1]
  <2>1. s # t /\ heap'[s] = heap[s]
    BY <1>0, <1>1, <1>3 DEF Typed
  <2>2. Tracked(s)
    BY <1>0, <1>3, <2>1, AllTracked
  <2>3. heap[s][1] # e[1]
    BY <1>0, <1>1, <1>3, <2>1, OneTimerPerCell
  <2>4. entry'[heap[s]] = entry[heap[s]]
    BY <1>0, <1>1, <2>2, <2>3 DEF Tracked, Typed
  <2> QED
    BY <2>1, <2>2, <2>3, <2>4
<1>4. TimersTrackCalls'
  BY <1>1, <1>3 DEF TimersTrackCalls, Tracked
<1>5. entry'[e].id = entry[e].id
  BY <1>0, <1>1, <1>2 DEF Tracked, Typed, TimerEntry
<1>6. CallbackFindsItsCell'
  <2>1. CASE entry[e].cb
    <3>1. pc' \in {"delay_lookup", "timeout_lookup"} /\ fired' = e
      BY <2>1 DEF Fire
    <3>2. \A s \in TimerIds : heap'[s] # NoEntry => heap'[s][1] # e[1]
      BY <1>3
    <3>3. owner'[e[1]] \in Calls /\ entry'[e].id = owner'[e[1]]
      BY <1>1, <1>2, <1>5 DEF Tracked
    <3> QED
      BY <3>1, <3>2, <3>3 DEF CallbackFindsItsCell, Untimed
  <2>2. CASE ~entry[e].cb
    BY <1>1, <2>2, IdleFinds DEF Fire, callback
  <2> QED
    BY <2>1, <2>2
<1> QED
  BY <1>4, <1>6

\* The search by call id brings the callback to the cell its timer lies in.
LEMMA LookupTimers ==
  ASSUME TimerInv, DelayLookup \/ TimeoutLookup
  PROVE  TimersTrackCalls' /\ CallbackFindsItsCell'
<1>0. Typed /\ CellsOwnLiveCalls /\ TimersTrackCalls /\ CallbackFindsItsCell
  BY DEF TimerInv
<1>1. /\ pc \in {"delay_lookup", "timeout_lookup"}
      /\ pc' \in {"answer", "timeout_hangup"}
      /\ cur' = entry[fired].id /\ ptr' = CellOf(cur')
      /\ UNCHANGED <<fired, owner, entry, heap, inv>>
  BY DEF DelayLookup, TimeoutLookup, Lookup, cellVars, slotVars
<1>2. fired \in Entries /\ fired[1] \in Cells
  BY <1>0, <1>1 DEF Typed, Entries
<1>3. cur' = owner[fired[1]] /\ cur' \in Calls /\ Untimed(fired[1])
  BY <1>0, <1>1 DEF CallbackFindsItsCell
<1>4. ptr' = fired[1]
  <2>1. CellOf(cur') \in Cells /\ owner[CellOf(cur')] = cur'
    BY <1>0, <1>2, <1>3, CellOfCorrect DEF Typed
  <2> QED
    BY <1>0, <1>1, <1>2, <1>3, <2>1 DEF CellsOwnLiveCalls
<1>5. TimersTrackCalls' /\ Untimed(fired[1])'
  BY <1>0, <1>1, <1>3, QuietKeepsTimers DEF Untimed
<1> QED
  BY <1>1, <1>2, <1>3, <1>4, <1>5 DEF CallbackFindsItsCell

\* The steps of the two timer callbacks after that.
LEMMA CallbackTimers ==
  ASSUME TimerInv,
         \/ DelayAnswer \/ DelayHangup \/ InitTimeout \/ ScheduleTimeout
         \/ TimeoutHangup \/ TimeoutDone
  PROVE  TimersTrackCalls' /\ CallbackFindsItsCell'
<1>0. Typed /\ CellsOwnLiveCalls /\ TimersTrackCalls /\ CallbackFindsItsCell
  BY DEF TimerInv
<1>1. ptr = fired[1] /\ ptr \in Cells /\ Untimed(ptr) /\ cur \in Calls \cup {NoCall}
  BY <1>0 DEF DelayAnswer, DelayHangup, InitTimeout, ScheduleTimeout, TimeoutHangup,
              TimeoutDone, CallbackFindsItsCell, Typed
<1>2. <<ptr, "delay">> \in Entries /\ <<ptr, "timeout">> \in Entries
  BY <1>1 DEF Entries
<1>3. ASSUME DelayAnswer PROVE TimersTrackCalls' /\ CallbackFindsItsCell'
  <2>1. pc = "answer" /\ owner[ptr] = cur /\ cur # NoCall
    BY <1>0, <1>3 DEF DelayAnswer, CallbackFindsItsCell
  <2>2. CASE AnswerOk
    <3>1. /\ inv' = [inv EXCEPT ![cur] = "CONNECTING"] /\ cur \in Calls
          /\ pc' = "answered"
          /\ UNCHANGED <<owner, heap, entry, cur, ptr, fired>>
      BY <2>2 DEF AnswerOk, Waiting, Goto, cellVars
    <3>2. \A k \in Cells : owner[k] = cur => k = ptr
      BY <1>0, <1>1, <2>1 DEF CellsOwnLiveCalls
    <3>3. inv'[cur] = "CONNECTING" /\ \A d \in Calls : d # cur => inv'[d] = inv[d]
      BY <1>0, <3>1 DEF Typed
    <3>4. TimersTrackCalls' /\ \A k : Untimed(k) => Untimed(k)'
      BY <1>0, <1>1, <3>1, <3>2, <3>3, QuietKeepsTimers
    <3>5. Untimed(ptr)'
      BY <1>1, <3>1 DEF Untimed
    <3> QED
      BY <1>1, <2>1, <3>1, <3>3, <3>4, <3>5 DEF CallbackFindsItsCell
  <2>3. CASE AnswerFails
    <3>1. pc' = "answer_failed" /\ UNCHANGED <<ptr, fired>>
      BY <2>3 DEF AnswerFails, Goto
    <3>2. TimersTrackCalls' /\ \A k : Untimed(k) => Untimed(k)'
      <4>1. CASE Waiting(cur)
        <5>1. cur \in Calls /\ Disconnect(cur, FALSE)
          BY <2>3, <4>1 DEF AnswerFails, Waiting
        <5>2. Gone(cur) /\ TimersGone(cur)
          BY <1>0, <5>1, DisconnectGone, DisconnectTimers
        <5> QED
          BY <1>0, <1>1, <5>2, GoneKeepsTimers
      <4>2. CASE ~Waiting(cur)
        BY <1>0, <2>3, <4>2, QuietKeepsTimers DEF AnswerFails, cellVars
      <4> QED
        BY <4>1, <4>2
    <3>3. \A t \in TimerIds : heap'[t] # NoEntry => heap'[t][1] # ptr
      BY <1>1, <3>2 DEF Untimed
    <3> QED
      BY <1>1, <3>1, <3>2, <3>3 DEF CallbackFindsItsCell, Untimed
  <2> QED
    BY <1>3, <2>2, <2>3 DEF DelayAnswer
<1>4. ASSUME DelayHangup \/ ScheduleTimeout \/ TimeoutHangup
      PROVE  TimersTrackCalls' /\ CallbackFindsItsCell'
  <2>1. CASE Hangup(cur)
    <3>1. Gone(cur) /\ TimersGone(cur)
      BY <1>0, <1>1, <2>1, HangupGone, HangupTimers
    <3>2. TimersTrackCalls' /\ \A k : Untimed(k) => Untimed(k)'
      BY <1>0, <1>1, <3>1, GoneKeepsTimers
    <3>3. \/ pc' = "idle"
          \/ pc' = "timeout_done" /\ UNCHANGED <<ptr, fired>>
      BY <1>4 DEF DelayHangup, ScheduleTimeout, TimeoutHangup, Return, Goto
    <3>4. \A t \in TimerIds : heap'[t] # NoEntry => heap'[t][1] # ptr
      BY <1>1, <3>2 DEF Untimed
    <3> QED
      BY <1>1, <3>2, <3>3, <3>4, IdleFinds DEF CallbackFindsItsCell, Untimed
  <2>2. CASE ~Hangup(cur)
    <3>1. CASE ScheduleTimeout
      <4>1. Schedule(<<ptr, "timeout">>) /\ UNCHANGED <<owner, inv>> /\ pc' = "idle"
        BY <2>2, <3>1 DEF ScheduleTimeout, Return
      <4>2. owner[ptr] = cur /\ cur # NoCall /\ inv[cur] = "CONNECTING"
            /\ entry[<<ptr, "timeout">>].id = cur
        BY <1>0, <3>1 DEF ScheduleTimeout, CallbackFindsItsCell
      <4> QED
        BY <1>0, <1>1, <1>2, <4>1, <4>2, ScheduleTimers, IdleFinds
    <3>2. CASE ~ScheduleTimeout
      <4>1. UNCHANGED <<owner, inv, heap, entry>> /\ pc' = "idle"
        BY <1>1, <1>4, <2>2, <3>2
        DEF DelayHangup, TimeoutHangup, Return, cellVars
      <4> QED
        BY <1>0, <4>1, QuietKeepsTimers, IdleFinds
    <3> QED
      BY <3>1, <3>2
  <2> QED
    BY <2>1, <2>2
<1>5. ASSUME InitTimeout PROVE TimersTrackCalls' /\ CallbackFindsItsCell'
  <2>1. /\ entry' = [entry EXCEPT ![<<ptr, "delay">>].id = NoCall,
                                  ![<<ptr, "timeout">>] = Initialised(cur)]
        /\ pc = "answered" /\ pc' = "timeout_schedule"
        /\ UNCHANGED <<cur, ptr, fired, owner, heap, inv>>
    BY <1>1, <1>5 DEF InitTimeout, Goto, slotVars
  <2>2. owner[ptr] = cur /\ cur # NoCall /\ inv[cur] = "CONNECTING"
    BY <1>0, <2>1 DEF CallbackFindsItsCell
  <2>3. /\ \A e \in Entries : e[1] # ptr => entry'[e] = entry[e]
        /\ entry'[<<ptr, "timeout">>].id = cur
    BY <1>0, <1>2, <2>1 DEF Typed, Initialised
  <2>4. TimersTrackCalls'
    BY <1>0, <1>1, <2>1, <2>3, UntimedEntry
  <2>5. Untimed(ptr)'
    BY <1>1, <2>1 DEF Untimed
  <2> QED
    BY <1>1, <2>1, <2>2, <2>3, <2>4, <2>5 DEF CallbackFindsItsCell
<1>6. ASSUME TimeoutDone PROVE TimersTrackCalls' /\ CallbackFindsItsCell'
  <2>1. /\ entry' = [entry EXCEPT ![<<ptr, "timeout">>].id = NoCall]
        /\ pc' = "idle" /\ UNCHANGED <<owner, heap, inv>>
    BY <1>1, <1>6 DEF TimeoutDone, Return, slotVars
  <2>2. \A e \in Entries : e[1] # ptr => entry'[e] = entry[e]
    BY <1>0, <1>2, <2>1 DEF Typed
  <2> QED
    BY <1>0, <1>1, <2>1, <2>2, UntimedEntry, IdleFinds
<1> QED
  BY <1>3, <1>4, <1>5, <1>6

\* What the caller and the transaction layer do, between two callbacks.
LEMMA RemoteTimers ==
  ASSUME TimerInv, NEW c \in Calls,
         RemoteEnds(c) \/ Ack(c) \/ NoAck(c) \/ ByeDone(c) \/ Reoffer(c)
  PROVE  TimersTrackCalls' /\ CallbackFindsItsCell'
<1>0. Typed /\ CellsOwnLiveCalls /\ TimersTrackCalls
  BY DEF TimerInv
<1>1. pc' = "idle"
  BY DEF RemoteEnds, Ack, NoAck, ByeDone, Reoffer, callback
<1>2. CASE RemoteEnds(c) \/ ByeDone(c)
  <2>1. Disconnect(c, FALSE)
    BY <1>2 DEF RemoteEnds, ByeDone
  <2>2. Gone(c) /\ TimersGone(c)
    BY <1>0, <2>1, DisconnectGone, DisconnectTimers
  <2> QED
    BY <1>0, <1>1, <2>2, GoneKeepsTimers, IdleFinds
<1>3. CASE Ack(c) \/ NoAck(c) \/ Reoffer(c)
  <2>1. \A d \in Calls : inv'[d] = inv[d] \/ (inv[d] = "CONNECTING" /\ inv'[d] = "CONFIRMED")
    BY <1>0, <1>3 DEF Ack, NoAck, Reoffer, Typed
  <2>2. CASE UNCHANGED <<heap, entry, owner>>
    BY <1>0, <1>1, <2>1, <2>2, QuietKeepsTimers, IdleFinds
  <2>3. CASE ~UNCHANGED <<heap, entry, owner>>
    <3>1. /\ OnCallState(c, FALSE) /\ hanging' = [hanging EXCEPT ![c] = TRUE]
          /\ inv'[c] # "NULL" /\ \A d \in Calls : d # c => inv'[d] = inv[d]
      BY <1>0, <1>3, <2>3 DEF Ack, NoAck, Reoffer, MediaUpdate, cellVars, Typed
    <3>2. Gone(c)
      BY <1>0, <3>1, OnCallStateOwner DEF Gone, Typed
    <3>3. TimersGone(c)
      BY <1>0, <3>1, OnCallStateTimers
    <3> QED
      BY <1>0, <1>1, <3>2, <3>3, GoneKeepsTimers, IdleFinds
  <2> QED
    BY <2>2, <2>3
<1> QED
  BY <1>2, <1>3

LEMMA TimersNext ==
  ASSUME {100, 180} \cap Unsendable = {}
  PROVE  TimerInv /\ [Next]_vars => TimerInv'
<1>1. ASSUME TimerInv, Next PROVE TimersTrackCalls' /\ CallbackFindsItsCell'
  <2>1. CASE Step
    BY <1>1, <2>1, IncomingTimers, LookupTimers, CallbackTimers DEF Step
  <2>2. CASE \E t \in TimerIds : Fire(t)
    BY <1>1, <2>2, FireTimers
  <2>3. CASE \E c \in Calls : \E n \in Numbers : Incoming(c, n)
    BY <1>1, <2>3, IncomingTimers
  <2>4. CASE \E c \in Calls : RemoteEnds(c) \/ Ack(c) \/ NoAck(c) \/ ByeDone(c) \/ Reoffer(c)
    BY <1>1, <2>4, RemoteTimers
  <2> QED
    BY <1>1, <2>1, <2>2, <2>3, <2>4 DEF Next, CallEvent
<1>2. ASSUME TimerInv, UNCHANGED vars PROVE TimersTrackCalls' /\ CallbackFindsItsCell'
  BY <1>2 DEF TimerInv, TimersTrackCalls, CallbackFindsItsCell, Untimed,
              vars, cellVars, slotVars, callback
<1>3. Typed /\ CellsOwnLiveCalls /\ [Next]_vars => Typed' /\ CellsOwnLiveCalls'
  BY NextTyped, MatchNext
<1> QED
  BY <1>1, <1>2, <1>3 DEF TimerInv

\* The invariant that the theorems below are read off.
LEMMA TimerInvariant ==
  ASSUME {100, 180} \cap Unsendable = {}
  PROVE  Spec => []TimerInv
<1>1. Init => TimerInv
  BY InitTyped, InitTimers DEF TimerInv, Init, CellsFilled, NothingRuns, CellsOwnLiveCalls, Alive
<1> QED
  BY <1>1, TimersNext, PTL DEF Spec

\* No timer outlives its call, is pending for another one, or cannot be
\* cancelled: whatever the caller does and whenever a timer cannot be scheduled.
THEOREM TimersFollowCalls ==
  ASSUME {100, 180} \cap Unsendable = {}
  PROVE  Spec => []TimersTrackCalls
<1>1. TimerInv => TimersTrackCalls
  BY DEF TimerInv
<1> QED
  BY <1>1, TimerInvariant, PTL

\* A callback always works on the cell of its own call.
THEOREM CallbacksFindTheirCells ==
  ASSUME {100, 180} \cap Unsendable = {}
  PROVE  Spec => []CallbackFindsItsCell
<1>1. TimerInv => CallbackFindsItsCell
  BY DEF TimerInv
<1> QED
  BY <1>1, TimerInvariant, PTL

-----------------------------------------------------------------------------
(* Nothing is reached through NULL *)

\* A live call that is not being hung up has a cell, except where
\* on_incoming_call is about to claim one.
LEMMA LiveCallHasCell ==
  ASSUME Typed, CellsOwnLiveCalls, NEW c \in Calls, Alive(c), ~hanging[c],
         pc \notin {"trying", "claim"}
  PROVE  CellOf(c) # NoCell
BY CellOfCorrect DEF Typed, CellsOwnLiveCalls

\* The only steps that can go through NULL, or hand pjsua an invalid id, are
\* those of the media and timer callbacks: each has a cell in hand.
LEMMA NullNext ==
  ASSUME TimerInv, NoNullCell, Next
  PROVE  NoNullCell'
<1>0. Typed /\ CellsOwnLiveCalls /\ CallbackFindsItsCell
  BY DEF TimerInv
<1>1. crashed = "no"
  BY DEF Next, Live
<1>2. ASSUME NEW c, NEW notFound, Disconnect(c, notFound) PROVE NoNullCell'
  BY <1>1, <1>2 DEF Disconnect, OnCallState, NoNullCell
<1>3. ASSUME NEW c, Hangup(c) PROVE NoNullCell'
  BY <1>1, <1>3 DEF Hangup, OnCallState, NoNullCell
<1>4. ASSUME NEW c \in Calls, MediaUpdate(c), pc = "idle", Alive(c), ~hanging[c]
      PROVE  NoNullCell'
  <2>1. CellOf(c) # NoCell
    BY <1>0, <1>4, LiveCallHasCell
  <2> QED
    BY <1>1, <1>4, <2>1 DEF MediaUpdate, ConnectTone, OnCallState, NoNullCell
<1>5. ASSUME crashed' = crashed PROVE NoNullCell'
  BY <1>5 DEF NoNullCell
<1>6. ASSUME NEW c \in Calls,
             \/ \E n \in Numbers : Incoming(c, n)
             \/ RemoteEnds(c) \/ Ack(c) \/ NoAck(c) \/ ByeDone(c) \/ Reoffer(c)
      PROVE  NoNullCell'
  BY <1>2, <1>4, <1>5, <1>6 DEF Incoming, RemoteEnds, Ack, NoAck, ByeDone, Reoffer, Alive
<1>7. ASSUME \/ AnswerTrying \/ ClaimCell \/ AnswerNotFound \/ AnswerRinging
             \/ InitDelay \/ ScheduleDelay \/ DelayLookup \/ TimeoutLookup
             \/ ScheduleTimeout \/ TimeoutHangup
      PROVE  NoNullCell'
  BY <1>2, <1>3, <1>5, <1>7
  DEF AnswerTrying, ClaimCell, AnswerBusy, TakeCell, AnswerNotFound, AnswerRinging,
      InitDelay, ScheduleDelay, DelayLookup, TimeoutLookup, Lookup, ScheduleTimeout,
      TimeoutHangup
<1>8. ASSUME DelayHangup \/ InitTimeout \/ TimeoutDone PROVE NoNullCell'
  <2>1. ptr # NoCell
    BY <1>0, <1>8 DEF DelayHangup, InitTimeout, TimeoutDone, CallbackFindsItsCell
  <2> QED
    BY <1>3, <1>5, <1>8, <2>1 DEF DelayHangup, InitTimeout, TimeoutDone
<1>9. ASSUME DelayAnswer PROVE NoNullCell'
  <2>1. pc = "answer" /\ ptr \in Cells /\ owner[ptr] = cur /\ cur # NoCall
    BY <1>0, <1>9 DEF DelayAnswer, CallbackFindsItsCell
  <2>2. cur \in Calls /\ CellOf(cur) # NoCell
    BY <1>0, <2>1, CellOfCorrect DEF Typed
  <2>3. CASE AnswerOk
    BY <1>1, <2>2, <2>3 DEF AnswerOk, ConnectTone, NoNullCell
  <2>4. CASE AnswerFails
    BY <1>2, <1>5, <2>2, <2>4 DEF AnswerFails
  <2> QED
    BY <1>9, <2>3, <2>4 DEF DelayAnswer
<1>10. ASSUME NEW t \in TimerIds, Fire(t) PROVE NoNullCell'
  BY <1>5, <1>10 DEF Fire
<1> QED
  BY <1>6, <1>7, <1>8, <1>9, <1>10 DEF Next, CallEvent, Step

\* The callbacks need no test for NULL: none of them ever follows a NULL
\* call_data, or hands pjsua a call id that its assertions reject.
THEOREM NoCallbackFollowsNull ==
  ASSUME {100, 180} \cap Unsendable = {}
  PROVE  Spec => []NoNullCell
<1>1. Init => NoNullCell
  BY InitTimers
<1>2. TimerInv /\ NoNullCell /\ [Next]_vars => NoNullCell'
  BY NullNext DEF NoNullCell, vars
<1> QED
  BY <1>1, <1>2, TimerInvariant, PTL DEF Spec

-----------------------------------------------------------------------------
(* A timer id leads to its own entry or to none *)

\* on_call_state zeroes the entries of one cell and takes only their nodes.
LEMMA OnCallStateFinds ==
  ASSUME Typed, CancelFindsItsNode, NEW c, NEW notFound, OnCallState(c, notFound)
  PROVE  CancelFindsItsNode'
<1> DEFINE k == CellOf(c)
<1>1. CASE k = NoCell
  BY <1>1 DEF OnCallState, CancelFindsItsNode, cellVars
<1>2. CASE k # NoCell
  <2>1. entry' = [e \in Entries |-> IF e[1] = k THEN Zeroed ELSE entry[e]]
    BY <1>2 DEF OnCallState, Release
  <2>2. heap' = heap \/ heap' = HeapAfterCancel(k)
    BY <1>2 DEF OnCallState
  <2>3. 0 \notin TimerIds
    BY DEF TimerIds
  <2>4. ASSUME NEW e \in Entries, entry'[e].tid \in TimerIds
        PROVE  heap'[entry'[e].tid] = e
    <3>1. e[1] # k /\ entry'[e] = entry[e]
      BY <2>1, <2>3, <2>4 DEF Zeroed
    <3>2. heap[entry[e].tid] = e /\ entry[e].tid \in TimerIds
      BY <2>4, <3>1 DEF CancelFindsItsNode
    <3>3. e \notin Cancels(k)
      BY <3>1 DEF Cancels
    <3> QED
      BY <2>2, <3>1, <3>2, <3>3 DEF HeapAfterCancel
  <2> QED
    BY <2>4 DEF CancelFindsItsNode
<1> QED
  BY <1>1, <1>2

\* heap[t] = NoEntry means that no entry is scheduled under t.
LEMMA NoEntryIsNone == NoEntry \notin Entries
<1> SUFFICES ASSUME NEW k, NEW d, NoEntry = <<k, d>> PROVE FALSE
  BY DEF Entries
<1>1. Len(<<k, d>>) = 2 /\ Len(<<>>) = 0
  OBVIOUS
<1> QED
  BY <1>1

\* Neither end of a call breaks the link, whoever ends it.
LEMMA EndFinds ==
  ASSUME Typed, CancelFindsItsNode, NEW c,
         Hangup(c) \/ \E notFound \in BOOLEAN : Disconnect(c, notFound)
  PROVE  CancelFindsItsNode'
<1>1. ASSUME UNCHANGED <<cellVars, heap>> PROVE CancelFindsItsNode'
  BY <1>1 DEF CancelFindsItsNode, cellVars
<1> QED
  BY <1>1, OnCallStateFinds DEF Hangup, Disconnect

\* A free timer id is given to one entry; whatever else that entry was scheduled
\* for is forgotten.
LEMMA ScheduleFinds ==
  ASSUME Typed, CancelFindsItsNode, NEW e \in Entries, Schedule(e)
  PROVE  CancelFindsItsNode'
<1>1. PICK t \in TimerIds : /\ heap[t] = NoEntry
                            /\ heap' = [heap EXCEPT ![t] = e]
                            /\ entry' = [entry EXCEPT ![e].tid = t]
  <2>1. (CHOOSE t \in FreeTimers : TRUE) \in FreeTimers
    BY DEF Schedule
  <2> QED
    BY <2>1 DEF Schedule, FreeTimers
<1>2. ASSUME NEW f \in Entries, entry'[f].tid \in TimerIds
      PROVE  heap'[entry'[f].tid] = f
  <2>1. CASE f = e
    <3>1. entry'[e].tid = t
      BY <1>1 DEF Typed, TimerEntry
    <3> QED
      BY <1>1, <2>1, <3>1 DEF Typed
  <2>2. CASE f # e
    <3>1. entry'[f] = entry[f]
      BY <1>1, <2>2 DEF Typed
    <3>2. heap[entry[f].tid] = f
      BY <1>2, <3>1 DEF CancelFindsItsNode
    <3>3. entry[f].tid # t
      BY <1>1, <3>2, NoEntryIsNone
    <3> QED
      BY <1>1, <1>2, <3>1, <3>2, <3>3 DEF Typed
  <2> QED
    BY <2>1, <2>2
<1> QED
  BY <1>2 DEF CancelFindsItsNode

\* Entries may be initialised anew or told that they are over.
LEMMA WrittenFinds ==
  ASSUME Typed, CancelFindsItsNode, UNCHANGED heap,
         \A e \in Entries : entry'[e].tid = entry[e].tid \/ entry'[e].tid = -1
  PROVE  CancelFindsItsNode'
<1>1. -1 \notin TimerIds
  BY DEF TimerIds
<1> QED
  BY <1>1 DEF CancelFindsItsNode

\* Every step keeps it, those that write to a cell released long ago included.
LEMMA FindsNext == Typed /\ CancelFindsItsNode /\ [Next]_vars => CancelFindsItsNode'
<1> SUFFICES ASSUME Typed, CancelFindsItsNode, [Next]_vars PROVE CancelFindsItsNode'
  OBVIOUS
<1>1. ASSUME UNCHANGED <<heap, entry>> PROVE CancelFindsItsNode'
  BY <1>1 DEF CancelFindsItsNode
<1>2. ASSUME NEW c \in Calls, CallEvent(c) \/ \E n \in Numbers : Incoming(c, n)
      PROVE  CancelFindsItsNode'
  <2>1. CASE UNCHANGED <<heap, entry>>
    BY <1>1, <2>1
  <2>2. CASE ~UNCHANGED <<heap, entry>>
    BY <1>2, <2>2, EndFinds, OnCallStateFinds
    DEF CallEvent, RemoteEnds, Ack, NoAck, ByeDone, Reoffer, MediaUpdate, Incoming, cellVars
  <2> QED
    BY <2>1, <2>2
<1>3. ASSUME NEW t \in TimerIds, Fire(t) PROVE CancelFindsItsNode'
  <2> DEFINE e == heap[t]
  <2>1. /\ e \in Entries /\ heap' = [heap EXCEPT ![t] = NoEntry]
        /\ entry' = [entry EXCEPT ![e].tid = -1]
    BY <1>3 DEF Fire, Popped, Typed
  <2>2. -1 \notin TimerIds
    BY DEF TimerIds
  <2>3. ASSUME NEW f \in Entries, entry'[f].tid \in TimerIds
        PROVE  heap'[entry'[f].tid] = f
    <3>1. f # e
      BY <2>1, <2>2, <2>3 DEF Typed, TimerEntry
    <3>2. entry'[f] = entry[f]
      BY <2>1, <3>1 DEF Typed
    <3>3. heap[entry[f].tid] = f
      BY <2>3, <3>2 DEF CancelFindsItsNode
    <3>4. entry[f].tid # t
      BY <3>1, <3>3
    <3> QED
      BY <2>1, <2>3, <3>2, <3>3, <3>4 DEF Typed
  <2> QED
    BY <2>3 DEF CancelFindsItsNode
<1>4. ASSUME \/ AnswerTrying \/ ClaimCell \/ AnswerNotFound \/ AnswerRinging \/ DelayAnswer
             \/ DelayHangup \/ TimeoutHangup
      PROVE  CancelFindsItsNode'
  <2>1. CASE UNCHANGED <<heap, entry>>
    BY <1>1, <2>1
  <2>2. CASE ~UNCHANGED <<heap, entry>>
    BY <1>4, <2>2, EndFinds
    DEF AnswerTrying, ClaimCell, AnswerBusy, TakeCell, AnswerNotFound, AnswerRinging,
        DelayAnswer, AnswerOk, AnswerFails, DelayHangup, TimeoutHangup, cellVars
  <2> QED
    BY <2>1, <2>2
<1>5. ASSUME DelayLookup \/ TimeoutLookup PROVE CancelFindsItsNode'
  BY <1>1, <1>5 DEF DelayLookup, TimeoutLookup, Lookup, cellVars
<1>6. ASSUME ScheduleDelay \/ ScheduleTimeout PROVE CancelFindsItsNode'
  <2>1. ptr \in Cells
    BY <1>6 DEF ScheduleDelay, ScheduleTimeout, Typed
  <2>2. <<ptr, "delay">> \in Entries /\ <<ptr, "timeout">> \in Entries
    BY <2>1 DEF Entries
  <2> QED
    BY <1>6, <2>2, EndFinds, ScheduleFinds DEF ScheduleDelay, ScheduleTimeout
<1>7. ASSUME InitDelay \/ InitTimeout \/ TimeoutDone PROVE CancelFindsItsNode'
  <2>1. /\ UNCHANGED heap
        /\ \/ UNCHANGED entry
           \/ entry' = [entry EXCEPT ![<<ptr, "delay">>] = Initialised(cur)]
           \/ entry' = [entry EXCEPT ![<<ptr, "delay">>].id = NoCall,
                                     ![<<ptr, "timeout">>] = Initialised(cur)]
           \/ entry' = [entry EXCEPT ![<<ptr, "timeout">>].id = NoCall]
    BY <1>7 DEF InitDelay, InitTimeout, TimeoutDone
  <2>2. ASSUME NEW e \in Entries PROVE entry'[e].tid = entry[e].tid \/ entry'[e].tid = -1
    <3>1. CASE entry' = [entry EXCEPT ![<<ptr, "delay">>] = Initialised(cur)]
      BY <3>1 DEF Typed, Initialised
    <3>2. CASE entry' = [entry EXCEPT ![<<ptr, "delay">>].id = NoCall,
                                      ![<<ptr, "timeout">>] = Initialised(cur)]
      <4>1. <<ptr, "delay">> # <<ptr, "timeout">>
        OBVIOUS
      <4> QED
        BY <3>2, <4>1, SMTT(30) DEF Typed, TimerEntry, Initialised
    <3>3. CASE entry' = [entry EXCEPT ![<<ptr, "timeout">>].id = NoCall]
      BY <3>3 DEF Typed, TimerEntry
    <3> QED
      BY <2>1, <3>1, <3>2, <3>3
  <2> QED
    BY <2>1, <2>2, WrittenFinds
<1>8. CASE UNCHANGED vars
  BY <1>1, <1>8 DEF vars, cellVars
<1> QED
  BY <1>2, <1>3, <1>4, <1>5, <1>6, <1>7, <1>8 DEF Next, Step

\* The assertion of pj_timer_heap_cancel holds, whatever fails and however a cell's
\* memory is used again: the id in an entry never leads to another entry.
THEOREM CancelsFindTheirNodes == Spec => []CancelFindsItsNode
<1>1. Init => CancelFindsItsNode
  <2>1. Junk \notin TimerIds
    BY DEF TimerIds
  <2> QED
    BY <2>1 DEF Init, CellsFilled, CancelFindsItsNode, Unwritten
<1> QED
  BY <1>1, FindsNext, TypesHold, PTL DEF Spec

-----------------------------------------------------------------------------
(* Every live call has a timer, although the 180 may fail *)

\* A node of the heap leads to timer entry d of cell k.
Pending(k, d) == \E t \in TimerIds : heap[t] = <<k, d>>

\* The callback of entry e will work on call c.
Runs(e, c) == entry[e].id = c /\ entry[e].cb

\* The callback in progress has found its cell, or works without one.
Working == Labels \ {"idle", "trying", "claim", "delay_lookup", "timeout_lookup"}

\* The callback in progress will answer call c, schedule its timer or end it.
InHand(c) ==
  \/ cur = c /\ pc \in Working \ {"timeout_done"}
  \/ pc \in {"delay_lookup", "timeout_lookup"} /\ entry[fired].id = c

Timed(k) ==
  \/ InHand(owner[k])
  \/ Runs(<<k, "delay">>, owner[k]) /\ Pending(k, "delay")
  \/ Runs(<<k, "timeout">>, owner[k]) /\ Pending(k, "timeout")

CellsTimed == \A k \in Cells : owner[k] \in Calls => Timed(k)

\* When a call ends before its delay timer is scheduled, the timer is pending in a
\* cell that is released, and a later call of that cell shares it.  Of the duration
\* timers none is ever left behind.
DurationsTrack ==
  \A t \in TimerIds, k \in Cells : heap[t] = <<k, "timeout">> =>
    /\ entry[<<k, "timeout">>].tid = t
    /\ entry[<<k, "timeout">>].id = owner[k]
    /\ owner[k] \in Calls /\ inv[owner[k]] \in Up

\* What the callback in progress knows of its cell, even when its call is over.
CallbackTimes ==
  /\ pc \in Working =>
       /\ ptr \in Cells => owner[ptr] \in {cur, NoCall}
       /\ \A k \in Cells : owner[k] = cur /\ cur # NoCall => k = ptr
  /\ pc = "delay_schedule" => Runs(<<ptr, "delay">>, cur)
  /\ pc = "timeout_schedule" => Runs(<<ptr, "timeout">>, cur)
  /\ pc \in {"answered", "timeout_schedule"} =>
       /\ ptr \in Cells /\ cur \in Calls /\ owner[ptr] = cur
       /\ inv[cur] = "CONNECTING" /\ ~Pending(ptr, "timeout")
  /\ pc = "timeout_done" => ptr = NoCell \/ owner[ptr] = NoCall

TimedInv == CellsTimed /\ DurationsTrack /\ CallbackTimes

\* What TimedInv is inductive with.
Ground == Typed /\ CellsOwnLiveCalls /\ FreeCellForNewCall /\ Served

\* Both timer entries of a cell are entries.
LEMMA EntriesAre ==
  ASSUME NEW k \in Cells
  PROVE  <<k, "delay">> \in Entries /\ <<k, "timeout">> \in Entries
BY DEF Entries

\* The end of call c, or the beginning of its end, leaves the timers of the other
\* cells alone and takes the duration timer of its own.
EndsTimers(c) ==
  /\ \A e \in Entries : owner[e[1]] # c =>
       entry'[e] = entry[e] /\ \A t \in TimerIds : heap[t] = e => heap'[t] = e
  /\ \A t \in TimerIds : heap'[t] \in {heap[t], NoEntry}
  /\ \A t \in TimerIds, k \in Cells : heap'[t] = <<k, "timeout">> => owner[k] # c

\* When no cell belongs to the call, leaving all timers alone will do.
LEMMA NothingEndsTimers ==
  ASSUME Typed, DurationsTrack, NEW c, UNCHANGED <<entry, heap>>,
         \A k \in Cells : owner[k] \in Calls => owner[k] # c
  PROVE  EndsTimers(c)
BY DEF EndsTimers, DurationsTrack

\* on_call_state finds the duration timer by its id; after a 404 it does not look,
\* and there is none.
LEMMA OnCallStateEnds ==
  ASSUME Ground, DurationsTrack, NEW c \in Calls, NEW notFound \in BOOLEAN,
         OnCallState(c, notFound), notFound => inv[c] \notin Up
  PROVE  EndsTimers(c)
<1> DEFINE j == CellOf(c)
<1>0. Typed /\ CellsOwnLiveCalls
  BY DEF Ground
<1>1. CASE j = NoCell
  <2>1. \A k \in Cells : owner[k] # c
    BY <1>0, <1>1, CellOfCorrect DEF Typed
  <2> QED
    BY <1>0, <1>1, <2>1, NothingEndsTimers DEF OnCallState, cellVars
<1>2. CASE j # NoCell
  <2>1. j \in Cells /\ owner[j] = c
    BY <1>0, <1>2, CellOfCorrect DEF Typed
  <2>2. \A k \in Cells : owner[k] = c => k = j
    BY <1>0, <2>1 DEF CellsOwnLiveCalls
  <2>3. /\ entry' = [e \in Entries |-> IF e[1] = j THEN Zeroed ELSE entry[e]]
        /\ heap' = IF notFound THEN heap ELSE HeapAfterCancel(j)
    BY <1>2 DEF OnCallState, Release
  <2>4. \A t \in TimerIds : heap'[t] \in {heap[t], NoEntry}
    BY <2>3 DEF HeapAfterCancel
  <2>5. ASSUME NEW e \in Entries, owner[e[1]] # c
        PROVE  entry'[e] = entry[e] /\ \A t \in TimerIds : heap[t] = e => heap'[t] = e
    <3>1. e[1] # j
      BY <2>1, <2>5
    <3>2. e \notin Cancels(j)
      BY <3>1 DEF Cancels
    <3> QED
      BY <2>3, <3>1, <3>2 DEF HeapAfterCancel
  <2>6. ASSUME NEW t \in TimerIds, NEW k \in Cells, heap'[t] = <<k, "timeout">>, owner[k] = c
        PROVE  FALSE
    <3> DEFINE e == <<j, "timeout">>
    <3>1. heap'[t] = e /\ e \in Entries
      BY <2>2, <2>6, EntriesAre
    <3>2. heap[t] = e
      BY <2>4, <3>1, NoEntryIsNone
    <3>3. entry[e].tid = t /\ entry[e].id = c /\ inv[c] \in Up
      BY <2>1, <3>2 DEF DurationsTrack
    <3>4. e \in Cancels(j)
      BY <3>3 DEF Cancels
    <3> HIDE DEF e
    <3>5. HeapAfterCancel(j)[t] = NoEntry
      BY <3>2, <3>3, <3>4 DEF HeapAfterCancel
    <3> QED
      BY <2>3, <3>1, <3>3, <3>5, NoEntryIsNone
  <2> QED
    BY <2>4, <2>5, <2>6 DEF EndsTimers
<1> QED
  BY <1>1, <1>2

\* A session that reaches DISCONNECTED ends its call's timers; one being hung up had
\* none ...
LEMMA DisconnectEndsTimers ==
  ASSUME Ground, DurationsTrack, NEW c \in Calls, NEW notFound \in BOOLEAN,
         Disconnect(c, notFound), notFound => inv[c] \notin Up
  PROVE  EndsTimers(c) /\ Gone(c)
<1>0. Typed /\ CellsOwnLiveCalls
  BY DEF Ground
<1>1. CASE hanging[c]
  <2>1. \A k \in Cells : owner[k] # c
    BY <1>1, <1>0 DEF CellsOwnLiveCalls
  <2> QED
    BY <1>0, <1>1, <2>1, NothingEndsTimers, DisconnectGone DEF Disconnect, cellVars
<1>2. CASE ~hanging[c]
  BY <1>0, <1>2, OnCallStateEnds, DisconnectGone DEF Disconnect
<1> QED
  BY <1>1, <1>2

\* ... and so does pjsua_call_hangup.
LEMMA HangupEndsTimers ==
  ASSUME Ground, DurationsTrack, NEW c \in Calls \cup {NoCall}, Hangup(c)
  PROVE  EndsTimers(c) /\ Gone(c)
<1>0. Typed /\ CellsOwnLiveCalls
  BY DEF Ground
<1>1. CASE c \notin Calls \/ ~Alive(c) \/ hanging[c]
  <2>1. \A k \in Cells : owner[k] \in Calls => owner[k] # c
    BY <1>0, <1>1 DEF CellsOwnLiveCalls
  <2> QED
    BY <1>0, <1>1, <2>1, NothingEndsTimers, HangupGone DEF Hangup, cellVars
<1>2. CASE ~(c \notin Calls \/ ~Alive(c) \/ hanging[c])
  <2>1. c \in Calls /\ OnCallState(c, FALSE)
    BY <1>2 DEF Hangup
  <2> QED
    BY <1>0, <2>1, OnCallStateEnds, HangupGone
<1> QED
  BY <1>1, <1>2

\* The end of one call takes no other call's timer.
LEMMA EndKeepsTimed ==
  ASSUME Ground, CellsTimed, DurationsTrack, NEW c \in Calls \cup {NoCall},
         Gone(c), EndsTimers(c),
         \A b \in Calls : InHand(b) => b = c
  PROVE  CellsTimed' /\ DurationsTrack'
<1>0. Typed
  BY DEF Ground
<1>1. ASSUME NEW k \in Cells, owner'[k] \in Calls
      PROVE  owner[k] = owner'[k] /\ owner[k] # c /\ owner[k] \in Calls
  BY <1>1, SizeAssumption DEF Gone
<1>2. ASSUME NEW k \in Cells, owner[k] # c, NEW d \in {"delay", "timeout"}
      PROVE  /\ entry'[<<k, d>>] = entry[<<k, d>>]
             /\ \A t \in TimerIds : heap[t] = <<k, d>> => heap'[t] = <<k, d>>
  <2> DEFINE e == <<k, d>>
  <2>1. e \in Entries /\ e[1] = k
    BY EntriesAre
  <2> HIDE DEF e
  <2>2. entry'[e] = entry[e] /\ \A t \in TimerIds : heap[t] = e => heap'[t] = e
    BY <1>2, <2>1 DEF EndsTimers
  <2> QED
    BY <2>2 DEF e
<1>3. CellsTimed'
  <2> SUFFICES ASSUME NEW k \in Cells, owner'[k] \in Calls PROVE Timed(k)'
    BY DEF CellsTimed
  <2>1. owner[k] = owner'[k] /\ owner[k] # c /\ owner[k] \in Calls
    BY <1>1
  <2>2. Timed(k) /\ ~InHand(owner[k])
    BY <2>1 DEF CellsTimed
  <2> QED
    BY <1>2, <2>1, <2>2 DEF Timed, Runs, Pending
<1>4. DurationsTrack'
  <2> SUFFICES ASSUME NEW t \in TimerIds, NEW k \in Cells, heap'[t] = <<k, "timeout">>
               PROVE  /\ entry'[<<k, "timeout">>].tid = t
                      /\ entry'[<<k, "timeout">>].id = owner'[k]
                      /\ owner'[k] \in Calls /\ inv'[owner'[k]] \in Up
    BY DEF DurationsTrack
  <2>1. owner[k] # c /\ heap[t] = <<k, "timeout">>
    BY EntriesAre, NoEntryIsNone DEF EndsTimers
  <2>2. /\ entry[<<k, "timeout">>].tid = t
        /\ entry[<<k, "timeout">>].id = owner[k]
        /\ owner[k] \in Calls /\ inv[owner[k]] \in Up
    BY <2>1 DEF DurationsTrack
  <2>3. owner'[k] = owner[k] /\ inv'[owner[k]] = inv[owner[k]]
    BY <2>1, <2>2 DEF Gone
  <2> QED
    BY <1>2, <2>1, <2>2, <2>3
<1> QED
  BY <1>3, <1>4

\* A step that changes neither timers nor cells keeps them timed.
LEMMA QuietKeepsTimed ==
  ASSUME Ground, CellsTimed, DurationsTrack, UNCHANGED <<owner, entry, heap>>,
         \A b \in Calls : inv[b] \in Up => inv'[b] \in Up,
         \A k \in Cells : owner[k] \in Calls /\ InHand(owner[k]) => InHand(owner[k])'
  PROVE  CellsTimed' /\ DurationsTrack'
<1>1. CellsTimed'
  <2> SUFFICES ASSUME NEW k \in Cells, owner[k] \in Calls PROVE Timed(k)'
    BY DEF CellsTimed
  <2>1. Timed(k)
    BY DEF CellsTimed
  <2> QED
    BY <2>1 DEF Timed, Runs, Pending
<1>2. DurationsTrack'
  BY DEF DurationsTrack
<1> QED
  BY <1>1, <1>2

\* A callback that has no cell in hand needs to know nothing of it.
LEMMA NotWorking ==
  ASSUME pc' \notin Working
  PROVE  CallbackTimes'
BY DEF CallbackTimes, Working, Labels

\* A callback that goes on still has its cell, or a cell that is free.
LEMMA StillFound ==
  ASSUME CallbackTimes, pc \in Working, UNCHANGED <<cur, ptr>>,
         \A k \in Cells : owner'[k] \in {owner[k], NoCall}
  PROVE  /\ ptr' \in Cells => owner'[ptr'] \in {cur', NoCall}
         /\ \A k \in Cells : owner'[k] = cur' /\ cur' # NoCall => k = ptr'
BY DEF CallbackTimes

\* Once the callback has looked its call up it has no other in hand ...
LEMMA OnlyCurInHand ==
  ASSUME pc \notin {"delay_lookup", "timeout_lookup"}
  PROVE  \A b : InHand(b) => b = cur /\ pc \in Working \ {"timeout_done"}
BY DEF InHand

\* ... and before it claims a cell it has none that owns one.
LEMMA IdleHandsEmpty == pc \in {"idle", "trying", "claim"} => \A b : ~InHand(b)
BY DEF InHand, Working

\* A callback writes the entries of its own cell only.
LEMMA WriteKeepsTimed ==
  ASSUME Ground, CellsTimed, DurationsTrack, UNCHANGED <<owner, heap, inv>>,
         \A e \in Entries : e[1] # ptr => entry'[e] = entry[e],
         \/ ~Pending(ptr, "timeout")
         \/ entry'[<<ptr, "timeout">>] = entry[<<ptr, "timeout">>],
         pc \notin {"delay_lookup", "timeout_lookup"},
         \A k \in Cells : owner[k] \in Calls /\ (k = ptr \/ InHand(owner[k])) => InHand(owner[k])'
  PROVE  CellsTimed' /\ DurationsTrack'
<1>1. ASSUME NEW k \in Cells, k # ptr
      PROVE  /\ entry'[<<k, "delay">>] = entry[<<k, "delay">>]
             /\ entry'[<<k, "timeout">>] = entry[<<k, "timeout">>]
  BY <1>1, EntriesAre
<1>2. CellsTimed'
  <2> SUFFICES ASSUME NEW k \in Cells, owner[k] \in Calls, k # ptr, ~InHand(owner[k])
               PROVE  Timed(k)'
    BY DEF CellsTimed, Timed
  <2>1. Timed(k)
    BY DEF CellsTimed
  <2> QED
    BY <1>1, <2>1 DEF Timed, Runs, Pending
<1>3. DurationsTrack'
  <2> SUFFICES ASSUME NEW t \in TimerIds, NEW k \in Cells, heap[t] = <<k, "timeout">>
               PROVE  entry'[<<k, "timeout">>] = entry[<<k, "timeout">>]
    BY DEF DurationsTrack
  <2> QED
    BY <1>1 DEF Pending
<1> QED
  BY <1>2, <1>3

\* A timer is scheduled for the call in hand.
LEMMA ScheduleKeepsTimed ==
  ASSUME Ground, TimedInv, NEW d \in {"delay", "timeout"}, ptr \in Cells,
         Schedule(<<ptr, d>>), UNCHANGED <<owner, inv>>,
         pc \in {"delay_schedule", "timeout_schedule"}, pc' = "idle",
         Runs(<<ptr, d>>, cur),
         d = "timeout" => pc = "timeout_schedule"
  PROVE  TimedInv'
<1>0. Typed /\ CellsTimed /\ DurationsTrack /\ CallbackTimes
  BY DEF Ground, TimedInv
<1> DEFINE e == <<ptr, d>>
<1>1. e \in Entries
  BY EntriesAre
<1>2. PICK t \in TimerIds : /\ heap[t] = NoEntry
                            /\ heap' = [heap EXCEPT ![t] = e]
                            /\ entry' = [entry EXCEPT ![e].tid = t]
  <2>1. (CHOOSE t \in FreeTimers : TRUE) \in FreeTimers
    BY DEF Schedule
  <2> QED
    BY <2>1 DEF Schedule, FreeTimers
<1>3. /\ \A f \in Entries : entry'[f].id = entry[f].id /\ entry'[f].cb = entry[f].cb
      /\ \A f \in Entries : f # e => entry'[f] = entry[f]
      /\ entry'[e].tid = t
  <2> HIDE DEF e
  <2> QED
    BY <1>0, <1>1, <1>2 DEF Typed, TimerEntry
<1>4. heap'[t] = e /\ \A s \in TimerIds : s # t => heap'[s] = heap[s]
  BY <1>0, <1>2 DEF Typed
<1>5. \A s \in TimerIds : heap[s] \in Entries => heap'[s] = heap[s]
  BY <1>2, <1>4, NoEntryIsNone
<1>6. CellsTimed'
  <2> SUFFICES ASSUME NEW k \in Cells, owner[k] \in Calls PROVE Timed(k)'
    BY DEF CellsTimed
  <2>1. CASE owner[k] = cur
    <3>1. k = ptr
      BY <1>0, <2>1 DEF CallbackTimes, Working, Labels
    <3>2. entry'[e].id = cur /\ entry'[e].cb
      BY <1>1, <1>3 DEF Runs
    <3> QED
      BY <1>4, <2>1, <3>1, <3>2 DEF Timed, Runs, Pending
  <2>2. CASE owner[k] # cur
    <3>1. ~InHand(owner[k])
      BY <2>2, OnlyCurInHand
    <3>2. Timed(k)
      BY <1>0 DEF CellsTimed
    <3> QED
      BY <1>3, <1>5, <3>1, <3>2, EntriesAre DEF Timed, Runs, Pending
  <2> QED
    BY <2>1, <2>2
<1>7. DurationsTrack'
  <2> SUFFICES ASSUME NEW s \in TimerIds, NEW k \in Cells, heap'[s] = <<k, "timeout">>
               PROVE  /\ entry'[<<k, "timeout">>].tid = s
                      /\ entry'[<<k, "timeout">>].id = owner[k]
                      /\ owner[k] \in Calls /\ inv[owner[k]] \in Up
    BY DEF DurationsTrack
  <2>1. CASE s = t
    <3>1. k = ptr /\ d = "timeout" /\ pc = "timeout_schedule"
      BY <1>4, <2>1
    <3> QED
      BY <1>0, <1>1, <1>3, <2>1, <3>1 DEF CallbackTimes, Runs, Up
  <2>2. CASE s # t
    <3>1. heap[s] = <<k, "timeout">>
      BY <1>4, <2>2
    <3>2. <<k, "timeout">> # e
      <4> SUFFICES ASSUME <<k, "timeout">> = e PROVE FALSE
        OBVIOUS
      <4>1. k = ptr /\ pc = "timeout_schedule"
        OBVIOUS
      <4> QED
        BY <1>0, <3>1, <4>1 DEF CallbackTimes, Pending
    <3>3. entry'[<<k, "timeout">>] = entry[<<k, "timeout">>]
      BY <1>3, <3>2, EntriesAre
    <3> QED
      BY <1>0, <3>1, <3>3 DEF DurationsTrack
  <2> QED
    BY <2>1, <2>2
<1>8. CallbackTimes'
  BY NotWorking DEF Working
<1> QED
  BY <1>6, <1>7, <1>8 DEF TimedInv

\* An expired timer is popped; the callback has its call in hand.
LEMMA FireKeepsTimed ==
  ASSUME Ground, TimedInv, NEW t \in TimerIds, Fire(t)
  PROVE  TimedInv'
<1>0. Typed /\ CellsTimed /\ DurationsTrack
  BY DEF Ground, TimedInv
<1> DEFINE e == heap[t]
<1>1. /\ e \in Entries /\ pc = "idle"
      /\ heap' = [heap EXCEPT ![t] = NoEntry] /\ entry' = [entry EXCEPT ![e].tid = -1]
      /\ UNCHANGED <<owner, inv>>
  BY <1>0 DEF Fire, Popped, slotVars, Typed
<1>2. /\ \A f \in Entries : entry'[f].id = entry[f].id /\ entry'[f].cb = entry[f].cb
      /\ \A f \in Entries : f # e => entry'[f] = entry[f]
  <2> HIDE DEF e
  <2> QED
    BY <1>0, <1>1 DEF Typed, TimerEntry
<1>3. heap'[t] = NoEntry /\ \A s \in TimerIds : s # t => heap'[s] = heap[s]
  BY <1>0, <1>1 DEF Typed
<1>4. entry[e].cb => pc' \in {"delay_lookup", "timeout_lookup"} /\ fired' = e
  BY DEF Fire
<1>5. CellsTimed'
  <2> SUFFICES ASSUME NEW k \in Cells, owner[k] \in Calls PROVE Timed(k)'
    BY <1>1 DEF CellsTimed
  <2>1. PICK d \in {"delay", "timeout"} : Runs(<<k, d>>, owner[k]) /\ Pending(k, d)
    BY <1>0, <1>1, IdleHandsEmpty DEF CellsTimed, Timed
  <2>2. <<k, d>> \in Entries
    BY EntriesAre
  <2>3. CASE e = <<k, d>>
    <3>1. entry[e].cb /\ entry[e].id = owner[k]
      BY <2>1, <2>3 DEF Runs
    <3>2. pc' \in {"delay_lookup", "timeout_lookup"} /\ entry'[fired'].id = owner'[k]
      BY <1>1, <1>2, <1>4, <3>1
    <3>3. InHand(owner[k])'
      BY <3>2 DEF InHand
    <3> QED
      BY <3>3 DEF Timed
  <2>4. CASE e # <<k, d>>
    <3>1. PICK s \in TimerIds : heap[s] = <<k, d>>
      BY <2>1 DEF Pending
    <3>2. heap'[s] = <<k, d>>
      BY <1>3, <2>4, <3>1
    <3>3. entry'[<<k, d>>] = entry[<<k, d>>]
      BY <1>2, <2>2, <2>4
    <3> QED
      BY <1>1, <2>1, <3>2, <3>3 DEF Timed, Runs, Pending
  <2> QED
    BY <2>3, <2>4
<1>6. DurationsTrack'
  <2> SUFFICES ASSUME NEW s \in TimerIds, NEW k \in Cells, heap'[s] = <<k, "timeout">>
               PROVE  /\ entry'[<<k, "timeout">>].tid = s
                      /\ entry'[<<k, "timeout">>].id = owner[k]
                      /\ owner[k] \in Calls /\ inv[owner[k]] \in Up
    BY <1>1 DEF DurationsTrack
  <2>1. s # t /\ heap[s] = <<k, "timeout">>
    BY <1>3, EntriesAre, NoEntryIsNone
  <2>2. e # <<k, "timeout">>
    <3>1. \A r \in TimerIds : heap[r] = <<k, "timeout">> => entry[<<k, "timeout">>].tid = r
      BY <1>0 DEF DurationsTrack
    <3> QED
      BY <2>1, <3>1
  <2>3. entry'[<<k, "timeout">>] = entry[<<k, "timeout">>]
    BY <1>2, <2>2, EntriesAre
  <2> QED
    BY <1>0, <2>1, <2>3 DEF DurationsTrack
<1>7. CallbackTimes'
  BY <1>1, NotWorking DEF Fire, Working, callback
<1> QED
  BY <1>5, <1>6, <1>7 DEF TimedInv

\* on_incoming_call, up to the claim of a cell.
LEMMA ClaimTimed ==
  ASSUME Ground, TimedInv, 100 \notin Unsendable,
         AnswerTrying \/ ClaimCell \/ \E c \in Calls, n \in Numbers : Incoming(c, n)
  PROVE  TimedInv'
<1>0. Typed /\ CellsOwnLiveCalls /\ FreeCellForNewCall /\ CellsTimed /\ DurationsTrack
  BY DEF Ground, TimedInv
<1>1. ASSUME NEW c \in Calls, NEW n \in Numbers, Incoming(c, n) PROVE TimedInv'
  <2>1. /\ inv[c] = "NULL" /\ inv' = [inv EXCEPT ![c] = "INCOMING"]
        /\ pc = "idle" /\ pc' = "trying" /\ UNCHANGED <<owner, entry, heap>>
    BY <1>1 DEF Incoming, AllocCall, FreeSlots, cellVars
  <2>2. \A b \in Calls : inv[b] \in Up => inv'[b] \in Up
    BY <1>0, <2>1 DEF Up, Typed
  <2> QED
    BY <1>0, <2>1, <2>2, QuietKeepsTimed, IdleHandsEmpty, NotWorking DEF Working, TimedInv
<1>2. ASSUME AnswerTrying PROVE TimedInv'
  <2>1. pc = "trying" /\ pc' = "claim" /\ UNCHANGED <<owner, entry, heap, inv>>
    BY <1>2 DEF AnswerTrying, Goto, cellVars
  <2> QED
    BY <1>0, <2>1, QuietKeepsTimed, IdleHandsEmpty, NotWorking DEF Working, TimedInv
<1>3. ASSUME ClaimCell PROVE TimedInv'
  <2>1. /\ pc = "claim" /\ cur \in Calls /\ FreeCell # NoCell
        /\ FreeCell \in Cells /\ owner[FreeCell] = NoCall
    BY <1>0, <1>3, CellOfCorrect
    DEF ClaimCell, FreeCellForNewCall, FreeCell, Typed
  <2>2. /\ owner' = [owner EXCEPT ![FreeCell] = cur]
        /\ ptr' = FreeCell /\ pc' \in {"not_found", "ringing"}
        /\ UNCHANGED <<cur, inv, entry, heap>>
    BY <1>3, <2>1 DEF ClaimCell, TakeCell
  <2>3. owner'[FreeCell] = cur /\ \A k \in Cells : k # FreeCell => owner'[k] = owner[k]
    BY <1>0, <2>1, <2>2 DEF Typed
  <2>4. InHand(cur)'
    BY <2>2 DEF InHand, Working, Labels
  <2>5. CellsTimed'
    <3> SUFFICES ASSUME NEW k \in Cells, owner'[k] \in Calls PROVE Timed(k)'
      BY DEF CellsTimed
    <3>1. CASE k = FreeCell
      BY <2>2, <2>3, <2>4, <3>1 DEF Timed, InHand
    <3>2. CASE k # FreeCell
      <4>1. owner'[k] = owner[k] /\ Timed(k) /\ ~InHand(owner[k])
        BY <1>0, <2>1, <2>3, <3>2, IdleHandsEmpty DEF CellsTimed
      <4> QED
        BY <2>2, <4>1 DEF Timed, Runs, Pending
    <3> QED
      BY <3>1, <3>2
  <2>6. DurationsTrack'
    <3> SUFFICES ASSUME NEW t \in TimerIds, NEW k \in Cells, heap[t] = <<k, "timeout">>
                 PROVE  owner'[k] = owner[k]
      BY <1>0, <2>2 DEF DurationsTrack
    <3>1. owner[k] \in Calls
      BY <1>0 DEF DurationsTrack
    <3> QED
      BY <2>1, <2>3, <3>1, SizeAssumption
  <2>7. CallbackTimes'
    <3>1. \A k \in Cells : owner'[k] = cur => k = FreeCell
      BY <1>0, <2>1, <2>3 DEF CellsOwnLiveCalls
    <3> QED
      BY <2>2, <2>3, <3>1 DEF CallbackTimes
  <2> QED
    BY <2>5, <2>6, <2>7 DEF TimedInv
<1> QED
  BY <1>1, <1>2, <1>3

\* A step in which the call in hand ends.
LEMMA CurEndsTimed ==
  ASSUME Ground, TimedInv, pc \notin {"delay_lookup", "timeout_lookup"},
         Gone(cur), EndsTimers(cur),
         \/ pc' \notin Working
         \/ /\ pc \in Working /\ UNCHANGED <<cur, ptr>>
            /\ pc' \in {"delay_init", "answer_failed", "timeout_done"}
            /\ pc' = "timeout_done" => pc = "timeout_hangup" /\ cur # NoCall
  PROVE  TimedInv'
<1>0. Typed /\ CellsTimed /\ DurationsTrack /\ CallbackTimes
  BY DEF Ground, TimedInv
<1>1. CellsTimed' /\ DurationsTrack'
  BY <1>0, EndKeepsTimed, OnlyCurInHand DEF Typed
<1>2. CASE pc' \notin Working
  BY <1>1, <1>2, NotWorking DEF TimedInv
<1>3. CASE pc' \in Working
  <2>1. \A k \in Cells : owner'[k] = IF owner[k] = cur THEN NoCall ELSE owner[k]
    BY DEF Gone
  <2>2. pc \in Working /\ UNCHANGED <<cur, ptr>>
    BY <1>3
  <2>3. /\ ptr' \in Cells => owner'[ptr'] \in {cur', NoCall}
        /\ \A k \in Cells : owner'[k] = cur' /\ cur' # NoCall => k = ptr'
    BY <1>0, <2>1, <2>2, StillFound
  <2>4. pc' = "timeout_done" => ptr' = NoCell \/ owner'[ptr'] = NoCall
    BY <1>0, <2>1, <2>2 DEF CallbackTimes, Typed
  <2> QED
    BY <1>1, <1>3, <2>3, <2>4 DEF TimedInv, CallbackTimes
<1> QED
  BY <1>2, <1>3

\* The rest of on_incoming_call.
LEMMA AnswerTimed ==
  ASSUME Ground, TimedInv, AnswerNotFound \/ AnswerRinging \/ InitDelay \/ ScheduleDelay
  PROVE  TimedInv'
<1>0. /\ Typed /\ CellsOwnLiveCalls /\ Served /\ ArrivalsWait
      /\ CellsTimed /\ DurationsTrack /\ CallbackTimes
  BY DEF Ground, TimedInv, Served
<1>1. ASSUME AnswerNotFound PROVE TimedInv'
  <2>1. pc = "not_found" /\ pc' = "idle"
    BY <1>1 DEF AnswerNotFound, Return
  <2>2. cur \in Calls /\ inv[cur] = "INCOMING"
    BY <1>0, <2>1 DEF Typed, ArrivalsWait, Arrives
  <2>3. PICK notFound \in BOOLEAN : Disconnect(cur, notFound)
    BY <1>1, <2>2 DEF AnswerNotFound, Alive
  <2>4. Gone(cur) /\ EndsTimers(cur)
    BY <1>0, <2>2, <2>3, DisconnectEndsTimers DEF Up
  <2> QED
    BY <2>1, <2>4, CurEndsTimed DEF Working
<1>2. ASSUME AnswerRinging PROVE TimedInv'
  <2>1. pc = "ringing" /\ pc' = "delay_init" /\ UNCHANGED <<cur, ptr>>
    BY <1>2 DEF AnswerRinging, Goto
  <2>2. cur \in Calls /\ inv[cur] = "INCOMING"
    BY <1>0, <2>1 DEF Typed, ArrivalsWait, Arrives
  <2>3. CASE Disconnect(cur, FALSE)
    <3>1. Gone(cur) /\ EndsTimers(cur)
      BY <1>0, <2>2, <2>3, DisconnectEndsTimers
    <3> QED
      BY <2>1, <3>1, CurEndsTimed DEF Working, Labels
  <2>4. CASE ~Disconnect(cur, FALSE)
    <3>1. inv' = [inv EXCEPT ![cur] = "EARLY"] /\ UNCHANGED <<owner, entry, heap>>
      BY <1>2, <2>2, <2>4 DEF AnswerRinging, Alive, cellVars
    <3>2. \A b \in Calls : inv[b] \in Up => inv'[b] \in Up
      BY <1>0, <2>2, <3>1 DEF Up, Typed
    <3>3. \A b : InHand(b) => b = cur
      BY <2>1, OnlyCurInHand
    <3>4. \A k \in Cells : InHand(owner[k]) => InHand(owner[k])'
      BY <2>1, <3>1, <3>3 DEF InHand, Working, Labels
    <3>5. CellsTimed' /\ DurationsTrack'
      BY <1>0, <3>1, <3>2, <3>4, QuietKeepsTimed
    <3>6. CallbackTimes'
      BY <1>0, <2>1, <3>1, StillFound DEF CallbackTimes, Working, Labels
    <3> QED
      BY <3>5, <3>6 DEF TimedInv
  <2> QED
    BY <2>3, <2>4
<1>3. ASSUME InitDelay PROVE TimedInv'
  <2> DEFINE e == <<ptr, "delay">>
  <2>1. /\ pc = "delay_init" /\ pc' = "delay_schedule"
        /\ entry' = [entry EXCEPT ![e] = Initialised(cur)]
        /\ UNCHANGED <<cur, ptr, owner, heap, inv>>
    BY <1>3 DEF InitDelay, Goto, slotVars
  <2>2. ptr \in Cells /\ e \in Entries
    BY <1>0, <2>1, EntriesAre DEF Typed
  <2>3. /\ \A f \in Entries : f # e => entry'[f] = entry[f]
        /\ entry'[e] = Initialised(cur)
    <3> HIDE DEF e
    <3> QED
      BY <1>0, <2>1, <2>2 DEF Typed
  <2>4. entry'[<<ptr, "timeout">>] = entry[<<ptr, "timeout">>]
    BY <2>2, <2>3, EntriesAre
  <2>5. \A f \in Entries : f[1] # ptr => entry'[f] = entry[f]
    BY <2>3
  <2>6. owner[ptr] \in {cur, NoCall}
    BY <1>0, <2>1, <2>2 DEF CallbackTimes, Working, Labels
  <2>7. \A k \in Cells : owner[k] \in Calls /\ (k = ptr \/ InHand(owner[k])) => InHand(owner[k])'
    BY <2>1, <2>6, OnlyCurInHand, SizeAssumption DEF InHand, Working, Labels
  <2>8. CellsTimed' /\ DurationsTrack'
    BY <1>0, <2>1, <2>4, <2>5, <2>7, WriteKeepsTimed
  <2>9. Runs(e, cur)'
    BY <2>1, <2>3 DEF Runs, Initialised
  <2>10. CallbackTimes'
    BY <1>0, <2>1, <2>9, StillFound DEF CallbackTimes, Working, Labels
  <2> QED
    BY <2>8, <2>10 DEF TimedInv
<1>4. ASSUME ScheduleDelay PROVE TimedInv'
  <2>1. pc = "delay_schedule" /\ pc' = "idle" /\ ptr \in Cells /\ cur \in Calls \cup {NoCall}
    BY <1>0, <1>4 DEF ScheduleDelay, Return, Typed
  <2>2. CASE Hangup(cur)
    BY <1>0, <2>1, <2>2, HangupEndsTimers, CurEndsTimed DEF Working
  <2>3. CASE ~Hangup(cur)
    <3>1. Schedule(<<ptr, "delay">>) /\ UNCHANGED <<owner, inv>>
      BY <1>4, <2>3 DEF ScheduleDelay
    <3>2. Runs(<<ptr, "delay">>, cur)
      BY <1>0, <2>1 DEF CallbackTimes
    <3> QED
      BY <2>1, <3>1, <3>2, ScheduleKeepsTimed
  <2> QED
    BY <2>2, <2>3
<1> QED
  BY <1>1, <1>2, <1>3, <1>4

\* The steps of the timer callbacks.
LEMMA CallbackTimed ==
  ASSUME Ground, TimedInv,
         \/ DelayLookup \/ DelayAnswer \/ DelayHangup \/ InitTimeout \/ ScheduleTimeout
         \/ TimeoutLookup \/ TimeoutHangup \/ TimeoutDone
  PROVE  TimedInv'
<1>0. /\ Typed /\ CellsOwnLiveCalls /\ Served /\ ArrivalsWait /\ HangingsUp
      /\ CellsTimed /\ DurationsTrack /\ CallbackTimes
  BY DEF Ground, TimedInv, Served
<1>1. ASSUME DelayLookup \/ TimeoutLookup PROVE TimedInv'
  <2>1. /\ pc \in {"delay_lookup", "timeout_lookup"} /\ pc' \in {"answer", "timeout_hangup"}
        /\ cur' = entry[fired].id /\ ptr' = CellOf(cur')
        /\ UNCHANGED <<owner, entry, heap, inv>>
    BY <1>1 DEF DelayLookup, TimeoutLookup, Lookup, cellVars, slotVars
  <2>2. \A b : InHand(b) => b = cur'
    BY <2>1 DEF InHand, Working
  <2>3. \A k \in Cells : InHand(owner[k]) => InHand(owner[k])'
    BY <2>1, <2>2 DEF InHand, Working, Labels
  <2>4. CellsTimed' /\ DurationsTrack'
    BY <1>0, <2>1, <2>3, QuietKeepsTimed
  <2>5. \/ ptr' \in Cells /\ owner[ptr'] = cur'
        \/ ptr' = NoCell /\ \A k \in Cells : owner[k] # cur'
    BY <1>0, <2>1, CellOfCorrect DEF Typed
  <2>6. /\ ptr' \in Cells => owner'[ptr'] \in {cur', NoCall}
        /\ \A k \in Cells : owner'[k] = cur' /\ cur' # NoCall => k = ptr'
    <3>1. cur' \in Calls \cup {NoCall}
      BY <1>0, <2>1 DEF Typed, TimerEntry
    <3> QED
      BY <1>0, <2>1, <2>5, <3>1, SizeAssumption DEF CellsOwnLiveCalls
  <2> QED
    BY <2>1, <2>4, <2>6 DEF TimedInv, CallbackTimes
<1>2. ASSUME DelayAnswer PROVE TimedInv'
  <2>1. pc = "answer" /\ UNCHANGED <<cur, ptr>> /\ pc' \in {"answered", "answer_failed"}
    BY <1>2 DEF DelayAnswer, AnswerOk, AnswerFails, Goto
  <2>2. \A k \in Cells : UNCHANGED owner => (InHand(owner[k]) => InHand(owner[k])')
    BY <2>1, OnlyCurInHand DEF InHand, Working, Labels
  <2>3. CASE AnswerOk
    <3>1. /\ cur \in Calls /\ inv[cur] \in {"INCOMING", "EARLY"} /\ pc' = "answered"
          /\ inv' = [inv EXCEPT ![cur] = "CONNECTING"] /\ UNCHANGED <<owner, entry, heap>>
      BY <2>3 DEF AnswerOk, Waiting, Goto, cellVars
    <3>2. /\ inv'[cur] = "CONNECTING"
          /\ \A b \in Calls : inv[b] \in Up => inv'[b] \in Up
      BY <1>0, <3>1 DEF Up, Typed
    <3>3. CellsTimed' /\ DurationsTrack'
      BY <1>0, <2>2, <3>1, <3>2, QuietKeepsTimed
    <3>4. Alive(cur) /\ ~hanging[cur]
      BY <1>0, <3>1 DEF Alive, HangingsUp, Up
    <3>5. PICK k \in Cells : owner[k] = cur
      BY <1>0, <2>1, <3>1, <3>4 DEF CellsOwnLiveCalls
    <3>6. k = ptr
      BY <1>0, <2>1, <3>1, <3>5, SizeAssumption DEF CallbackTimes, Working, Labels
    <3>7. ~Pending(ptr, "timeout")
      BY <1>0, <3>1, <3>5, <3>6 DEF Pending, DurationsTrack, Up
    <3>8. ~Pending(ptr, "timeout")'
      BY <2>1, <3>1, <3>7 DEF Pending
    <3>9. CallbackTimes'
      BY <1>0, <2>1, <3>1, <3>2, <3>5, <3>6, <3>8, StillFound
      DEF CallbackTimes, Working, Labels
    <3> QED
      BY <3>3, <3>9 DEF TimedInv
  <2>4. CASE AnswerFails
    <3>1. pc' = "answer_failed"
      BY <2>4 DEF AnswerFails, Goto
    <3>2. CASE Waiting(cur)
      <4>1. cur \in Calls /\ Disconnect(cur, FALSE)
        BY <2>4, <3>2 DEF AnswerFails, Waiting
      <4>2. Gone(cur) /\ EndsTimers(cur)
        BY <1>0, <4>1, DisconnectEndsTimers
      <4> QED
        BY <2>1, <3>1, <4>2, CurEndsTimed DEF Working, Labels
    <3>3. CASE ~Waiting(cur)
      <4>1. UNCHANGED <<owner, entry, heap, inv>>
        BY <2>4, <3>3 DEF AnswerFails, cellVars
      <4>2. CellsTimed' /\ DurationsTrack'
        BY <1>0, <2>2, <4>1, QuietKeepsTimed
      <4>3. CallbackTimes'
        BY <1>0, <2>1, <3>1, <4>1, StillFound DEF CallbackTimes, Working, Labels
      <4> QED
        BY <4>2, <4>3 DEF TimedInv
    <3> QED
      BY <3>2, <3>3
  <2> QED
    BY <1>2, <2>3, <2>4 DEF DelayAnswer
<1>3. ASSUME DelayHangup PROVE TimedInv'
  <2>1. pc = "answer_failed" /\ pc' = "idle"
    BY <1>3 DEF DelayHangup, Return
  <2>2. CASE ptr = NoCell
    <3>1. UNCHANGED <<owner, entry, heap, inv>>
      BY <1>3, <2>2 DEF DelayHangup, cellVars
    <3>2. \A k \in Cells : owner[k] = cur => owner[k] = NoCall
      BY <1>0, <2>1, <2>2, SizeAssumption DEF CallbackTimes, Working, Labels
    <3>3. \A k \in Cells : owner[k] \in Calls => ~InHand(owner[k])
      BY <2>1, <3>2, OnlyCurInHand, SizeAssumption
    <3> QED
      BY <1>0, <2>1, <3>1, <3>3, QuietKeepsTimed, NotWorking DEF TimedInv, Working
  <2>3. CASE ptr # NoCell
    <3>1. Hangup(cur) /\ cur \in Calls \cup {NoCall}
      BY <1>0, <1>3, <2>3 DEF DelayHangup, Typed
    <3> QED
      BY <1>0, <2>1, <3>1, HangupEndsTimers, CurEndsTimed DEF Working
  <2> QED
    BY <2>2, <2>3
<1>4. ASSUME InitTimeout PROVE TimedInv'
  <2> DEFINE d == <<ptr, "delay">>
             e == <<ptr, "timeout">>
  <2>1. pc = "answered"
    BY <1>4 DEF InitTimeout
  <2>2. /\ ptr \in Cells /\ cur \in Calls /\ owner[ptr] = cur
        /\ inv[cur] = "CONNECTING" /\ ~Pending(ptr, "timeout")
    BY <1>0, <2>1 DEF CallbackTimes
  <2>3. /\ entry' = [entry EXCEPT ![d].id = NoCall, ![e] = Initialised(cur)]
        /\ pc' = "timeout_schedule" /\ UNCHANGED <<cur, ptr, owner, heap, inv>>
    BY <1>4, <2>2, SizeAssumption DEF InitTimeout, Goto, slotVars
  <2>4. d \in Entries /\ e \in Entries /\ d # e
    BY <2>2, EntriesAre
  <2>5. /\ \A f \in Entries : f # d /\ f # e => entry'[f] = entry[f]
        /\ entry'[e] = Initialised(cur)
    <3> HIDE DEF d, e
    <3> QED
      BY <1>0, <2>3, <2>4 DEF Typed
  <2>6. \A f \in Entries : f[1] # ptr => entry'[f] = entry[f]
    BY <2>5
  <2>7. InHand(cur)'
    BY <2>3 DEF InHand, Working, Labels
  <2>8. \A k \in Cells : owner[k] \in Calls /\ (k = ptr \/ InHand(owner[k])) => InHand(owner[k])'
    BY <2>1, <2>2, <2>3, <2>7, OnlyCurInHand DEF InHand
  <2>9. CellsTimed' /\ DurationsTrack'
    BY <1>0, <2>1, <2>2, <2>3, <2>6, <2>8, WriteKeepsTimed
  <2>10. Runs(e, cur)'
    BY <2>3, <2>5 DEF Runs, Initialised
  <2>11. ~Pending(ptr, "timeout")'
    BY <2>2, <2>3 DEF Pending
  <2>12. CallbackTimes'
    BY <1>0, <2>1, <2>2, <2>3, <2>10, <2>11, StillFound DEF CallbackTimes, Working, Labels
  <2> QED
    BY <2>9, <2>12 DEF TimedInv
<1>5. ASSUME ScheduleTimeout PROVE TimedInv'
  <2>1. pc = "timeout_schedule" /\ pc' = "idle" /\ ptr \in Cells /\ cur \in Calls \cup {NoCall}
    BY <1>0, <1>5 DEF ScheduleTimeout, Return, Typed
  <2>2. CASE Hangup(cur)
    BY <1>0, <2>1, <2>2, HangupEndsTimers, CurEndsTimed DEF Working
  <2>3. CASE ~Hangup(cur)
    <3>1. Schedule(<<ptr, "timeout">>) /\ UNCHANGED <<owner, inv>>
      BY <1>5, <2>3 DEF ScheduleTimeout
    <3>2. Runs(<<ptr, "timeout">>, cur)
      BY <1>0, <2>1 DEF CallbackTimes
    <3> QED
      BY <2>1, <3>1, <3>2, ScheduleKeepsTimed
  <2> QED
    BY <2>2, <2>3
<1>6. ASSUME TimeoutHangup PROVE TimedInv'
  <2>1. pc = "timeout_hangup"
    BY <1>6 DEF TimeoutHangup
  <2>2. CASE cur = NoCall
    <3>1. pc' = "idle" /\ UNCHANGED <<owner, entry, heap, inv>>
      BY <1>6, <2>2 DEF TimeoutHangup, Return, cellVars
    <3>2. \A k \in Cells : owner[k] \in Calls => ~InHand(owner[k])
      BY <2>1, <2>2, OnlyCurInHand, SizeAssumption
    <3> QED
      BY <1>0, <2>1, <3>1, <3>2, QuietKeepsTimed, NotWorking DEF TimedInv, Working
  <2>3. CASE cur # NoCall
    <3>1. /\ pc' = "timeout_done" /\ UNCHANGED <<cur, ptr>>
          /\ Hangup(cur) /\ cur \in Calls \cup {NoCall}
      BY <1>0, <1>6, <2>3 DEF TimeoutHangup, Goto, Typed
    <3>2. Gone(cur) /\ EndsTimers(cur)
      BY <1>0, <3>1, HangupEndsTimers
    <3> QED
      BY <2>1, <2>3, <3>1, <3>2, CurEndsTimed DEF Working, Labels
  <2> QED
    BY <2>2, <2>3
<1>7. ASSUME TimeoutDone PROVE TimedInv'
  <2>1. pc = "timeout_done" /\ pc' = "idle" /\ UNCHANGED <<owner, heap, inv>>
    BY <1>7 DEF TimeoutDone, Return, slotVars
  <2>2. \A b : ~InHand(b)
    BY <2>1, OnlyCurInHand
  <2>3. CASE ptr = NoCell
    <3>1. UNCHANGED entry
      BY <1>7, <2>3 DEF TimeoutDone
    <3> QED
      BY <1>0, <2>1, <2>2, <3>1, QuietKeepsTimed, NotWorking DEF TimedInv, Working
  <2>4. CASE ptr # NoCell
    <3> DEFINE e == <<ptr, "timeout">>
    <3>1. /\ entry' = [entry EXCEPT ![e].id = NoCall] /\ owner[ptr] = NoCall
          /\ ptr \in Cells /\ e \in Entries
      BY <1>0, <1>7, <2>1, <2>4, EntriesAre DEF TimeoutDone, CallbackTimes, Typed
    <3>2. \A f \in Entries : f # e => entry'[f] = entry[f]
      <4> HIDE DEF e
      <4> QED
        BY <1>0, <3>1 DEF Typed
    <3>3. \A f \in Entries : f[1] # ptr => entry'[f] = entry[f]
      BY <3>2
    <3>4. ~Pending(ptr, "timeout")
      BY <1>0, <3>1, SizeAssumption DEF Pending, DurationsTrack
    <3>5. \A k \in Cells : owner[k] \in Calls => k # ptr
      BY <3>1, SizeAssumption
    <3>6. CellsTimed' /\ DurationsTrack'
      BY <1>0, <2>1, <2>2, <3>3, <3>4, <3>5, WriteKeepsTimed
    <3> QED
      BY <2>1, <3>6, NotWorking DEF TimedInv, Working
  <2> QED
    BY <2>3, <2>4
<1> QED
  BY <1>1, <1>2, <1>3, <1>4, <1>5, <1>6, <1>7

\* What the caller and the transaction layer do.
LEMMA EventTimed ==
  ASSUME Ground, TimedInv, NEW c \in Calls, CallEvent(c)
  PROVE  TimedInv'
<1>0. /\ Typed /\ CellsOwnLiveCalls /\ Served
      /\ CellsTimed /\ DurationsTrack /\ CallbackTimes
  BY DEF Ground, TimedInv
<1>1. pc = "idle" /\ pc' = "idle"
  BY DEF CallEvent, RemoteEnds, Ack, NoAck, ByeDone, Reoffer, callback
<1>2. \A b : ~InHand(b)
  BY <1>1, IdleHandsEmpty
<1>3. ASSUME Gone(c), EndsTimers(c) PROVE TimedInv'
  BY <1>0, <1>1, <1>2, <1>3, EndKeepsTimed, NotWorking DEF TimedInv, Working
<1>4. CASE RemoteEnds(c) \/ ByeDone(c)
  <2>1. Disconnect(c, FALSE)
    BY <1>4 DEF RemoteEnds, ByeDone
  <2> QED
    BY <1>0, <1>3, <2>1, DisconnectEndsTimers
<1>5. CASE Ack(c) \/ NoAck(c) \/ Reoffer(c)
  <2>1. /\ inv[c] \in Up /\ inv' \in {inv, [inv EXCEPT ![c] = "CONFIRMED"]}
    BY <1>5 DEF Ack, NoAck, Reoffer, Up
  <2>2. /\ \A b \in Calls : inv[b] \in Up => inv'[b] \in Up
        /\ \A b \in Calls : b # c => inv'[b] = inv[b]
        /\ inv'[c] # "NULL"
    BY <1>0, <2>1 DEF Up, Typed
  <2>3. CASE UNCHANGED <<owner, entry, heap>>
    BY <1>0, <1>1, <1>2, <2>2, <2>3, QuietKeepsTimed, NotWorking DEF TimedInv, Working
  <2>4. CASE ~UNCHANGED <<owner, entry, heap>>
    <3>1. OnCallState(c, FALSE) /\ hanging' = [hanging EXCEPT ![c] = TRUE]
      BY <1>5, <2>4 DEF Ack, NoAck, Reoffer, MediaUpdate, cellVars
    <3>2. Gone(c)
      BY <1>0, <2>2, <3>1, OnCallStateOwner DEF Gone, Typed
    <3>3. EndsTimers(c)
      BY <1>0, <3>1, OnCallStateEnds
    <3> QED
      BY <1>3, <3>2, <3>3
  <2> QED
    BY <2>3, <2>4
<1> QED
  BY <1>4, <1>5 DEF CallEvent

\* TimedInv is inductive with the match of cells and calls and with Served.
LEMMA TimedNext ==
  ASSUME 100 \notin Unsendable
  PROVE  Ground /\ TimedInv /\ [Next]_vars => TimedInv'
<1>1. ASSUME Ground, TimedInv, Next PROVE TimedInv'
  BY <1>1, ClaimTimed, AnswerTimed, CallbackTimed, FireKeepsTimed, EventTimed DEF Next, Step
<1>2. ASSUME TimedInv, UNCHANGED vars PROVE TimedInv'
  BY <1>2
  DEF TimedInv, CellsTimed, Timed, InHand, Runs, Pending, DurationsTrack, CallbackTimes,
      vars, cellVars, slotVars, callback
<1> QED
  BY <1>1, <1>2

\* Between two events every call that is not being hung up has a timer that will
\* answer it or end it, even when its 180 could not be sent or a timer of an
\* earlier call is still pending in its cell.
THEOREM LiveCallsAreTimed ==
  ASSUME 100 \notin Unsendable
  PROVE  Spec => []LiveCallIsTimed
<1>1. Init => TimedInv
  <2> SUFFICES ASSUME Init PROVE TimedInv
    OBVIOUS
  <2>1. \A k \in Cells : owner[k] \notin Calls
    BY SizeAssumption DEF Init, CellsFilled
  <2>2. DurationsTrack
    BY EntriesAre, NoEntryIsNone DEF Init, NothingRuns, DurationsTrack
  <2>3. CallbackTimes
    BY DEF Init, NothingRuns, CallbackTimes, Working
  <2> QED
    BY <2>1, <2>2, <2>3 DEF TimedInv, CellsTimed
<1>2. Typed /\ CellsOwnLiveCalls /\ TimedInv => LiveCallIsTimed
  <2> SUFFICES ASSUME Typed, CellsOwnLiveCalls, TimedInv, pc = "idle",
                      NEW c \in Calls, Alive(c), ~hanging[c]
               PROVE  \E t \in TimerIds : heap[t] # NoEntry /\ owner[heap[t][1]] = c
    BY DEF LiveCallIsTimed
  <2>1. PICK k \in Cells : owner[k] = c
    BY DEF CellsOwnLiveCalls
  <2>2. PICK d \in {"delay", "timeout"} : Pending(k, d)
    BY <2>1, IdleHandsEmpty DEF TimedInv, CellsTimed, Timed
  <2>3. PICK t \in TimerIds : heap[t] = <<k, d>>
    BY <2>2 DEF Pending
  <2> QED
    BY <2>1, <2>3, EntriesAre, NoEntryIsNone
<1>3. Spec => []Ground
  BY TypesHold, CellsMatchCalls, NoCallRefusedBusy, ServedInvariant, PTL DEF Ground
<1>4. Ground => Typed /\ CellsOwnLiveCalls
  BY DEF Ground
<1> QED
  BY <1>1, <1>2, <1>3, <1>4, TimedNext, PTL DEF Spec
=============================================================================
