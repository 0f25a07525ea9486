------------------------------ MODULE UasProofs ------------------------------
(***************************************************************************)
(* Theorems about the auto-answerer, for every number of cells and calls.  *)
(***************************************************************************)
EXTENDS Uas, TLAPS, FiniteSetTheorems, WellFoundedInduction

USE DEF Calls, Cells, NoCall, NoCell, NoEntry, Junk, RingModes

-----------------------------------------------------------------------------
(* The search through the cells *)

\* A set of cells that is not empty has a first element: the loop of
\* call_data_get_by_id stops at the same cell every time.
LEMMA FirstExists ==
  ASSUME NEW T, T \subseteq Cells, T # {}
  PROVE  \E k \in T : \A j \in T : k <= j
<1> DEFINE Upto == {0 .. k : k \in T}
<1>1. Upto \subseteq FiniteSubsetsOf(Nat)
  <2> SUFFICES ASSUME NEW k \in T PROVE 0 .. k \in FiniteSubsetsOf(Nat)
    OBVIOUS
  <2>1. k \in Int
    BY SizeAssumption
  <2>2. IsFiniteSet(0 .. k)
    BY <2>1, FS_Interval
  <2> QED
    BY <2>2 DEF FiniteSubsetsOf
<1>2. PICK X \in Upto : \A Y \in Upto : <<Y, X>> \notin StrictSubsetOrdering(Nat)
  <2>1. IsWellFoundedOn(StrictSubsetOrdering(Nat), FiniteSubsetsOf(Nat))
    BY FS_StrictSubsetOrderingWellFounded
  <2>2. Upto # {}
    OBVIOUS
  <2> HIDE DEF Upto
  <2> QED
    BY <1>1, <2>1, <2>2, WFMin
<1>3. PICK k \in T : X = 0 .. k
  OBVIOUS
<1>4. \A j \in T : k <= j
  <2> SUFFICES ASSUME NEW j \in T, ~(k <= j) PROVE FALSE
    OBVIOUS
  <2>1. j \in Nat /\ k \in Nat /\ j < k
    BY SizeAssumption
  <2>2. 0 .. j \subseteq 0 .. k /\ 0 .. j # 0 .. k
    BY <2>1
  <2>3. <<0 .. j, 0 .. k>> \in StrictSubsetOrdering(Nat)
    BY <2>1, <2>2 DEF StrictSubsetOrdering
  <2> QED
    BY <1>2, <1>3, <2>3
<1> QED
  BY <1>4

\* call_data_get_by_id returns a cell that carries the id, or NULL when no cell
\* does.
LEMMA CellOfCorrect ==
  ASSUME owner \in [Cells -> Calls \cup {NoCall, Junk}], NEW c
  PROVE  \/ CellOf(c) \in Cells /\ owner[CellOf(c)] = c
         \/ CellOf(c) = NoCell /\ \A k \in Cells : owner[k] # c
<1>1. CASE \E k \in Cells : owner[k] = c
  <2> DEFINE T == {k \in Cells : owner[k] = c}
  <2>1. \E k \in T : \A j \in T : k <= j
    BY <1>1, FirstExists
  <2>2. \E k \in Cells : owner[k] = c /\ \A j \in Cells : owner[j] = c => k <= j
    BY <2>1
  <2> QED
    BY <1>1, <2>2 DEF CellOf
<1>2. CASE ~ \E k \in Cells : owner[k] = c
  BY <1>2 DEF CellOf
<1> QED
  BY <1>1, <1>2

-----------------------------------------------------------------------------
(* Types *)

\* The part of Typed that the end of a call may disturb.
CallTyped ==
  /\ owner \in [Cells -> Calls \cup {NoCall, Junk}]
  /\ mode  \in [Cells -> RingModes]
  /\ entry \in [Entries -> TimerEntry]
  /\ heap  \in [TimerIds -> Entries \cup {NoEntry}]
  /\ inv     \in [Calls -> InvStates]
  /\ hanging \in [Calls -> BOOLEAN]
  /\ bye     \in [Calls -> BOOLEAN]
  /\ tone    \in [Calls -> RingModes]
  /\ crashed \in {"no", "null_cell", "bad_cancel", "assert"}
  /\ \A e \in Entries : entry[e].cb => entry[e].id # Junk

LEMMA ReleaseTyped ==
  ASSUME CallTyped, NEW k, Release(k)
  PROVE  /\ owner' \in [Cells -> Calls \cup {NoCall, Junk}]
         /\ mode'  \in [Cells -> RingModes]
         /\ entry' \in [Entries -> TimerEntry]
         /\ \A e \in Entries : entry'[e].cb => entry'[e].id # Junk
<1>1. Zeroed \in TimerEntry /\ ~Zeroed.cb
  BY SizeAssumption DEF Zeroed, TimerEntry
<1>2. owner' \in [Cells -> Calls \cup {NoCall, Junk}] /\ mode' \in [Cells -> RingModes]
  BY DEF CallTyped, Release
<1>3. entry' = [e \in Entries |-> IF e[1] = k THEN Zeroed ELSE entry[e]]
  BY DEF Release
<1> QED
  BY <1>1, <1>2, <1>3 DEF CallTyped

LEMMA OnCallStateTyped ==
  ASSUME CallTyped, NEW c, NEW notFound \in BOOLEAN, OnCallState(c, notFound)
  PROVE  /\ owner' \in [Cells -> Calls \cup {NoCall, Junk}]
         /\ mode'  \in [Cells -> RingModes]
         /\ entry' \in [Entries -> TimerEntry]
         /\ heap'  \in [TimerIds -> Entries \cup {NoEntry}]
         /\ crashed' \in {"no", "null_cell", "bad_cancel", "assert"}
         /\ \A e \in Entries : entry'[e].cb => entry'[e].id # Junk
<1> DEFINE k == CellOf(c)
<1>1. CASE k = NoCell
  BY <1>1 DEF OnCallState, CallTyped, cellVars
<1>2. CASE k # NoCell
  <2>1. Release(k)
    BY <1>2 DEF OnCallState
  <2>2. HeapAfterCancel(k) \in [TimerIds -> Entries \cup {NoEntry}]
    BY DEF CallTyped, HeapAfterCancel
  <2>3. /\ heap' \in {heap, HeapAfterCancel(k)}
        /\ crashed' \in {crashed, "bad_cancel"}
    BY <1>2 DEF OnCallState
  <2> QED
    BY <2>1, <2>2, <2>3, ReleaseTyped DEF CallTyped
<1> QED
  BY <1>1, <1>2

LEMMA DisconnectTyped ==
  ASSUME CallTyped, NEW c, NEW notFound \in BOOLEAN, Disconnect(c, notFound)
  PROVE  CallTyped'
<1>1. /\ inv'     \in [Calls -> InvStates]
      /\ hanging' \in [Calls -> BOOLEAN]
      /\ bye'     \in [Calls -> BOOLEAN]
      /\ tone'    \in [Calls -> RingModes]
  BY DEF CallTyped, Disconnect, FreeSlot, InvStates
<1>2. CASE hanging[c]
  BY <1>1, <1>2 DEF CallTyped, Disconnect, cellVars
<1>3. CASE ~hanging[c]
  <2>1. OnCallState(c, notFound)
    BY <1>3 DEF Disconnect
  <2> QED
    BY <1>1, <2>1, OnCallStateTyped DEF CallTyped
<1> QED
  BY <1>2, <1>3

LEMMA HangupTyped ==
  ASSUME CallTyped, NEW c, Hangup(c)
  PROVE  CallTyped'
<1>1. CASE c \notin Calls \/ ~Alive(c) \/ hanging[c]
  BY <1>1 DEF CallTyped, Hangup, cellVars
<1>2. CASE ~(c \notin Calls \/ ~Alive(c) \/ hanging[c])
  <2>1. OnCallState(c, FALSE)
    BY <1>2 DEF Hangup
  <2>2. /\ inv'     \in [Calls -> InvStates]
        /\ hanging' \in [Calls -> BOOLEAN]
        /\ bye'     \in [Calls -> BOOLEAN]
        /\ tone'    \in [Calls -> RingModes]
    BY <1>2 DEF CallTyped, Hangup, FreeSlot, InvStates
  <2> QED
    BY <2>1, <2>2, OnCallStateTyped DEF CallTyped
<1> QED
  BY <1>1, <1>2

\* What Typed says beside CallTyped.
WorkerTyped ==
  /\ number  \in [Calls -> Numbers \cup {"other"}]
  /\ nextCall \in 0 .. MaxCalls
  /\ pc \in Labels
  /\ cur \in Calls \cup {NoCall}
  /\ ptr \in Cells \cup {NoCell}
  /\ fired \in Entries \cup {NoEntry}
  /\ pc \in {"trying", "claim", "not_found", "ringing"} => cur \in Calls
  /\ pc \in {"not_found", "ringing", "delay_init", "delay_schedule", "timeout_schedule"}
       => ptr \in Cells
  /\ pc \in {"delay_lookup", "timeout_lookup"}
       => fired \in Entries /\ entry[fired].id # Junk

LEMMA TypedSplit ==
  /\ Typed <=> CallTyped /\ WorkerTyped
  /\ Typed' <=> CallTyped' /\ WorkerTyped'
BY DEF Typed, CallTyped, WorkerTyped

LEMMA InitTyped == Init => Typed
<1> SUFFICES ASSUME Init PROVE Typed
  OBVIOUS
<1>1. Unwritten \in TimerEntry /\ ~Unwritten.cb
  BY DEF Unwritten, TimerEntry
<1>2. CallTyped
  BY <1>1 DEF Init, CellsFilled, NothingRuns, CallTyped, InvStates
<1>3. WorkerTyped
  BY SizeAssumption DEF Init, CellsFilled, NothingRuns, WorkerTyped, Labels
<1> QED
  BY <1>2, <1>3, TypedSplit

\* Scheduling a timer keeps the types.
LEMMA ScheduleTyped ==
  ASSUME CallTyped, NEW e \in Entries, Schedule(e)
  PROVE  /\ heap' \in [TimerIds -> Entries \cup {NoEntry}]
         /\ entry' \in [Entries -> TimerEntry]
         /\ \A d \in Entries : entry'[d].cb => entry'[d].id # Junk
         /\ \A d \in Entries : entry'[d].id = entry[d].id
<1>1. PICK t \in TimerIds : /\ heap' = [heap EXCEPT ![t] = e]
                            /\ entry' = [entry EXCEPT ![e].tid = t]
  <2>1. (CHOOSE t \in FreeTimers : TRUE) \in FreeTimers
    BY DEF Schedule
  <2> QED
    BY <2>1 DEF Schedule, FreeTimers
<1>2. \A d \in Entries : entry[d] \in TimerEntry
  BY DEF CallTyped
<1>3. [entry[e] EXCEPT !.tid = t] \in TimerEntry
  BY <1>2 DEF TimerEntry
<1>4. entry' = [entry EXCEPT ![e] = [entry[e] EXCEPT !.tid = t]]
  BY <1>1
<1>5. entry' \in [Entries -> TimerEntry]
  BY <1>3, <1>4 DEF CallTyped
<1>6. \A d \in Entries : entry'[d].id = entry[d].id /\ entry'[d].cb = entry[d].cb
  BY <1>2, <1>4 DEF TimerEntry, CallTyped
<1> QED
  BY <1>1, <1>5, <1>6 DEF CallTyped

\* The part of WorkerTyped about the callback, for steps that go on within it.
LEMMA GotoTyped ==
  ASSUME Typed, NEW label \in Labels, Goto(label),
         label \notin {"delay_lookup", "timeout_lookup"},
         label \in {"trying", "claim", "not_found", "ringing"} => cur \in Calls,
         label \in {"not_found", "ringing", "delay_init", "delay_schedule",
                    "timeout_schedule"} => ptr \in Cells,
         UNCHANGED <<number, nextCall>>
  PROVE  WorkerTyped'
BY DEF Typed, WorkerTyped, Goto

LEMMA ReturnTyped ==
  ASSUME Typed, Return, UNCHANGED <<number, nextCall>>
  PROVE  WorkerTyped'
BY DEF Typed, WorkerTyped, Return, Labels

\* The steps of on_incoming_call.
LEMMA IncomingTyped ==
  ASSUME Typed,
         \/ \E c \in Calls, n \in Numbers : Incoming(c, n)
         \/ AnswerTrying \/ ClaimCell \/ AnswerNotFound \/ AnswerRinging
         \/ InitDelay \/ ScheduleDelay
  PROVE  Typed'
<1> USE TypedSplit DEF Labels
<1>0. CallTyped /\ WorkerTyped
  OBVIOUS
<1>1. ASSUME NEW c \in Calls, NEW n \in Numbers, Incoming(c, n) PROVE Typed'
  <2>1. CallTyped'
    BY <1>0, <1>1 DEF Incoming, CallTyped, cellVars, InvStates
  <2>2. nextCall' \in 0 .. MaxCalls
    BY <1>0, <1>1, SizeAssumption DEF Incoming, AllocCall, FirstSlot, WorkerTyped
  <2>3. WorkerTyped'
    BY <1>0, <1>1, <2>2 DEF Incoming, WorkerTyped
  <2> QED
    BY <2>1, <2>3
<1>2. ASSUME AnswerTrying PROVE Typed'
  <2>1. WorkerTyped'
    BY <1>0, <1>2, GotoTyped DEF AnswerTrying, WorkerTyped
  <2>2. CASE Disconnect(cur, FALSE)
    BY <1>0, <2>1, <2>2, DisconnectTyped
  <2>3. CASE UNCHANGED <<cellVars, heap, inv, hanging, bye, tone, crashed>>
    BY <1>0, <2>1, <2>3 DEF CallTyped, cellVars
  <2> QED
    BY <1>2, <2>2, <2>3 DEF AnswerTrying
<1>3. ASSUME ClaimCell PROVE Typed'
  <2>1. CASE FreeCell = NoCell
    <3>1. AnswerBusy /\ UNCHANGED <<number, nextCall>>
      BY <1>3, <2>1 DEF ClaimCell
    <3>2. WorkerTyped'
      BY <3>1, ReturnTyped DEF AnswerBusy
    <3>3. CallTyped'
      BY <1>0, <3>1, DisconnectTyped DEF AnswerBusy, CallTyped, cellVars
    <3> QED
      BY <3>2, <3>3
  <2>2. CASE FreeCell # NoCell
    <3>1. TakeCell(FreeCell) /\ UNCHANGED <<number, nextCall>>
      BY <1>3, <2>2 DEF ClaimCell
    <3>2. FreeCell \in Cells
      BY <1>0, <2>2, CellOfCorrect DEF FreeCell, CallTyped
    <3>3. RingModeGet(number[cur]) \in RingModes
      BY DEF RingModeGet
    <3>4. CallTyped'
      BY <1>0, <3>1, <3>3 DEF TakeCell, CallTyped, WorkerTyped
    <3>5. WorkerTyped'
      BY <1>0, <1>3, <3>1, <3>2 DEF ClaimCell, TakeCell, WorkerTyped
    <3> QED
      BY <3>4, <3>5
  <2> QED
    BY <2>1, <2>2
<1>4. ASSUME AnswerNotFound PROVE Typed'
  <2>1. WorkerTyped'
    BY <1>4, ReturnTyped DEF AnswerNotFound
  <2>2. CallTyped'
    BY <1>0, <1>4, DisconnectTyped DEF AnswerNotFound, CallTyped, cellVars
  <2> QED
    BY <2>1, <2>2
<1>5. ASSUME AnswerRinging PROVE Typed'
  <2>1. WorkerTyped'
    BY <1>0, <1>5, GotoTyped DEF AnswerRinging, WorkerTyped
  <2>2. CASE Disconnect(cur, FALSE)
    BY <1>0, <2>1, <2>2, DisconnectTyped
  <2>3. CASE ~Disconnect(cur, FALSE)
    <3>1. UNCHANGED <<cellVars, heap, hanging, bye, tone, crashed>>
      BY <1>5, <2>3 DEF AnswerRinging
    <3>2. inv' \in [Calls -> InvStates]
      BY <1>0, <1>5, <2>3 DEF AnswerRinging, CallTyped, InvStates
    <3> QED
      BY <1>0, <2>1, <3>1, <3>2 DEF CallTyped, cellVars
  <2> QED
    BY <2>2, <2>3
<1>6. ASSUME InitDelay PROVE Typed'
  <2>1. WorkerTyped'
    BY <1>0, <1>6, GotoTyped DEF InitDelay, WorkerTyped, slotVars
  <2>2. Initialised(cur) \in TimerEntry /\ Initialised(cur).id # Junk
    BY <1>0, SizeAssumption DEF Initialised, TimerEntry, WorkerTyped
  <2>3. entry' = [entry EXCEPT ![<<ptr, "delay">>] = Initialised(cur)]
    BY <1>6 DEF InitDelay
  <2>4. CallTyped'
    BY <1>0, <1>6, <2>2, <2>3 DEF InitDelay, CallTyped, slotVars
  <2> QED
    BY <2>1, <2>4
<1>7. ASSUME ScheduleDelay PROVE Typed'
  <2>1. WorkerTyped'
    BY <1>7, ReturnTyped DEF ScheduleDelay
  <2>2. CASE Hangup(cur)
    BY <1>0, <2>1, <2>2, HangupTyped
  <2>3. CASE ~Hangup(cur)
    <3>1. Schedule(<<ptr, "delay">>) /\ UNCHANGED <<owner, mode, inv, hanging, bye, tone, crashed>>
      BY <1>7, <2>3 DEF ScheduleDelay
    <3>2. <<ptr, "delay">> \in Entries
      BY <1>0, <1>7 DEF ScheduleDelay, WorkerTyped, Entries
    <3> QED
      BY <1>0, <2>1, <3>1, <3>2, ScheduleTyped DEF CallTyped
  <2> QED
    BY <2>2, <2>3
<1> QED
  BY <1>1, <1>2, <1>3, <1>4, <1>5, <1>6, <1>7

\* Writing a whole timer entry, or one field of it, keeps the types.
LEMMA EntryTyped ==
  ASSUME NEW g \in [Entries -> TimerEntry],
         \A e \in Entries : g[e].cb => g[e].id # Junk,
         NEW d \in Entries, NEW f,
         \/ f = [g EXCEPT ![d].id = NoCall]
         \/ f = [g EXCEPT ![d].tid = -1]
         \/ \E c \in Calls \cup {NoCall} : f = [g EXCEPT ![d] = Initialised(c)]
  PROVE  /\ f \in [Entries -> TimerEntry]
         /\ \A e \in Entries : f[e].cb => f[e].id # Junk
         /\ \A e \in Entries : e # d => f[e] = g[e]
<1>1. SUFFICES ASSUME NEW v \in TimerEntry, f = [g EXCEPT ![d] = v], v.cb => v.id # Junk
               PROVE  /\ f \in [Entries -> TimerEntry]
                      /\ \A e \in Entries : f[e].cb => f[e].id # Junk
                      /\ \A e \in Entries : e # d => f[e] = g[e]
  <2>1. g[d] \in TimerEntry
    OBVIOUS
  <2>2. CASE f = [g EXCEPT ![d].id = NoCall]
    <3> DEFINE v == [g[d] EXCEPT !.id = NoCall]
    <3>1. f = [g EXCEPT ![d] = v]
      BY <2>2
    <3>2. v \in TimerEntry /\ v.id # Junk
      BY <2>1 DEF TimerEntry
    <3> HIDE DEF v
    <3> QED
      BY <3>1, <3>2
  <2>3. CASE f = [g EXCEPT ![d].tid = -1]
    <3> DEFINE v == [g[d] EXCEPT !.tid = -1]
    <3>1. f = [g EXCEPT ![d] = v]
      BY <2>3
    <3>2. v \in TimerEntry /\ v.id = g[d].id /\ v.cb = g[d].cb
      BY <2>1 DEF TimerEntry
    <3> HIDE DEF v
    <3> QED
      BY <3>1, <3>2
  <2>4. ASSUME NEW c \in Calls \cup {NoCall}, f = [g EXCEPT ![d] = Initialised(c)]
        PROVE  Initialised(c) \in TimerEntry /\ Initialised(c).id # Junk
    BY SizeAssumption DEF Initialised, TimerEntry
  <2> QED
    BY <2>2, <2>3, <2>4
<1> QED
  BY <1>1

\* An expired timer is popped.
LEMMA FireTyped ==
  ASSUME Typed, NEW t \in TimerIds, Fire(t)
  PROVE  Typed'
<1> USE TypedSplit DEF Labels
<1>0. CallTyped /\ WorkerTyped
  OBVIOUS
<1> DEFINE e == heap[t]
<1>1. e \in Entries
  BY <1>0 DEF Fire, CallTyped
<1>2. entry' = [entry EXCEPT ![e].tid = -1]
  BY DEF Fire, Popped
<1>3. /\ entry' \in [Entries -> TimerEntry]
      /\ \A d \in Entries : entry'[d].cb => entry'[d].id # Junk
  BY <1>0, <1>1, <1>2, EntryTyped DEF CallTyped
<1>4. entry'[e].id = entry[e].id
  BY <1>0, <1>1, <1>2 DEF CallTyped, TimerEntry
<1>5. CallTyped'
  BY <1>0, <1>3 DEF Fire, CallTyped, slotVars
<1>6. WorkerTyped'
  BY <1>0, <1>1, <1>3, <1>4 DEF Fire, WorkerTyped, CallTyped, slotVars, callback
<1> QED
  BY <1>5, <1>6

\* The media callback keeps the types.
LEMMA ConnectToneTyped ==
  ASSUME CallTyped, NEW c, ConnectTone(c)
  PROVE  /\ tone' \in [Calls -> RingModes]
         /\ crashed' \in {"no", "null_cell", "bad_cancel", "assert"}
<1>1. CellOf(c) \in Cells \cup {NoCell}
  BY CellOfCorrect DEF CallTyped
<1> QED
  BY <1>1 DEF ConnectTone, CallTyped

LEMMA MediaUpdateTyped ==
  ASSUME CallTyped, NEW c, MediaUpdate(c),
         inv' \in [Calls -> InvStates]
  PROVE  CallTyped'
<1>1. CASE OnCallState(c, FALSE) /\ hanging' = [hanging EXCEPT ![c] = TRUE]
           /\ bye' = [bye EXCEPT ![c] = TRUE] /\ tone' = [tone EXCEPT ![c] = "NOT_SET"]
  BY <1>1, OnCallStateTyped DEF CallTyped
<1>2. CASE (ConnectTone(c) \/ (tone' = [tone EXCEPT ![c] = "NOT_SET"] /\ UNCHANGED crashed))
           /\ UNCHANGED <<cellVars, heap, hanging, bye>>
  BY <1>2, ConnectToneTyped DEF CallTyped, cellVars
<1>3. CASE bye' = [bye EXCEPT ![c] = TRUE]
           /\ UNCHANGED <<cellVars, heap, hanging, tone, crashed>>
  BY <1>3 DEF CallTyped, cellVars
<1> QED
  BY <1>1, <1>2, <1>3 DEF MediaUpdate

\* The steps of the two timer callbacks.
LEMMA TimerTyped ==
  ASSUME Typed,
         \/ DelayLookup \/ DelayAnswer \/ DelayHangup \/ InitTimeout \/ ScheduleTimeout
         \/ TimeoutLookup \/ TimeoutHangup \/ TimeoutDone
  PROVE  Typed'
<1> USE TypedSplit DEF Labels
<1>0. CallTyped /\ WorkerTyped
  OBVIOUS
<1>1. ASSUME DelayLookup \/ TimeoutLookup PROVE Typed'
  <2>1. fired \in Entries /\ entry[fired].id # Junk
    BY <1>0, <1>1 DEF DelayLookup, TimeoutLookup, Lookup, WorkerTyped
  <2>2. entry[fired].id \in Calls \cup {NoCall}
    BY <1>0, <2>1 DEF CallTyped, TimerEntry
  <2>3. ptr' \in Cells \cup {NoCell}
    BY <1>0, <1>1, <2>2, CellOfCorrect DEF DelayLookup, TimeoutLookup, Lookup, CallTyped
  <2> QED
    BY <1>0, <1>1, <2>2, <2>3
    DEF DelayLookup, TimeoutLookup, Lookup, CallTyped, WorkerTyped, cellVars, slotVars
<1>2. ASSUME DelayAnswer PROVE Typed'
  <2>1. CASE AnswerOk
    <3>1. WorkerTyped'
      BY <1>2, <2>1, GotoTyped DEF DelayAnswer, AnswerOk
    <3>2. inv' \in [Calls -> InvStates]
      BY <1>0, <2>1 DEF AnswerOk, CallTyped, InvStates
    <3>3. tone' \in [Calls -> RingModes] /\ crashed' \in {"no", "null_cell", "bad_cancel", "assert"}
      BY <1>0, <2>1, ConnectToneTyped DEF AnswerOk, CallTyped
    <3> QED
      BY <1>0, <2>1, <3>1, <3>2, <3>3 DEF AnswerOk, CallTyped, cellVars
  <2>2. CASE AnswerFails
    <3>1. WorkerTyped'
      BY <1>2, <2>2, GotoTyped DEF DelayAnswer, AnswerFails
    <3>2. CASE Waiting(cur)
      BY <1>0, <2>2, <3>1, <3>2, DisconnectTyped DEF AnswerFails
    <3>3. CASE ~Waiting(cur)
      BY <1>0, <2>2, <3>1, <3>3 DEF AnswerFails, CallTyped, cellVars
    <3> QED
      BY <3>2, <3>3
  <2> QED
    BY <1>2, <2>1, <2>2 DEF DelayAnswer
<1>3. ASSUME DelayHangup PROVE Typed'
  <2>1. WorkerTyped'
    BY <1>3, ReturnTyped DEF DelayHangup
  <2>2. CallTyped'
    BY <1>0, <1>3, HangupTyped DEF DelayHangup, CallTyped, cellVars
  <2> QED
    BY <2>1, <2>2
<1>4. ASSUME InitTimeout PROVE Typed'
  <2>1. CASE ptr = NoCell
    <3>1. WorkerTyped'
      BY <1>4, <2>1, ReturnTyped DEF InitTimeout, slotVars
    <3> QED
      BY <1>0, <1>4, <2>1, <3>1 DEF InitTimeout, CallTyped, slotVars
  <2>2. CASE ptr # NoCell
    <3> DEFINE cleared == [entry EXCEPT ![<<ptr, "delay">>].id = NoCall]
    <3>1. <<ptr, "delay">> \in Entries /\ <<ptr, "timeout">> \in Entries
      BY <1>0, <2>2 DEF WorkerTyped, Entries
    <3>2. cleared \in [Entries -> TimerEntry] /\ \A e \in Entries : cleared[e].cb => cleared[e].id # Junk
      <4> DEFINE d == <<ptr, "delay">>
      <4>1. d \in Entries /\ cleared = [entry EXCEPT ![d].id = NoCall]
        BY <3>1
      <4> HIDE DEF d, cleared
      <4> QED
        BY <1>0, <4>1, EntryTyped DEF CallTyped
    <3>3. entry' = [cleared EXCEPT ![<<ptr, "timeout">>] = Initialised(cur)]
      BY <1>4, <2>2 DEF InitTimeout
    <3>4. Initialised(cur) \in TimerEntry /\ Initialised(cur).id # Junk
      BY <1>0, SizeAssumption DEF Initialised, TimerEntry, WorkerTyped
    <3> HIDE DEF cleared
    <3>5. entry' \in [Entries -> TimerEntry] /\ \A e \in Entries : entry'[e].cb => entry'[e].id # Junk
      <4> DEFINE v == Initialised(cur)
      <4>1. entry' = [cleared EXCEPT ![<<ptr, "timeout">>] = v]
        BY <3>3
      <4>2. v \in TimerEntry /\ v.id # Junk
        BY <3>4
      <4> HIDE DEF v
      <4> QED
        BY <3>1, <3>2, <4>1, <4>2
    <3>6. CallTyped'
      BY <1>0, <1>4, <2>2, <3>5 DEF InitTimeout, CallTyped, slotVars
    <3>7. WorkerTyped'
      BY <1>0, <1>4, <2>2, GotoTyped DEF InitTimeout, WorkerTyped, slotVars
    <3> QED
      BY <3>6, <3>7
  <2> QED
    BY <2>1, <2>2
<1>5. ASSUME ScheduleTimeout PROVE Typed'
  <2>1. WorkerTyped'
    BY <1>5, ReturnTyped DEF ScheduleTimeout
  <2>2. CASE Hangup(cur)
    BY <1>0, <2>1, <2>2, HangupTyped
  <2>3. CASE ~Hangup(cur)
    <3>1. Schedule(<<ptr, "timeout">>) /\ UNCHANGED <<owner, mode, inv, hanging, bye, tone, crashed>>
      BY <1>5, <2>3 DEF ScheduleTimeout
    <3>2. <<ptr, "timeout">> \in Entries
      BY <1>0, <1>5 DEF ScheduleTimeout, WorkerTyped, Entries
    <3> QED
      BY <1>0, <2>1, <3>1, <3>2, ScheduleTyped DEF CallTyped
  <2> QED
    BY <2>2, <2>3
<1>6. ASSUME TimeoutHangup PROVE Typed'
  <2>1. WorkerTyped'
    BY <1>6, ReturnTyped, GotoTyped DEF TimeoutHangup
  <2>2. CallTyped'
    BY <1>0, <1>6, HangupTyped DEF TimeoutHangup, CallTyped, cellVars
  <2> QED
    BY <2>1, <2>2
<1>7. ASSUME TimeoutDone PROVE Typed'
  <2>1. WorkerTyped'
    BY <1>7, ReturnTyped DEF TimeoutDone, slotVars
  <2>2. CASE ptr = NoCell
    BY <1>0, <1>7, <2>1, <2>2 DEF TimeoutDone, CallTyped, slotVars
  <2>3. CASE ptr # NoCell
    <3>1. <<ptr, "timeout">> \in Entries
      BY <1>0, <2>3 DEF WorkerTyped, Entries
    <3>2. entry' \in [Entries -> TimerEntry] /\ \A e \in Entries : entry'[e].cb => entry'[e].id # Junk
      BY <1>0, <1>7, <2>3, <3>1, EntryTyped DEF TimeoutDone, CallTyped
    <3> QED
      BY <1>0, <1>7, <2>1, <2>3, <3>2 DEF TimeoutDone, CallTyped, slotVars
  <2> QED
    BY <2>2, <2>3
<1> QED
  BY <1>1, <1>2, <1>3, <1>4, <1>5, <1>6, <1>7

\* What the caller and the transaction layer do.
LEMMA RemoteTyped ==
  ASSUME Typed, NEW c \in Calls,
         RemoteEnds(c) \/ Ack(c) \/ NoAck(c) \/ ByeDone(c) \/ Reoffer(c)
  PROVE  Typed'
<1> USE TypedSplit
<1>0. CallTyped /\ WorkerTyped
  OBVIOUS
<1>1. WorkerTyped'
  <2>1. pc = "idle" /\ UNCHANGED <<number, nextCall, callback>>
    BY DEF RemoteEnds, Ack, NoAck, ByeDone, Reoffer
  <2> QED
    BY <1>0, <2>1 DEF WorkerTyped, callback
<1>2. ASSUME RemoteEnds(c) \/ ByeDone(c) PROVE CallTyped'
  BY <1>0, <1>2, DisconnectTyped DEF RemoteEnds, ByeDone
<1>3. ASSUME Ack(c) PROVE CallTyped'
  <2>1. inv' \in [Calls -> InvStates]
    BY <1>0, <1>3 DEF Ack, CallTyped, InvStates
  <2>2. CASE MediaUpdate(c)
    BY <1>0, <2>1, <2>2, MediaUpdateTyped
  <2>3. CASE ~MediaUpdate(c)
    <3>1. bye' = [bye EXCEPT ![c] = hanging[c]] /\ UNCHANGED <<cellVars, heap, hanging, tone, crashed>>
      BY <1>3, <2>3 DEF Ack
    <3> QED
      BY <1>0, <2>1, <3>1 DEF CallTyped, cellVars
  <2> QED
    BY <2>2, <2>3
<1>4. ASSUME NoAck(c) PROVE CallTyped'
  BY <1>0, <1>4 DEF NoAck, CallTyped, cellVars
<1>5. ASSUME Reoffer(c) PROVE CallTyped'
  <2>1. inv' \in [Calls -> InvStates]
    BY <1>0, <1>5 DEF Reoffer, CallTyped
  <2> QED
    BY <1>0, <1>5, <2>1, MediaUpdateTyped DEF Reoffer
<1> QED
  BY <1>1, <1>2, <1>3, <1>4, <1>5

LEMMA StutterTyped == Typed /\ UNCHANGED vars => Typed'
BY DEF Typed, vars, cellVars, slotVars, callback

LEMMA NextTyped == Typed /\ [Next]_vars => Typed'
<1> SUFFICES ASSUME Typed, Next PROVE Typed'
  BY StutterTyped
<1>1. ASSUME NEW t \in TimerIds, Fire(t) PROVE Typed'
  BY <1>1, FireTyped
<1>2. ASSUME NEW c \in Calls, NEW n \in Numbers, Incoming(c, n) PROVE Typed'
  BY <1>2, IncomingTyped
<1>3. ASSUME NEW c \in Calls,
             RemoteEnds(c) \/ Ack(c) \/ NoAck(c) \/ ByeDone(c) \/ Reoffer(c)
      PROVE  Typed'
  BY <1>3, RemoteTyped
<1>4. ASSUME Step PROVE Typed'
  BY <1>4, IncomingTyped, TimerTyped DEF Step
<1> QED
  BY <1>1, <1>2, <1>3, <1>4 DEF Next, CallEvent

\* A cell whose id app_init has not written is no call's and not free, so nobody
\* writes it; and nobody unwrites one.
LEMMA OnCallStateJunk ==
  ASSUME Typed, NEW c \in Calls, NEW notFound, OnCallState(c, notFound), NEW k \in Cells
  PROVE  owner'[k] = Junk <=> owner[k] = Junk
<1>1. CASE CellOf(c) = NoCell
  BY <1>1 DEF OnCallState, cellVars
<1>2. CASE CellOf(c) # NoCell
  <2>1. CellOf(c) \in Cells /\ owner[CellOf(c)] = c
    BY <1>2, CellOfCorrect DEF Typed
  <2>2. owner' = [owner EXCEPT ![CellOf(c)] = NoCall]
    BY <1>2 DEF OnCallState, Release
  <2> QED
    BY <2>1, <2>2 DEF Typed
<1> QED
  BY <1>1, <1>2

LEMMA JunkStays ==
  ASSUME Typed, Next, NEW k \in Cells
  PROVE  owner'[k] = Junk <=> owner[k] = Junk
<1> DEFINE Same == owner'[k] = Junk <=> owner[k] = Junk
<1>1. ASSUME NEW c \in Calls, NEW notFound, Disconnect(c, notFound) PROVE Same
  BY <1>1, OnCallStateJunk DEF Disconnect, cellVars
<1>2. ASSUME NEW c, Hangup(c) PROVE Same
  BY <1>2, OnCallStateJunk DEF Hangup, cellVars
<1>3. ASSUME ClaimCell PROVE Same
  <2>1. cur \in Calls
    BY <1>3 DEF ClaimCell, Typed
  <2>2. CASE FreeCell = NoCell
    BY <1>1, <1>3, <2>1, <2>2 DEF ClaimCell, AnswerBusy, cellVars
  <2>3. CASE FreeCell # NoCell
    <3>1. FreeCell \in Cells /\ owner[FreeCell] = NoCall
      BY <2>3, CellOfCorrect DEF FreeCell, Typed
    <3>2. owner' = [owner EXCEPT ![FreeCell] = cur]
      BY <1>3, <2>3 DEF ClaimCell, TakeCell
    <3> QED
      BY <2>1, <3>1, <3>2 DEF Typed
  <2> QED
    BY <2>2, <2>3
<1>4. ASSUME AnswerTrying \/ AnswerNotFound \/ AnswerRinging PROVE Same
  <2>1. cur \in Calls
    BY <1>4 DEF AnswerTrying, AnswerNotFound, AnswerRinging, Typed
  <2> QED
    BY <1>1, <1>4, <2>1 DEF AnswerTrying, AnswerNotFound, AnswerRinging, cellVars
<1>5. ASSUME DelayAnswer PROVE Same
  BY <1>1, <1>5 DEF DelayAnswer, AnswerOk, AnswerFails, Waiting, cellVars
<1>6. ASSUME ScheduleDelay \/ ScheduleTimeout \/ DelayHangup \/ TimeoutHangup PROVE Same
  BY <1>2, <1>6 DEF ScheduleDelay, ScheduleTimeout, DelayHangup, TimeoutHangup, cellVars
<1>7. ASSUME InitDelay \/ InitTimeout \/ TimeoutDone \/ DelayLookup \/ TimeoutLookup PROVE Same
  BY <1>7 DEF InitDelay, InitTimeout, TimeoutDone, DelayLookup, TimeoutLookup, Lookup, cellVars
<1>8. ASSUME NEW c \in Calls, CallEvent(c) PROVE Same
  BY <1>1, <1>8, OnCallStateJunk
  DEF CallEvent, RemoteEnds, Ack, NoAck, ByeDone, Reoffer, MediaUpdate, cellVars
<1>9. ASSUME \/ \E t \in TimerIds : Fire(t)
             \/ \E c \in Calls, n \in Numbers : Incoming(c, n)
      PROVE  Same
  BY <1>9 DEF Fire, Incoming, cellVars
<1> HIDE DEF Same
<1> QED
  BY <1>3, <1>4, <1>5, <1>6, <1>7, <1>8, <1>9 DEF Same, Next, Step

LEMMA TypesHold == Spec => []Typed
BY InitTyped, NextTyped, PTL DEF Spec

\* Every variable keeps its range, and a callback that uses its cell or its
\* timer entry has one.
THEOREM TypeCorrect == Spec => []TypeOK
<1>1. Init => TypeOK
  BY InitTyped DEF Init, CellsFilled, TypeOK
<1>2. TypeOK /\ [Next]_vars => TypeOK'
  <2> SUFFICES ASSUME TypeOK, [Next]_vars PROVE TypeOK'
    OBVIOUS
  <2>1. Typed /\ Typed'
    BY NextTyped DEF TypeOK
  <2>2. CASE Next
    BY <2>1, <2>2, JunkStays DEF TypeOK
  <2>3. CASE UNCHANGED vars
    BY <2>1, <2>3 DEF TypeOK, vars, cellVars
  <2> QED
    BY <2>2, <2>3
<1> QED
  BY <1>1, <1>2, PTL DEF Spec

-----------------------------------------------------------------------------
(* Cells and calls *)

\* on_call_state releases the one cell of the call, if there is one.
LEMMA OnCallStateOwner ==
  ASSUME Typed, CellsOwnLiveCalls,
         NEW c \in Calls, NEW notFound, OnCallState(c, notFound)
  PROVE  owner' = [k \in Cells |-> IF owner[k] = c THEN NoCall ELSE owner[k]]
<1>0. owner \in [Cells -> Calls \cup {NoCall, Junk}]
  BY DEF Typed
<1>1. CASE CellOf(c) = NoCell
  <2>1. \A k \in Cells : owner[k] # c
    BY <1>0, <1>1, CellOfCorrect
  <2> QED
    BY <1>0, <1>1, <2>1 DEF OnCallState, cellVars
<1>2. CASE CellOf(c) # NoCell
  <2>1. CellOf(c) \in Cells /\ owner[CellOf(c)] = c
    BY <1>0, <1>2, CellOfCorrect
  <2>2. \A k \in Cells : owner[k] = c => k = CellOf(c)
    BY <1>0, <2>1 DEF CellsOwnLiveCalls
  <2>3. owner' = [owner EXCEPT ![CellOf(c)] = NoCall]
    BY <1>2 DEF OnCallState, Release
  <2> QED
    BY <1>0, <2>1, <2>2, <2>3
<1> QED
  BY <1>1, <1>2

\* What the end of call c, or the beginning of its end, does to the cells.
Gone(c) ==
  /\ owner' = [k \in Cells |-> IF owner[k] = c THEN NoCall ELSE owner[k]]
  /\ \A d \in Calls : d # c => inv'[d] = inv[d] /\ hanging'[d] = hanging[d]
  /\ c \in Calls => (hanging'[c] <=> inv'[c] # "NULL")

LEMMA DisconnectGone ==
  ASSUME Typed, CellsOwnLiveCalls,
         NEW c \in Calls, NEW notFound, Disconnect(c, notFound)
  PROVE  Gone(c)
<1>1. CASE hanging[c]
  <2>1. \A k \in Cells : owner[k] # c
    BY <1>1 DEF CellsOwnLiveCalls
  <2> QED
    BY <1>1, <2>1 DEF Gone, Disconnect, FreeSlot, Typed, cellVars
<1>2. CASE ~hanging[c]
  BY <1>2, OnCallStateOwner DEF Gone, Disconnect, FreeSlot, Typed
<1> QED
  BY <1>1, <1>2

LEMMA HangupGone ==
  ASSUME Typed, CellsOwnLiveCalls, NEW c \in Calls \cup {NoCall}, Hangup(c)
  PROVE  Gone(c)
<1>1. CASE c \notin Calls \/ ~Alive(c) \/ hanging[c]
  <2>1. \A k \in Cells : owner[k] = c => owner[k] = NoCall
    BY <1>1 DEF CellsOwnLiveCalls
  <2>2. UNCHANGED <<owner, inv, hanging>>
    BY <1>1 DEF Hangup, cellVars
  <2>3. owner = [k \in Cells |-> IF owner[k] = c THEN NoCall ELSE owner[k]]
    BY <2>1 DEF Typed
  <2> QED
    BY <1>1, <2>2, <2>3 DEF Gone, Alive, CellsOwnLiveCalls, Typed
<1>2. CASE ~(c \notin Calls \/ ~Alive(c) \/ hanging[c])
  <2>1. owner' = [k \in Cells |-> IF owner[k] = c THEN NoCall ELSE owner[k]]
    BY <1>2, OnCallStateOwner DEF Hangup
  <2> QED
    BY <1>2, <2>1 DEF Gone, Hangup, FreeSlot, Alive, Typed
<1> QED
  BY <1>1, <1>2

\* A step at whose end no callback looks for a cell keeps the match if it only
\* ends one call ...
LEMMA GoneKeepsMatch ==
  ASSUME Typed, CellsOwnLiveCalls, NEW c \in Calls \cup {NoCall}, Gone(c),
         pc' \notin {"trying", "claim"},
         pc \in {"trying", "claim"} => cur = c
  PROVE  CellsOwnLiveCalls'
<1>1. \A k \in Cells : owner'[k] \in Calls => owner'[k] = owner[k] /\ owner[k] # c
  BY DEF Gone
<1>2. \A k \in Cells : owner[k] # c => owner'[k] = owner[k]
  BY DEF Gone
<1>3. \A j, k \in Cells : owner'[j] = owner'[k] /\ owner'[j] \in Calls => j = k
  BY <1>1 DEF CellsOwnLiveCalls
<1>4. \A k \in Cells : owner'[k] \in Calls => Alive(owner[k])' /\ ~hanging'[owner'[k]]
  BY <1>1 DEF Gone, CellsOwnLiveCalls, Alive, Typed
<1>5. ASSUME NEW d \in Calls, inv'[d] # "NULL", ~hanging'[d]
      PROVE  \E k \in Cells : owner'[k] = d
  <2>1. d # c /\ Alive(d) /\ ~hanging[d]
    BY <1>5 DEF Gone, Alive
  <2>2. PICK k \in Cells : owner[k] = d
    BY <2>1 DEF CellsOwnLiveCalls
  <2> QED
    BY <1>2, <2>1, <2>2
<1>6. \A d \in Calls : hanging'[d] => inv'[d] # "NULL"
  BY DEF Gone, CellsOwnLiveCalls, Alive
<1> QED
  BY <1>3, <1>4, <1>5, <1>6 DEF CellsOwnLiveCalls, Alive

\* ... or touches no cell, starts and ends no call.
LEMMA QuietKeepsMatch ==
  ASSUME CellsOwnLiveCalls, UNCHANGED <<owner, hanging>>,
         \A d \in Calls : inv'[d] = "NULL" <=> inv[d] = "NULL",
         pc \notin {"trying", "claim"}, pc' \notin {"trying", "claim"}, Typed
  PROVE  CellsOwnLiveCalls'
BY DEF CellsOwnLiveCalls, Alive, Typed

LEMMA IncomingMatch ==
  ASSUME Typed, CellsOwnLiveCalls, NEW c \in Calls, NEW n \in Numbers, Incoming(c, n)
  PROVE  CellsOwnLiveCalls'
<1>1. /\ inv[c] = "NULL" /\ inv' = [inv EXCEPT ![c] = "INCOMING"]
      /\ pc = "idle" /\ pc' = "trying" /\ cur' = c
      /\ UNCHANGED <<owner, hanging>>
  BY DEF Incoming, AllocCall, FreeSlots, cellVars
<1>2. \A k \in Cells : owner[k] # c
  BY <1>1 DEF CellsOwnLiveCalls, Alive
<1>3. ~hanging[c]
  BY <1>1 DEF CellsOwnLiveCalls, Alive
<1> QED
  BY <1>1, <1>2, <1>3 DEF CellsOwnLiveCalls, Alive, Typed

\* The steps of on_incoming_call.  Without 100 \notin Unsendable this fails: the
\* call may end before its cell is claimed.
LEMMA AnswerMatch ==
  ASSUME Typed, CellsOwnLiveCalls, 100 \notin Unsendable,
         \/ AnswerTrying \/ ClaimCell \/ AnswerNotFound \/ AnswerRinging
         \/ InitDelay \/ ScheduleDelay
  PROVE  CellsOwnLiveCalls'
<1>1. ASSUME AnswerTrying PROVE CellsOwnLiveCalls'
  <2>1. /\ UNCHANGED <<owner, inv, hanging, cur>>
        /\ pc = "trying" /\ pc' = "claim"
    BY <1>1 DEF AnswerTrying, Goto, cellVars
  <2> QED
    BY <2>1 DEF CellsOwnLiveCalls, Alive
<1>2. ASSUME ClaimCell PROVE CellsOwnLiveCalls'
  <2>1. pc = "claim" /\ cur \in Calls /\ Alive(cur) /\ ~hanging[cur]
    BY <1>2 DEF ClaimCell, CellsOwnLiveCalls, Typed
  <2>2. CASE FreeCell = NoCell
    <3>1. Disconnect(cur, FALSE) /\ pc' = "idle"
      BY <1>2, <2>1, <2>2 DEF ClaimCell, AnswerBusy, Return
    <3> QED
      BY <2>1, <3>1, DisconnectGone, GoneKeepsMatch
  <2>3. CASE FreeCell # NoCell
    <3>1. /\ FreeCell \in Cells /\ owner[FreeCell] = NoCall
      BY <2>3, CellOfCorrect DEF FreeCell, Typed
    <3>2. /\ owner' = [owner EXCEPT ![FreeCell] = cur]
          /\ UNCHANGED <<inv, hanging, cur>>
          /\ pc' \notin {"trying", "claim"}
      BY <1>2, <2>3 DEF ClaimCell, TakeCell
    <3>3. \A k \in Cells : owner[k] # cur
      BY <2>1 DEF CellsOwnLiveCalls
    <3>4. owner'[FreeCell] = cur /\ \A k \in Cells : k # FreeCell => owner'[k] = owner[k]
      BY <3>1, <3>2 DEF Typed
    <3>5. \A j, k \in Cells : owner'[j] = owner'[k] /\ owner'[j] \in Calls => j = k
      BY <3>3, <3>4 DEF CellsOwnLiveCalls
    <3>6. \A k \in Cells : owner'[k] \in Calls => Alive(owner[k])' /\ ~hanging'[owner'[k]]
      BY <2>1, <3>2, <3>4 DEF CellsOwnLiveCalls, Alive
    <3>7. \A d \in Calls : Alive(d)' /\ ~hanging'[d] => \E k \in Cells : owner'[k] = d
      <4> SUFFICES ASSUME NEW d \in Calls, Alive(d), ~hanging[d]
                   PROVE  \E k \in Cells : owner'[k] = d
        BY <3>2 DEF Alive
      <4>1. CASE d = cur
        BY <3>1, <3>4, <4>1
      <4>2. CASE d # cur
        <5>1. PICK k \in Cells : owner[k] = d
          BY <4>2 DEF CellsOwnLiveCalls
        <5>2. k # FreeCell
          BY <3>1, <5>1
        <5> QED
          BY <3>4, <5>1, <5>2
      <4> QED
        BY <4>1, <4>2
    <3> QED
      BY <3>2, <3>5, <3>6, <3>7 DEF CellsOwnLiveCalls, Alive
  <2> QED
    BY <2>2, <2>3
<1>3. ASSUME AnswerNotFound PROVE CellsOwnLiveCalls'
  <2>1. pc = "not_found" /\ pc' = "idle"
    BY <1>3 DEF AnswerNotFound, Return
  <2>2. CASE Alive(cur)
    <3>1. cur \in Calls
      BY <2>1 DEF Typed
    <3>2. PICK notFound \in BOOLEAN : Disconnect(cur, notFound)
      BY <1>3, <2>2 DEF AnswerNotFound
    <3> QED
      BY <2>1, <3>1, <3>2, DisconnectGone, GoneKeepsMatch
  <2>3. CASE ~Alive(cur)
    BY <1>3, <2>1, <2>3, QuietKeepsMatch DEF AnswerNotFound, cellVars
  <2> QED
    BY <2>2, <2>3
<1>4. ASSUME AnswerRinging PROVE CellsOwnLiveCalls'
  <2>1. cur \in Calls /\ pc = "ringing" /\ pc' = "delay_init"
    BY <1>4 DEF AnswerRinging, Goto, Typed
  <2>2. CASE Disconnect(cur, FALSE)
    BY <2>1, <2>2, DisconnectGone, GoneKeepsMatch
  <2>3. CASE ~Disconnect(cur, FALSE)
    BY <1>4, <2>1, <2>3, QuietKeepsMatch DEF AnswerRinging, cellVars, Typed, Alive
  <2> QED
    BY <2>2, <2>3
<1>5. ASSUME InitDelay PROVE CellsOwnLiveCalls'
  BY <1>5, QuietKeepsMatch DEF InitDelay, Goto, slotVars
<1>6. ASSUME ScheduleDelay PROVE CellsOwnLiveCalls'
  <2>1. cur \in Calls \cup {NoCall} /\ pc = "delay_schedule" /\ pc' = "idle"
    BY <1>6 DEF ScheduleDelay, Return, Typed
  <2>2. CASE Hangup(cur)
    BY <2>1, <2>2, HangupGone, GoneKeepsMatch
  <2>3. CASE ~Hangup(cur)
    BY <1>6, <2>1, <2>3, QuietKeepsMatch DEF ScheduleDelay
  <2> QED
    BY <2>2, <2>3
<1> QED
  BY <1>1, <1>2, <1>3, <1>4, <1>5, <1>6

\* The steps of the timer callbacks.
LEMMA TimerMatch ==
  ASSUME Typed, CellsOwnLiveCalls,
         \/ DelayLookup \/ DelayAnswer \/ DelayHangup \/ InitTimeout \/ ScheduleTimeout
         \/ TimeoutLookup \/ TimeoutHangup \/ TimeoutDone
  PROVE  CellsOwnLiveCalls'
<1>0. cur \in Calls \cup {NoCall}
  BY DEF Typed
<1>1. ASSUME DelayLookup \/ TimeoutLookup PROVE CellsOwnLiveCalls'
  BY <1>1, QuietKeepsMatch DEF DelayLookup, TimeoutLookup, Lookup, cellVars, slotVars
<1>2. ASSUME DelayAnswer PROVE CellsOwnLiveCalls'
  <2>1. CASE AnswerOk
    BY <1>2, <2>1, QuietKeepsMatch DEF DelayAnswer, AnswerOk, Waiting, Goto, cellVars, Typed
  <2>2. CASE AnswerFails
    <3>1. pc = "answer" /\ pc' = "answer_failed"
      BY <1>2, <2>2 DEF DelayAnswer, AnswerFails, Goto
    <3>2. CASE Waiting(cur)
      BY <2>2, <3>1, <3>2, DisconnectGone, GoneKeepsMatch DEF AnswerFails, Waiting
    <3>3. CASE ~Waiting(cur)
      BY <2>2, <3>1, <3>3, QuietKeepsMatch DEF AnswerFails, cellVars
    <3> QED
      BY <3>2, <3>3
  <2> QED
    BY <1>2, <2>1, <2>2 DEF DelayAnswer
<1>3. ASSUME DelayHangup \/ ScheduleTimeout \/ TimeoutHangup PROVE CellsOwnLiveCalls'
  <2>1. pc \notin {"trying", "claim"} /\ pc' \notin {"trying", "claim"}
    BY <1>3 DEF DelayHangup, ScheduleTimeout, TimeoutHangup, Return, Goto
  <2>2. CASE Hangup(cur)
    BY <1>0, <2>1, <2>2, HangupGone, GoneKeepsMatch
  <2>3. CASE ~Hangup(cur)
    BY <1>3, <2>1, <2>3, QuietKeepsMatch DEF DelayHangup, ScheduleTimeout, TimeoutHangup, cellVars
  <2> QED
    BY <2>2, <2>3
<1>4. ASSUME InitTimeout PROVE CellsOwnLiveCalls'
  BY <1>4, QuietKeepsMatch DEF InitTimeout, Goto, Return, slotVars
<1>5. ASSUME TimeoutDone PROVE CellsOwnLiveCalls'
  BY <1>5, QuietKeepsMatch DEF TimeoutDone, Return, slotVars
<1> QED
  BY <1>1, <1>2, <1>3, <1>4, <1>5

\* What the timer heap, the caller and the transaction layer do.
LEMMA EventMatch ==
  ASSUME Typed, CellsOwnLiveCalls,
         \/ \E t \in TimerIds : Fire(t)
         \/ \E c \in Calls : RemoteEnds(c) \/ Ack(c) \/ NoAck(c) \/ ByeDone(c) \/ Reoffer(c)
  PROVE  CellsOwnLiveCalls'
<1>1. ASSUME NEW t \in TimerIds, Fire(t) PROVE CellsOwnLiveCalls'
  BY <1>1, QuietKeepsMatch DEF Fire, callback, slotVars
<1>2. ASSUME NEW c \in Calls, RemoteEnds(c) \/ ByeDone(c) PROVE CellsOwnLiveCalls'
  BY <1>2, DisconnectGone, GoneKeepsMatch DEF RemoteEnds, ByeDone, callback
<1>3. ASSUME NEW c \in Calls, Ack(c) \/ NoAck(c) \/ Reoffer(c) PROVE CellsOwnLiveCalls'
  <2>1. pc = "idle" /\ pc' = "idle" /\ inv[c] # "NULL"
    BY <1>3 DEF Ack, NoAck, Reoffer, callback
  <2>2. \A d \in Calls : inv'[d] = "NULL" <=> inv[d] = "NULL"
    BY <1>3, <2>1 DEF Ack, NoAck, Reoffer, Typed
  <2>3. CASE UNCHANGED <<owner, hanging>>
    BY <2>1, <2>2, <2>3, QuietKeepsMatch
  <2>4. CASE ~UNCHANGED <<owner, hanging>>
    <3>1. OnCallState(c, FALSE) /\ hanging' = [hanging EXCEPT ![c] = TRUE]
      BY <1>3, <2>4 DEF Ack, NoAck, Reoffer, MediaUpdate, cellVars
    <3>2. \A d \in Calls : d # c => inv'[d] = inv[d]
      BY <1>3 DEF Ack, NoAck, Reoffer, Typed
    <3>3. Gone(c)
      BY <2>1, <2>2, <3>1, <3>2, OnCallStateOwner DEF Gone, Typed
    <3> QED
      BY <2>1, <3>3, GoneKeepsMatch
  <2> QED
    BY <2>3, <2>4
<1> QED
  BY <1>1, <1>2, <1>3

LEMMA MatchNext ==
  ASSUME 100 \notin Unsendable
  PROVE  Typed /\ CellsOwnLiveCalls /\ [Next]_vars => CellsOwnLiveCalls'
<1>1. ASSUME Typed, CellsOwnLiveCalls, Next PROVE CellsOwnLiveCalls'
  <2>1. CASE Step
    BY <1>1, <2>1, AnswerMatch, TimerMatch DEF Step
  <2>2. CASE \E c \in Calls, n \in Numbers : Incoming(c, n)
    BY <1>1, <2>2, IncomingMatch
  <2>3. CASE ~Step /\ ~\E c \in Calls, n \in Numbers : Incoming(c, n)
    BY <1>1, <2>3, EventMatch DEF Next, CallEvent
  <2> QED
    BY <2>1, <2>2, <2>3
<1>2. ASSUME CellsOwnLiveCalls, UNCHANGED vars PROVE CellsOwnLiveCalls'
  BY <1>2 DEF CellsOwnLiveCalls, Alive, vars, cellVars, slotVars, callback
<1> QED
  BY <1>1, <1>2

\* Cells and calls match one to one as long as the second 100 of a call goes
\* out: whatever number of cells and slots, whatever other failure.
THEOREM CellsMatchCalls ==
  ASSUME 100 \notin Unsendable
  PROVE  Spec => []CellsOwnLiveCalls
<1>1. Init => CellsOwnLiveCalls
  BY DEF Init, CellsFilled, NothingRuns, CellsOwnLiveCalls, Alive
<1> QED
  BY <1>1, MatchNext, TypesHold, PTL DEF Spec

-----------------------------------------------------------------------------
(* The 600 is never needed *)

\* While a call looks for a cell every claimed cell belongs to another call, and
\* there are at least as many cells as calls.
LEMMA FreeCellExists == TypeOK /\ CellsOwnLiveCalls => FreeCellForNewCall
<1> SUFFICES ASSUME TypeOK, CellsOwnLiveCalls, pc = "claim", FreeCell = NoCell
             PROVE  FALSE
  BY DEF FreeCellForNewCall
<1>1. \A k \in Cells : owner[k] # NoCall
  BY CellOfCorrect DEF FreeCell, TypeOK, Typed
<1> DEFINE Others == Calls \ {cur}
<1>2. owner \in [Cells -> Others]
  BY <1>1 DEF TypeOK, Typed, CellsOwnLiveCalls
<1>3. IsFiniteSet(Cells) /\ Cardinality(Cells) = NumCells
  BY SizeAssumption, FS_Interval
<1>4. IsFiniteSet(Others) /\ Cardinality(Others) = MaxCalls - 1
  <2>1. IsFiniteSet(Calls) /\ Cardinality(Calls) = MaxCalls
    BY SizeAssumption, FS_Interval
  <2>2. cur \in Calls
    BY DEF TypeOK, Typed
  <2> QED
    BY <2>1, <2>2, FS_RemoveElement
<1>5. Cardinality(Others) < Cardinality(Cells)
  BY <1>3, <1>4, SizeAssumption
<1> HIDE DEF Others
<1>6. PICK j, k \in Cells : j # k /\ owner[j] = owner[k]
  BY <1>2, <1>3, <1>4, <1>5, FS_PigeonHole
<1> QED
  BY <1>2, <1>6 DEF CellsOwnLiveCalls, Others

\* on_incoming_call never answers 600, although pjsua may still hold slots whose
\* cells are long released.
THEOREM NoCallRefusedBusy ==
  ASSUME 100 \notin Unsendable
  PROVE  Spec => []FreeCellForNewCall
BY FreeCellExists, TypeCorrect, CellsMatchCalls, PTL
=============================================================================
