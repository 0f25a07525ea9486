---------------------------- MODULE LifecycleProofs ----------------------------
(***************************************************************************)
(* Theorems about the auto-answerer from main() to exit, for every number  *)
(* of cells and calls: the main thread runs beside the worker, and no step *)
(* of either waits for the other except for pjsua's mutex and the join.    *)
(***************************************************************************)
EXTENDS Lifecycle, UasTimerProofs

USE DEF Calls, Cells, NoCall, NoCell, NoEntry, Junk, RingModes

-----------------------------------------------------------------------------
(* What the steps of the two threads do to the state of Uas *)

\* While the process lives, the worker makes steps of Uas, until the pool it
\* needs is gone.
LEMMA WorkerSteps ==
  ASSUME Live, Worker
  PROVE  Next \/ UseFreed \/ PlayerGone
BY DEF Worker, Serve, ServeWithoutCells, ServeFreed, Next, CallEvent

LEMMA StepOrStutter ==
  ASSUME [LifeNext]_<<allVars, late>>
  PROVE  \/ Live /\ Worker /\ UNCHANGED mainVars
         \/ Live /\ Main
         \/ UNCHANGED <<allVars, late>>
BY DEF LifeNext, Worker

\* The steps of the main thread by what they do to cells, calls and timers: most
\* do nothing; a few may only end the process.
Untouched == UNCHANGED <<owner, mode, entry, heap, inv, hanging, bye, number, nextCall, callback>>

LEMMA MainSteps ==
  ASSUME Main
  PROVE  \/ UNCHANGED vars
         \/ AddAccount /\ Untouched /\ UNCHANGED tone /\ crashed' \in {crashed, "assert"}
         \/ AllocCells
         \/ FillCell
         \/ /\ HangupAll \/ HangupAgain
            /\ next <= LastCall
            /\ HangupNext
         \/ RemoveTones /\ Untouched
         \/ ReleasePool /\ Untouched /\ UNCHANGED tone /\ crashed' \in {crashed, "null_pool"}
BY DEF Main, CreatePjsua, CreatePool, InitPjsua, CreateTransport, StartPjsua, AddAccount,
       CreateTones, Quit, HangupAll, HangupAgain, RemoveTones, ReleasePool, StopWorker,
       Join, DestroyPjsua, Untouched, vars, cellVars, slotVars, callback

\* A hangup by the main thread writes a timer entry only to zero it.
LEMMA HangupZeroes ==
  ASSUME NEW c, Hangup(c), NEW e \in Entries
  PROVE  entry'[e] = entry[e] \/ entry'[e] = Zeroed
<1>1. CASE UNCHANGED cellVars
  BY <1>1 DEF cellVars
<1>2. CASE ~UNCHANGED cellVars
  <2>1. OnCallState(c, FALSE)
    BY <1>2 DEF Hangup
  <2>2. PICK k : Release(k)
    BY <1>2, <2>1 DEF OnCallState, cellVars
  <2> QED
    BY <2>2 DEF Release
<1> QED
  BY <1>1, <1>2

-----------------------------------------------------------------------------
(* Types *)

\* While the process lives the state of Uas has its ranges, memory that nobody has
\* written included.
LifeInv == LifeTypeOK /\ (Live => Typed)

LEMMA NextInRange ==
  0 .. (IF main = "fill" \/ MaxCalls < NumCells THEN NumCells ELSE MaxCalls) = 0 .. NumCells
BY SizeAssumption

LEMMA InitLifeInv == LifeInit => LifeInv
<1> SUFFICES ASSUME LifeInit PROVE LifeInv
  OBVIOUS
<1>1. Unwritten \in TimerEntry /\ ~Unwritten.cb
  BY DEF Unwritten, TimerEntry
<1>2. CallTyped
  BY <1>1 DEF LifeInit, NothingRuns, CallTyped, InvStates
<1>3. WorkerTyped
  BY SizeAssumption DEF LifeInit, NothingRuns, WorkerTyped, Labels
<1>4. LifeTypeOK
  BY SizeAssumption DEF LifeInit, NothingRuns, LifeTypeOK, Startup
<1> QED
  BY <1>2, <1>3, <1>4, TypedSplit DEF LifeInv

\* The main thread keeps to its places and to the bounds of its loops.
LEMMA MainPlaced ==
  ASSUME LifeTypeOK, Main
  PROVE  /\ main' \in Startup \cup {"input"} \cup Shutdown \cup {"exited"}
         /\ next' \in 0 .. NumCells
         /\ pool' \in {"NULL", "held", "released"}
         /\ worker' \in {"none", "running", "stopping"}
         /\ open' \in {"closed", "bound", "accepting"}
         /\ tones' \in {"none", "some", "all"}
<1>1. /\ main \in Startup \cup {"input"} \cup Shutdown \cup {"exited"}
      /\ next \in 0 .. NumCells
      /\ pool \in {"NULL", "held", "released"}
      /\ worker \in {"none", "running", "stopping"}
      /\ open \in {"closed", "bound", "accepting"}
      /\ tones \in {"none", "some", "all"}
  BY NextInRange DEF LifeTypeOK
<1>2. CASE CreatePjsua \/ CreatePool \/ InitPjsua \/ CreateTransport \/ StartPjsua
  BY <1>1, <1>2
  DEF CreatePjsua, CreatePool, InitPjsua, CreateTransport, StartPjsua, At, Startup, Shutdown
<1>3. CASE AddAccount \/ CreateTones \/ AllocCells \/ Quit
  <2>1. CASE AddAccount
    <3>1. UNCHANGED <<next, pool, worker, tones>> /\ open' \in {open, "accepting"}
      BY <2>1 DEF AddAccount
    <3>2. main' \in {"tones", "hangup_all"}
      BY <2>1 DEF AddAccount, At
    <3> QED
      BY <1>1, <3>1, <3>2 DEF Startup, Shutdown
  <2>2. CASE CreateTones
    BY <1>1, <2>2 DEF CreateTones, At, Startup, Shutdown
  <2>3. CASE AllocCells
    <3>1. UNCHANGED <<pool, worker, open, tones>>
      BY <2>3 DEF AllocCells
    <3>2. \/ main' = "fill" /\ next' = 0
          \/ UNCHANGED <<main, next>>
      BY <2>3 DEF AllocCells, At
    <3> QED
      BY <1>1, <3>1, <3>2, SizeAssumption DEF Startup
  <2>4. CASE Quit
    BY <1>1, <2>4, SizeAssumption DEF Quit, At, Shutdown
  <2> QED
    BY <1>3, <2>1, <2>2, <2>3, <2>4
<1>4. CASE FillCell
  BY <1>1, <1>4, SizeAssumption DEF FillCell, Startup
<1>5. CASE HangupAll \/ HangupAgain
  BY <1>1, <1>5, SizeAssumption DEF HangupAll, HangupAgain, HangupNext, LastCall, Shutdown
<1>6. CASE RemoveTones \/ ReleasePool \/ StopWorker \/ Join \/ DestroyPjsua
  BY <1>1, <1>6, SizeAssumption
  DEF RemoveTones, ReleasePool, StopWorker, Join, DestroyPjsua, At, Shutdown
<1> QED
  BY <1>2, <1>3, <1>4, <1>5, <1>6 DEF Main

\* What the main thread does to the state of Uas keeps its ranges.
LEMMA MainTyped ==
  ASSUME Typed, LifeTypeOK, Live, Main
  PROVE  /\ owner' \in [Cells -> Calls \cup {NoCall, Junk}]
         /\ crashed' \in {"no", "null_cell", "bad_cancel", "assert", "null_pool", "use_after_free"}
         /\ Live' => Typed'
<1>0. /\ owner \in [Cells -> Calls \cup {NoCall, Junk}] /\ crashed = "no"
      /\ CallTyped /\ WorkerTyped
  BY TypedSplit DEF Typed, Live
<1>1. CASE UNCHANGED vars
  BY <1>0, <1>1, StutterTyped DEF vars, cellVars
<1>2. CASE /\ Untouched /\ tone' \in {tone, [c \in Calls |-> "NOT_SET"]}
           /\ crashed' \in {crashed, "assert", "null_pool"}
  <2>1. WorkerTyped'
    BY <1>0, <1>2 DEF Untouched, callback, WorkerTyped
  <2>2. Live' => CallTyped'
    BY <1>0, <1>2 DEF Untouched, CallTyped, Live
  <2> QED
    BY <1>0, <1>2, <2>1, <2>2, TypedSplit DEF Untouched
<1>3. CASE AllocCells
  <2>1. owner' \in [Cells -> Calls \cup {NoCall, Junk}] /\ crashed' \in {crashed, "assert"}
    BY <1>0, <1>3, MemoryAssumption DEF AllocCells
  <2>2. CallTyped' /\ WorkerTyped'
    BY <1>0, <1>3, <2>1 DEF AllocCells, CallTyped, WorkerTyped, slotVars, callback
  <2> QED
    BY <1>0, <2>1, <2>2, TypedSplit
<1>4. CASE FillCell
  <2>1. owner' \in [Cells -> Calls \cup {NoCall, Junk}]
    BY <1>0, <1>4 DEF FillCell
  <2>2. CallTyped' /\ WorkerTyped'
    BY <1>0, <1>4, <2>1 DEF FillCell, CallTyped, WorkerTyped, slotVars, callback
  <2> QED
    BY <1>0, <1>4, <2>1, <2>2, TypedSplit DEF FillCell
<1>5. CASE HangupNext
  <2>1. CASE UNCHANGED vars
    BY <1>1, <2>1
  <2>2. CASE UseFreed
    BY <1>0, <2>2 DEF UseFreed, Dies, cellVars, Live
  <2>3. CASE Hangup(next) /\ UNCHANGED <<number, nextCall, callback>>
    <3>1. CallTyped'
      BY <1>0, <2>3, HangupTyped
    <3>2. \A e \in Entries : entry[e].id # Junk => entry'[e].id # Junk
      BY <2>3, HangupZeroes DEF Zeroed
    <3>3. WorkerTyped'
      BY <1>0, <2>3, <3>2 DEF WorkerTyped, callback
    <3> QED
      BY <3>1, <3>3, TypedSplit DEF CallTyped
  <2> QED
    BY <1>5, <2>1, <2>2, <2>3 DEF HangupNext
<1>6. RemoveTones => /\ tone' = [c \in Calls |-> "NOT_SET"]
                     /\ crashed' \in {crashed, "assert"}
  BY DEF RemoveTones
<1> QED
  BY <1>1, <1>2, <1>3, <1>4, <1>5, <1>6, MainSteps DEF HangupAll, HangupAgain

LEMMA LifeInvNext == LifeInv /\ [LifeNext]_<<allVars, late>> => LifeInv'
<1> SUFFICES ASSUME LifeInv, [LifeNext]_<<allVars, late>> PROVE LifeInv'
  OBVIOUS
<1>0. LifeTypeOK /\ (Live => Typed)
  BY DEF LifeInv
<1>1. CASE Live /\ Worker /\ UNCHANGED mainVars
  <2>1. CASE Next
    <3>1. Typed'
      BY <1>0, <1>1, <2>1, NextTyped
    <3> QED
      BY <1>0, <1>1, <3>1 DEF LifeInv, LifeTypeOK, Typed, mainVars
  <2>2. CASE UseFreed \/ PlayerGone
    BY <1>0, <1>1, <2>2
    DEF UseFreed, PlayerGone, Dies, LifeInv, LifeTypeOK, Live, cellVars, mainVars
  <2> QED
    BY <1>1, <2>1, <2>2, WorkerSteps
<1>2. CASE Live /\ Main
  <2>1. 0 .. NumCells = 0 .. (IF main' = "fill" \/ MaxCalls < NumCells THEN NumCells ELSE MaxCalls)
    BY SizeAssumption
  <2> QED
    BY <1>0, <1>2, <2>1, MainPlaced, MainTyped DEF LifeInv, LifeTypeOK
<1>3. CASE UNCHANGED <<allVars, late>>
  <2>1. UNCHANGED vars /\ UNCHANGED mainVars
    BY <1>3 DEF allVars
  <2> QED
    BY <1>0, <2>1, StutterTyped DEF LifeInv, LifeTypeOK, Live, vars, cellVars, mainVars
<1> QED
  BY <1>1, <1>2, <1>3, StepOrStutter

LEMMA LifeInvHolds == LifeSpec => []LifeInv
BY InitLifeInv, LifeInvNext, PTL DEF LifeSpec

\* From main() to exit every variable keeps its range: in particular the two loops
\* of app_init and pjsua_call_hangup_all stay inside their arrays.
THEOREM LifeTypes == LifeSpec => []LifeTypeOK
<1>1. LifeInv => LifeTypeOK
  BY DEF LifeInv
<1> QED
  BY <1>1, LifeInvHolds, PTL

-----------------------------------------------------------------------------
(* The stages of app_init: while calls_data is NULL no call is served *)

\* Before the loop that fills the array a call can only be refused: no cell carries
\* an id that anybody looks for, so no timer is ever made.
Unserved ==
  /\ \A k \in Cells : owner[k] = Junk
  /\ \A t \in TimerIds : heap[t] = NoEntry
  /\ pc \in {"idle", "trying", "claim"}
  /\ \A c \in Calls : inv[c] \in {"NULL", "INCOMING"} /\ ~bye[c]

NothingServed == main \in Startup \ {"fill"} => next = 0 /\ Unserved

\* What the main thread has got, and what it has given back, at each of its places.
Stages ==
  /\ main \in {"alloc", "fill"} => tones = "all"
  /\ main \in Startup \cup {"input", "hangup_all", "remove_tones", "release"}
       => pool # "released"
  /\ main \in {"hangup_again", "sleep", "exited"} => worker = "none"

StartInv == LifeInv /\ NothingServed /\ Stages

\* The worker refuses every call then: there is no free cell, hence 600, or the
\* call ends before.
LEMMA UnservedDisconnect ==
  ASSUME Typed, Unserved, NEW c \in Calls, NEW notFound, Disconnect(c, notFound)
  PROVE  /\ UNCHANGED heap
         /\ \A d \in Calls : inv'[d] \in {"NULL", "INCOMING"} /\ ~bye'[d]
<1>1. CellOf(c) = NoCell
  BY CellOfCorrect DEF Typed, Unserved
<1>2. UNCHANGED heap
  BY <1>1 DEF Disconnect, OnCallState
<1>3. inv' = [inv EXCEPT ![c] = "NULL"] /\ bye' = [bye EXCEPT ![c] = FALSE]
  BY DEF Disconnect, FreeSlot
<1> QED
  BY <1>2, <1>3 DEF Typed, Unserved

LEMMA UnservedNext == Typed /\ Unserved /\ Next => Unserved'
<1> SUFFICES ASSUME Typed, Unserved, Next PROVE Unserved'
  OBVIOUS
<1>0. \A k \in Cells : owner'[k] = Junk
  BY JunkStays DEF Unserved
<1>1. SUFFICES /\ \A t \in TimerIds : heap'[t] = NoEntry
               /\ pc' \in {"idle", "trying", "claim"}
               /\ \A c \in Calls : inv'[c] \in {"NULL", "INCOMING"} /\ ~bye'[c]
  BY <1>0 DEF Unserved
<1>2. CASE \E c \in Calls, n \in Numbers : Incoming(c, n)
  BY <1>2 DEF Incoming, Unserved, Typed
<1>3. CASE Step
  <2>1. CASE AnswerTrying
    <3>1. pc' = "claim" /\ cur \in Calls
      BY <2>1 DEF AnswerTrying, Goto, Typed
    <3>2. CASE UNCHANGED <<cellVars, heap, inv, hanging, bye, tone, crashed>>
      BY <3>1, <3>2 DEF Unserved
    <3>3. CASE Disconnect(cur, FALSE)
      BY <3>1, <3>3, UnservedDisconnect DEF Unserved
    <3> QED
      BY <2>1, <3>2, <3>3 DEF AnswerTrying
  <2>2. CASE ClaimCell
    <3>1. FreeCell = NoCell
      BY CellOfCorrect DEF FreeCell, Typed, Unserved
    <3>2. AnswerBusy /\ pc' = "idle" /\ cur \in Calls
      BY <2>2, <3>1 DEF ClaimCell, AnswerBusy, Return, Typed
    <3>3. CASE Alive(cur)
      BY <3>2, <3>3, UnservedDisconnect DEF AnswerBusy, Unserved
    <3>4. CASE ~Alive(cur)
      BY <3>2, <3>4 DEF AnswerBusy, Unserved
    <3> QED
      BY <3>3, <3>4
  <2>3. CASE ~(AnswerTrying \/ ClaimCell)
    BY <1>3, <2>3
    DEF Step, Unserved, AnswerNotFound, AnswerRinging, InitDelay, ScheduleDelay, DelayLookup,
        DelayAnswer, DelayHangup, InitTimeout, ScheduleTimeout, TimeoutLookup, Lookup,
        TimeoutHangup, TimeoutDone
  <2> QED
    BY <2>1, <2>2, <2>3
<1>4. CASE \E t \in TimerIds : Fire(t)
  BY <1>4 DEF Fire, Unserved
<1>5. ASSUME NEW c \in Calls, CallEvent(c)
      PROVE  /\ \A t \in TimerIds : heap'[t] = NoEntry
             /\ pc' \in {"idle", "trying", "claim"}
             /\ \A d \in Calls : inv'[d] \in {"NULL", "INCOMING"} /\ ~bye'[d]
  <2>1. RemoteEnds(c)
    <3>1. inv[c] \notin {"CONNECTING", "CONFIRMED"} /\ ~bye[c]
      BY DEF Unserved
    <3> QED
      BY <1>5, <3>1 DEF CallEvent, Ack, NoAck, ByeDone, Reoffer
  <2> QED
    BY <2>1, UnservedDisconnect DEF RemoteEnds, Unserved, callback
<1> QED
  BY <1>2, <1>3, <1>4, <1>5 DEF Next

\* The main thread comes to each of its places only from the one before, with what
\* it took there.
LEMMA MainEarly ==
  ASSUME Main, main' \in Startup \ {"fill"}
  PROVE  /\ main \in Startup \ {"fill"}
         /\ UNCHANGED <<next, owner, heap, pc, inv, bye>>
<1>1. main' \notin Shutdown \cup {"input", "exited", "fill"}
  BY DEF Startup, Shutdown
<1>2. CASE CreatePjsua \/ CreatePool \/ InitPjsua \/ CreateTransport \/ StartPjsua
           \/ CreateTones
  BY <1>2
  DEF CreatePjsua, CreatePool, InitPjsua, CreateTransport, StartPjsua, CreateTones, At,
      Startup, vars, cellVars, slotVars, callback
<1>3. CASE AddAccount
  <2>1. main = "account" /\ UNCHANGED next
    BY <1>3 DEF AddAccount, At
  <2>2. UNCHANGED <<owner, heap, pc, inv, bye>>
    BY <1>3 DEF AddAccount, vars, cellVars, slotVars, callback
  <2> QED
    BY <2>1, <2>2 DEF Startup
<1>4. CASE AllocCells
  BY <1>1, <1>4 DEF AllocCells, At, slotVars, callback, Startup
<1>5. CASE FillCell
  BY <1>1, <1>5 DEF FillCell
<1>6. CASE Quit \/ HangupAll \/ RemoveTones \/ ReleasePool \/ StopWorker \/ Join
           \/ HangupAgain \/ DestroyPjsua
  BY <1>1, <1>6
  DEF Quit, HangupAll, RemoveTones, ReleasePool, StopWorker, Join, HangupAgain, DestroyPjsua,
      At, Shutdown
<1> QED
  BY <1>2, <1>3, <1>4, <1>5, <1>6 DEF Main

LEMMA MainStages == Main /\ Stages => Stages'
<1> SUFFICES ASSUME Main, Stages PROVE Stages'
  OBVIOUS
<1>1. CASE CreatePjsua \/ CreatePool \/ InitPjsua \/ CreateTransport \/ StartPjsua
           \/ CreateTones \/ Quit
  BY <1>1
  DEF CreatePjsua, CreatePool, InitPjsua, CreateTransport, StartPjsua, CreateTones, Quit, At,
      Startup, Stages
<1>2. CASE AddAccount
  <2>1. main = "account" /\ main' \in {"tones", "hangup_all"} /\ UNCHANGED <<pool, tones, worker>>
    BY <1>2 DEF AddAccount, At
  <2> QED
    BY <2>1 DEF Stages, Startup
<1>3. CASE AllocCells
  <2>1. main = "alloc" /\ main' \in {"alloc", "fill"} /\ UNCHANGED <<pool, tones, worker>>
    BY <1>3 DEF AllocCells, At
  <2> QED
    BY <2>1 DEF Stages, Startup
<1>4. CASE FillCell
  BY <1>4 DEF FillCell, Stages, Startup
<1>5. CASE HangupAll \/ HangupAgain
  BY <1>5 DEF HangupAll, HangupAgain, Stages, Startup
<1>6. CASE RemoveTones \/ ReleasePool \/ StopWorker
  BY <1>6 DEF RemoveTones, ReleasePool, StopWorker, At, Stages, Startup
<1>7. CASE Join \/ DestroyPjsua
  BY <1>7 DEF Join, DestroyPjsua, At, Stages, Startup
<1> QED
  BY <1>1, <1>2, <1>3, <1>4, <1>5, <1>6, <1>7 DEF Main

LEMMA StartInvInit == LifeInit => StartInv
<1> SUFFICES ASSUME LifeInit PROVE StartInv
  OBVIOUS
<1>1. NothingServed /\ Stages
  BY DEF LifeInit, NothingRuns, NothingServed, Unserved, Stages
<1> QED
  BY <1>1, InitLifeInv DEF StartInv

LEMMA StartInvNext == StartInv /\ [LifeNext]_<<allVars, late>> => StartInv'
<1> SUFFICES ASSUME StartInv, [LifeNext]_<<allVars, late>> PROVE StartInv'
  OBVIOUS
<1>0. LifeInv /\ NothingServed /\ Stages /\ LifeInv'
  BY LifeInvNext DEF StartInv
<1>1. CASE Live /\ Worker /\ UNCHANGED mainVars
  <2>1. Stages'
    BY <1>0, <1>1 DEF Stages, mainVars
  <2>2. NothingServed'
    <3>1. SUFFICES ASSUME main \in Startup \ {"fill"} PROVE Unserved'
      BY <1>0, <1>1 DEF NothingServed, mainVars
    <3>2. pool # "released"
      BY <1>0, <3>1 DEF Stages
    <3>3. Next
      BY <1>1, <3>1, <3>2 DEF Worker, Serve, PlayerGone, ServeWithoutCells, ServeFreed, Next, Startup
    <3> QED
      BY <1>0, <1>1, <3>1, <3>3, UnservedNext DEF NothingServed, LifeInv
  <2> QED
    BY <1>0, <2>1, <2>2 DEF StartInv
<1>2. CASE Live /\ Main
  <2>1. NothingServed'
    BY <1>0, <1>2, MainEarly DEF NothingServed, Unserved
  <2> QED
    BY <1>0, <1>2, <2>1, MainStages DEF StartInv
<1>3. CASE UNCHANGED <<allVars, late>>
  BY <1>0, <1>3
  DEF StartInv, NothingServed, Unserved, Stages, allVars, vars, mainVars, cellVars, slotVars,
      callback
<1> QED
  BY <1>1, <1>2, <1>3, StepOrStutter

LEMMA StartInvHolds == LifeSpec => []StartInv
BY StartInvInit, StartInvNext, PTL DEF LifeSpec

\* A call that arrives while app_init is still creating the tones is refused: it
\* rings only once every source it could be connected to exists.
THEOREM RingsWithTones == LifeSpec => []RingsOnlyWithTones
<1>1. StartInv => RingsOnlyWithTones
  BY DEF StartInv, NothingServed, Stages, Unserved, RingsOnlyWithTones
<1> QED
  BY <1>1, StartInvHolds, PTL

-----------------------------------------------------------------------------
(* pjsua_call_hangup_all: one pass over the slots, beside the worker *)

\* The calls already passed, and after the loop all of them, are free or hung up.
Reached ==
  ~late /\ main \in Shutdown
    => \A c \in Calls : (main = "hangup_all" => c < next) /\ Alive(c) => hanging[c]

\* No event but a new INVITE brings a call back: whatever timers and callers do to
\* it, a free slot stays free and a call that is being hung up stays so.
LEMMA HungStays ==
  ASSUME Typed, Next, ~(pc = "idle" /\ pc' = "trying"),
         NEW c \in Calls, Alive(c) => hanging[c]
  PROVE  Alive(c)' => hanging'[c]
<1> DEFINE Stays == inv'[c] # "NULL" => hanging'[c]
<1>0. /\ inv \in [Calls -> InvStates] /\ hanging \in [Calls -> BOOLEAN]
      /\ inv[c] # "NULL" => hanging[c]
  BY DEF Typed, Alive
<1>1. SUFFICES Stays
  BY DEF Alive
<1>2. ASSUME UNCHANGED <<inv, hanging>> PROVE Stays
  BY <1>0, <1>2
<1>3. ASSUME NEW d, NEW notFound, Disconnect(d, notFound) PROVE Stays
  BY <1>0, <1>3 DEF Disconnect, FreeSlot
<1>4. ASSUME NEW d, Hangup(d) PROVE Stays
  BY <1>0, <1>4 DEF Hangup, FreeSlot
<1>5. ASSUME NEW d, NEW s, inv[d] # "NULL", inv' = [inv EXCEPT ![d] = s], UNCHANGED hanging
      PROVE  Stays
  BY <1>0, <1>5
<1>6. CASE Step
  <2>1. CASE AnswerTrying \/ AnswerNotFound
    BY <1>2, <1>3, <2>1 DEF AnswerTrying, AnswerNotFound
  <2>2. CASE ClaimCell
    BY <1>2, <1>3, <2>2 DEF ClaimCell, AnswerBusy, TakeCell
  <2>3. CASE AnswerRinging
    BY <1>2, <1>3, <1>5, <2>3 DEF AnswerRinging, Alive
  <2>4. CASE ScheduleDelay \/ ScheduleTimeout \/ DelayHangup \/ TimeoutHangup
    BY <1>2, <1>4, <2>4 DEF ScheduleDelay, ScheduleTimeout, DelayHangup, TimeoutHangup
  <2>5. CASE InitDelay \/ DelayLookup \/ TimeoutLookup \/ InitTimeout \/ TimeoutDone
    BY <1>2, <2>5
    DEF InitDelay, DelayLookup, TimeoutLookup, Lookup, InitTimeout, TimeoutDone, slotVars
  <2>6. CASE DelayAnswer
    <3>1. CASE AnswerOk
      BY <1>5, <3>1 DEF AnswerOk, Waiting
    <3>2. CASE AnswerFails
      BY <1>2, <1>3, <3>2 DEF AnswerFails
    <3> QED
      BY <2>6, <3>1, <3>2 DEF DelayAnswer
  <2> QED
    BY <1>6, <2>1, <2>2, <2>3, <2>4, <2>5, <2>6 DEF Step
<1>7. CASE \E t \in TimerIds : Fire(t)
  BY <1>2, <1>7 DEF Fire, slotVars
<1>8. ASSUME NEW d \in Calls, CallEvent(d) PROVE Stays
  <2>1. CASE RemoteEnds(d) \/ ByeDone(d)
    BY <1>3, <2>1 DEF RemoteEnds, ByeDone
  <2>2. CASE NoAck(d)
    BY <1>2, <2>2 DEF NoAck
  <2>3. ASSUME inv' \in {inv, [inv EXCEPT ![d] = "CONFIRMED"]}, inv[d] # "NULL",
               hanging' \in {hanging, [hanging EXCEPT ![d] = TRUE]}
        PROVE  Stays
    BY <1>0, <2>3
  <2>4. MediaUpdate(d) => hanging' \in {hanging, [hanging EXCEPT ![d] = TRUE]}
    BY DEF MediaUpdate
  <2>5. CASE Ack(d) \/ Reoffer(d)
    BY <2>3, <2>4, <2>5 DEF Ack, Reoffer
  <2> QED
    BY <1>8, <2>1, <2>2, <2>5 DEF CallEvent
<1> QED
  BY <1>6, <1>7, <1>8 DEF Next, Incoming

\* One round of the loop hangs up its call, and brings no other back.
LEMMA RoundReaches ==
  ASSUME Typed, HangupNext, pool # "released",
         NEW c \in Calls, c = next \/ (Alive(c) => hanging[c])
  PROVE  Alive(c)' => hanging'[c]
<1>0. inv \in [Calls -> InvStates] /\ hanging \in [Calls -> BOOLEAN]
  BY DEF Typed
<1>1. CASE ~Alive(next) /\ UNCHANGED vars
  <2>1. UNCHANGED <<inv, hanging>>
    BY <1>1 DEF vars, slotVars
  <2> QED
    BY <1>1, <2>1 DEF Alive
<1>2. CASE Alive(next) /\ Hangup(next)
  <2>1. CASE hanging[next]
    BY <1>0, <1>2, <2>1 DEF Hangup, Alive
  <2>2. CASE ~hanging[next]
    BY <1>0, <1>2, <2>2 DEF Hangup, FreeSlot, Alive
  <2> QED
    BY <2>1, <2>2
<1> QED
  BY <1>1, <1>2 DEF HangupNext

\* The second pass, inside pjsua_destroy, brings none back either.
LEMMA RoundKeeps ==
  ASSUME Typed, HangupNext, NEW c \in Calls, Alive(c) => hanging[c]
  PROVE  Alive(c)' => hanging'[c]
<1>0. inv \in [Calls -> InvStates] /\ hanging \in [Calls -> BOOLEAN]
  BY DEF Typed
<1>1. CASE UNCHANGED vars \/ UseFreed
  BY <1>1 DEF UseFreed, Dies, vars, slotVars, Alive
<1>2. CASE Hangup(next)
  BY <1>0, <1>2 DEF Hangup, FreeSlot, Alive
<1> QED
  BY <1>1, <1>2 DEF HangupNext

ReachInv == StartInv /\ Reached

LEMMA ReachNext == ReachInv /\ [LifeNext]_<<allVars, late>> => ReachInv'
<1> SUFFICES ASSUME ReachInv, [LifeNext]_<<allVars, late>> PROVE Reached'
  BY StartInvNext DEF ReachInv
<1>0. StartInv /\ Reached /\ LifeTypeOK /\ (Live => Typed) /\ Stages /\ NothingServed
  BY DEF ReachInv, StartInv, LifeInv
<1>1. CASE UNCHANGED <<allVars, late>>
  BY <1>0, <1>1 DEF Reached, Alive, allVars, vars, mainVars, slotVars
<1>2. CASE LifeNext
  <2> DEFINE Done(c) == Alive(c) => hanging[c]
  <2>1. SUFFICES ASSUME ~late', main' \in Shutdown, NEW c \in Calls,
                        main' = "hangup_all" => c < next'
                 PROVE  Done(c)'
    BY DEF Reached
  <2>2. ~late /\ Live /\ Typed /\ ~(main \in Shutdown /\ pc = "idle" /\ pc' = "trying")
    BY <1>0, <1>2, <2>1 DEF LifeNext
  <2>3. main \in Shutdown /\ (main = "hangup_all" => c < next) => Done(c)
    BY <1>0, <2>2 DEF Reached
  <2>4. CASE Worker /\ UNCHANGED mainVars
    <3>1. main \in Shutdown /\ Done(c)
      BY <2>1, <2>3, <2>4 DEF mainVars
    <3>2. CASE UseFreed \/ PlayerGone
      BY <3>1, <3>2 DEF UseFreed, PlayerGone, Dies, slotVars, Alive
    <3>3. CASE Next
      BY <2>2, <3>1, <3>3, HungStays
    <3> QED
      BY <2>2, <2>4, <3>2, <3>3, WorkerSteps
  <2>5. CASE Main
    <3>1. CASE main \notin Shutdown
      <4>1. main' = "hangup_all" /\ next' = 0
        <5>1. CASE Quit
          BY <5>1 DEF Quit, At
        <5>2. CASE AllocCells \/ FillCell
          BY <2>1, <3>1, <5>2 DEF AllocCells, FillCell, At, Shutdown
        <5>3. CASE CreatePjsua \/ CreatePool \/ InitPjsua \/ CreateTransport
                   \/ StartPjsua \/ CreateTones
          <6>1. main \in Startup \ {"fill"} /\ UNCHANGED next /\ main' \notin Shutdown \ {"hangup_all"}
            BY <5>3 DEF CreatePjsua, CreatePool, InitPjsua, CreateTransport, StartPjsua,
                        CreateTones, At, Startup, Shutdown
          <6> QED
            BY <1>0, <2>1, <6>1 DEF NothingServed
        <5>4. CASE AddAccount
          <6>1. main = "account" /\ UNCHANGED next /\ main' \in {"tones", "hangup_all"}
            BY <5>4 DEF AddAccount, At
          <6> QED
            BY <1>0, <2>1, <6>1 DEF NothingServed, Startup, Shutdown
        <5> QED
          BY <2>1, <2>5, <3>1, <5>1, <5>2, <5>3, <5>4
          DEF Main, HangupAll, RemoveTones, ReleasePool, StopWorker, Join, HangupAgain,
              DestroyPjsua, At, Shutdown
      <4> QED
        BY <2>1, <4>1
    <3>2. CASE HangupAll
      <4>1. main = "hangup_all" /\ pool # "released" /\ next \in Int
        BY <1>0, <3>2, SizeAssumption DEF HangupAll, Stages, LifeTypeOK
      <4>2. CASE next <= LastCall
        <5>1. HangupNext /\ c < next'
          BY <2>1, <3>2, <4>1, <4>2 DEF HangupAll
        <5>2. c = next \/ c < next
          BY <4>1, <5>1 DEF HangupNext
        <5>3. c = next \/ Done(c)
          BY <2>3, <4>1, <5>2 DEF Shutdown
        <5> QED
          BY <2>2, <4>1, <5>1, <5>3, RoundReaches
      <4>3. CASE ~(next <= LastCall)
        <5>1. c < next /\ UNCHANGED vars
          BY <3>2, <4>1, <4>3, SizeAssumption DEF HangupAll, LastCall
        <5> QED
          BY <2>3, <4>1, <5>1 DEF vars, slotVars, Alive, Shutdown
      <4> QED
        BY <4>2, <4>3
    <3>3. CASE HangupAgain
      <4>1. Done(c)
        BY <2>3, <3>3 DEF HangupAgain, Shutdown
      <4>2. CASE HangupNext
        BY <2>2, <4>1, <4>2, RoundKeeps
      <4>3. CASE UNCHANGED vars
        BY <4>1, <4>3 DEF vars, slotVars, Alive
      <4> QED
        BY <3>3, <4>2, <4>3 DEF HangupAgain
    <3>4. CASE RemoveTones \/ ReleasePool \/ StopWorker \/ Join \/ DestroyPjsua
      <4>1. Done(c)
        BY <2>3, <3>4
        DEF RemoveTones, ReleasePool, StopWorker, Join, DestroyPjsua, At, Shutdown
      <4>2. UNCHANGED <<inv, hanging>>
        BY <3>4
        DEF RemoveTones, ReleasePool, StopWorker, Join, DestroyPjsua, vars, slotVars
      <4> QED
        BY <4>1, <4>2 DEF Alive
    <3>5. CASE main \in Shutdown /\ ~(HangupAll \/ HangupAgain \/ RemoveTones \/ ReleasePool
                                      \/ StopWorker \/ Join \/ DestroyPjsua)
      BY <2>5, <3>5
      DEF Main, CreatePjsua, CreatePool, InitPjsua, CreateTransport, StartPjsua, AddAccount,
          CreateTones, AllocCells, FillCell, Quit, At, Shutdown
    <3> QED
      BY <3>1, <3>2, <3>3, <3>4, <3>5
  <2> QED
    BY <1>2, <2>4, <2>5 DEF LifeNext, Worker
<1> QED
  BY <1>1, <1>2

\* The hangup of every call in app_destroy, which takes no lock across its loop,
\* misses none that was there: when the tones and the cells are taken away, uas.c
\* has no call left to serve unless a new one came.
THEOREM HangupReaches == LifeSpec => []HangupReachesAll
<1>1. LifeInit => ReachInv
  BY StartInvInit DEF ReachInv, Reached, LifeInit, Shutdown
<1>2. ReachInv => HangupReachesAll
  BY DEF ReachInv, Reached, HangupReachesAll
<1> QED
  BY <1>1, <1>2, ReachNext, PTL DEF LifeSpec

-----------------------------------------------------------------------------
(* Calls that arrive while app_init fills the array *)

\* A cell the loop has not reached carries no call.
LoopAhead == main = "fill" => \A k \in Cells : k >= next => owner[k] = Junk

\* Until app_destroy begins the cells, the timers and the callbacks are as in Uas.
Undisturbed ==
  Garbage = {Junk} /\ main \notin Shutdown \cup {"exited"} /\ Live => TimerInv /\ LoopAhead

StopsAlive == main = "exited" => crashed = "no"

UndisturbedInv == StartInv /\ Undisturbed /\ StopsAlive /\ UndisturbedStart

\* Marking an unwritten cell free is seen by no call, no timer and no callback.
LEMMA FillKeeps ==
  ASSUME TimerInv, NEW k \in Cells, owner[k] = Junk, owner' = [owner EXCEPT ![k] = NoCall],
         UNCHANGED <<mode, entry, heap, inv, hanging, cur, ptr, pc, fired>>
  PROVE  CellsOwnLiveCalls' /\ TimersTrackCalls' /\ CallbackFindsItsCell'
<1>0. Typed /\ CellsOwnLiveCalls /\ TimersTrackCalls /\ CallbackFindsItsCell
  BY DEF TimerInv
<1>1. \A j \in Cells, c \in Calls : owner'[j] = c <=> owner[j] = c
  BY <1>0 DEF Typed
<1>2. \A j \in Cells : owner'[j] \in Calls <=> owner[j] \in Calls
  BY <1>0 DEF Typed
<1>3. \A j \in Cells : owner[j] \in Calls => owner'[j] = owner[j]
  BY <1>1
<1>4. CellsOwnLiveCalls'
  <2>1. \A i, j \in Cells : owner'[i] = owner'[j] /\ owner'[i] \in Calls => i = j
    BY <1>0, <1>2, <1>3 DEF CellsOwnLiveCalls
  <2>2. \A j \in Cells : owner'[j] \in Calls
                           => inv[owner'[j]] # "NULL" /\ ~hanging[owner'[j]]
    BY <1>0, <1>2, <1>3 DEF CellsOwnLiveCalls, Alive
  <2>3. pc \in {"trying", "claim"}
          => cur \in Calls /\ inv[cur] # "NULL" /\ ~hanging[cur] /\ \A j \in Cells : owner'[j] # cur
    BY <1>0, <1>1 DEF CellsOwnLiveCalls, Alive, Typed
  <2>4. \A c \in Calls : inv[c] # "NULL" /\ ~hanging[c]
          => (\E j \in Cells : owner'[j] = c) \/ (cur = c /\ pc \in {"trying", "claim"})
    BY <1>0, <1>1 DEF CellsOwnLiveCalls, Alive
  <2>5. \A c \in Calls : hanging[c] => inv[c] # "NULL"
    BY <1>0 DEF CellsOwnLiveCalls, Alive
  <2> QED
    BY <2>1, <2>2, <2>3, <2>4, <2>5 DEF CellsOwnLiveCalls, Alive
<1>5. TimersTrackCalls'
  <2>1. \A t \in TimerIds : heap[t] # NoEntry
          => Tracked(t) /\ owner'[heap[t][1]] = owner[heap[t][1]]
    BY <1>0, <1>3, AllTracked DEF Tracked
  <2> QED
    BY <2>1 DEF TimersTrackCalls, Tracked
<1>6. CallbackFindsItsCell'
  <2>1. cur \in Calls \cup {NoCall}
    BY <1>0 DEF Typed
  <2>2. pc \in {"not_found", "ringing"} => cur \in Calls /\ ptr \in Cells
    BY <1>0 DEF Typed
  <2>3. pc \in {"delay_init", "delay_schedule"} => ptr \in Cells
    BY <1>0 DEF Typed
  <2>4. pc \in {"delay_lookup", "timeout_lookup"} => fired[1] \in Cells
    BY <1>0 DEF Typed, Entries
  <2>5. \A j : Untimed(j)' <=> Untimed(j)
    BY DEF Untimed
  <2> QED
    BY <1>0, <1>3, <2>1, <2>2, <2>3, <2>4, <2>5 DEF CallbackFindsItsCell
<1> QED
  BY <1>4, <1>5, <1>6

\* What a step must leave alone to leave the three parts alone.
LEMMA StillKeeps ==
  ASSUME TimerInv, UNCHANGED <<owner, mode, entry, heap, inv, hanging, callback>>
  PROVE  CellsOwnLiveCalls' /\ TimersTrackCalls' /\ CallbackFindsItsCell'
<1>1. UNCHANGED <<pc, cur, ptr, fired>>
  BY DEF callback
<1> QED
  BY <1>1
  DEF TimerInv, CellsOwnLiveCalls, TimersTrackCalls, CallbackFindsItsCell, Untimed, Alive

LEMMA UndisturbedMain ==
  ASSUME UndisturbedInv, Live, Main, Garbage = {Junk},
         main' \notin Shutdown \cup {"exited"}
  PROVE  (Live' => TimerInv' /\ LoopAhead') /\ crashed' # "null_cell"
<1>0. /\ main \notin Shutdown \cup {"exited"} /\ main \in Startup \cup {"input"}
      /\ Typed /\ LifeTypeOK /\ (Live' => Typed') /\ crashed = "no"
  <2>1. LifeTypeOK /\ Typed
    BY DEF UndisturbedInv, StartInv, LifeInv
  <2>2. main \notin Shutdown \cup {"exited"}
    BY DEF Main, CreatePjsua, CreatePool, InitPjsua, CreateTransport, StartPjsua, AddAccount,
           CreateTones, AllocCells, FillCell, Quit, HangupAll, RemoveTones, ReleasePool,
           StopWorker, Join, HangupAgain, DestroyPjsua, At, Shutdown
  <2> QED
    BY <2>1, <2>2, MainTyped DEF Live, LifeTypeOK
<1>1. TimerInv /\ LoopAhead /\ NothingServed
  BY <1>0 DEF UndisturbedInv, Undisturbed, StartInv
<1>2. SUFFICES /\ Live' => CellsOwnLiveCalls' /\ TimersTrackCalls' /\ CallbackFindsItsCell'
               /\ Live' => LoopAhead'
               /\ crashed' # "null_cell"
  BY <1>0 DEF TimerInv
<1>3. CASE AllocCells
  <2>1. main = "alloc" /\ UNCHANGED <<mode, entry, heap, inv, hanging, callback>>
    BY <1>3 DEF AllocCells, At, slotVars
  <2>2. \A k \in Cells : owner[k] = Junk
    BY <1>1, <2>1 DEF NothingServed, Unserved, Startup
  <2>3. crashed' \in {"no", "assert"}
    BY <1>0, <1>3 DEF AllocCells
  <2>4. CASE owner' \in [Cells -> Garbage]
    <3>1. \A k \in Cells : owner'[k] = Junk
      BY <2>4
    <3>2. owner' = owner
      <4>1. owner = [k \in Cells |-> Junk]
        BY <1>0, <2>2 DEF Typed
      <4>2. owner' = [k \in Cells |-> Junk]
        BY <2>4, <3>1
      <4> QED
        BY <4>1, <4>2
    <3> QED
      BY <1>1, <2>1, <2>3, <3>1, <3>2, StillKeeps DEF LoopAhead
  <2>5. CASE UNCHANGED <<main, next, owner>>
    BY <1>1, <2>1, <2>3, <2>5, StillKeeps DEF LoopAhead
  <2> QED
    BY <1>3, <2>4, <2>5 DEF AllocCells
<1>4. CASE FillCell
  <2>1. /\ main = "fill" /\ UNCHANGED <<mode, entry, heap, inv, hanging, callback, crashed>>
    BY <1>4 DEF FillCell, slotVars
  <2>2. CASE next = NumCells
    BY <1>0, <1>1, <1>4, <2>1, <2>2, StillKeeps DEF FillCell, LoopAhead
  <2>3. CASE next # NumCells
    <3>1. next \in Cells /\ next \in Int
      BY <1>0, <2>3, NextInRange, SizeAssumption DEF LifeTypeOK
    <3>2. owner[next] = Junk
      BY <1>1, <2>1, <3>1 DEF LoopAhead
    <3>3. owner' = [owner EXCEPT ![next] = NoCall] /\ next' = next + 1 /\ main' = main
      BY <1>4, <2>3 DEF FillCell
    <3>4. CellsOwnLiveCalls' /\ TimersTrackCalls' /\ CallbackFindsItsCell'
      BY <1>1, <2>1, <3>1, <3>2, <3>3, FillKeeps DEF callback
    <3>5. LoopAhead'
      BY <1>0, <1>1, <2>1, <3>1, <3>3, SizeAssumption DEF LoopAhead, Typed
    <3> QED
      BY <1>0, <2>1, <3>4, <3>5
  <2> QED
    BY <2>2, <2>3
<1>5. CASE ~AllocCells /\ ~FillCell
  <2>1. ~HangupAll /\ ~HangupAgain /\ ~RemoveTones /\ ~ReleasePool
    BY <1>0 DEF HangupAll, HangupAgain, RemoveTones, ReleasePool, At, Shutdown
  <2>2. UNCHANGED <<owner, mode, entry, heap, inv, hanging, callback>>
        /\ crashed' \in {"no", "assert"}
    BY <1>0, <1>5, <2>1, MainSteps DEF vars, cellVars, slotVars, Untouched
  <2>3. main' # "fill"
    BY <1>5, <1>0
    DEF Main, CreatePjsua, CreatePool, InitPjsua, CreateTransport, StartPjsua, AddAccount,
        CreateTones, Quit, HangupAll, RemoveTones, ReleasePool, StopWorker, Join, HangupAgain,
        DestroyPjsua, At, Shutdown
  <2> QED
    BY <1>1, <2>2, <2>3, StillKeeps DEF LoopAhead
<1> QED
  BY <1>3, <1>4, <1>5

LEMMA UndisturbedNext ==
  ASSUME {100, 180} \cap Unsendable = {}
  PROVE  UndisturbedInv /\ [LifeNext]_<<allVars, late>> => UndisturbedInv'
<1> SUFFICES ASSUME UndisturbedInv, [LifeNext]_<<allVars, late>>
             PROVE  Undisturbed' /\ StopsAlive' /\ UndisturbedStart'
  BY StartInvNext DEF UndisturbedInv
<1>0. /\ StartInv /\ Undisturbed /\ StopsAlive /\ UndisturbedStart
      /\ LifeInv /\ Stages /\ StartInv'
  BY StartInvNext DEF UndisturbedInv, StartInv
<1>1. CASE UNCHANGED <<allVars, late>>
  <2>1. UNCHANGED vars /\ UNCHANGED <<main, next>>
    BY <1>1 DEF allVars, mainVars
  <2>2. TimerInv => TimerInv'
    BY <2>1, StutterTyped, StillKeeps DEF TimerInv, vars, cellVars, slotVars
  <2> QED
    BY <1>0, <2>1, <2>2
    DEF Undisturbed, StopsAlive, UndisturbedStart, LoopAhead, Live, vars, cellVars
<1>2. CASE Live /\ Worker /\ UNCHANGED mainVars
  <2>1. main # "exited" /\ UNCHANGED <<main, next>>
    BY <1>0, <1>2 DEF Worker, Polling, Stages, mainVars
  <2>2. ASSUME Garbage = {Junk}, main \notin Shutdown
        PROVE  (Live' => TimerInv' /\ LoopAhead') /\ crashed' # "null_cell"
    <3>1. TimerInv /\ LoopAhead
      BY <1>0, <1>2, <2>1, <2>2 DEF Undisturbed
    <3>2. CASE UseFreed \/ PlayerGone
      BY <3>2 DEF UseFreed, PlayerGone, Dies, Live
    <3>3. CASE Next
      <4>1. TimerInv'
        BY <3>1, <3>3, TimersNext
      <4>2. NoNullCell'
        BY <1>2, <3>1, <3>3, NullNext DEF NoNullCell, Live
      <4>3. LoopAhead'
        BY <2>1, <3>1, <3>3, JunkStays DEF LoopAhead, TimerInv
      <4> QED
        BY <4>1, <4>2, <4>3 DEF NoNullCell
    <3> QED
      BY <1>2, <3>2, <3>3, WorkerSteps
  <2> QED
    BY <2>1, <2>2 DEF Undisturbed, StopsAlive, UndisturbedStart
<1>3. CASE Live /\ Main
  <2>1. main' = "exited" => crashed' = "no"
    <3>1. ASSUME main' = "exited" PROVE UNCHANGED vars
      BY <1>3, <3>1
      DEF Main, CreatePjsua, CreatePool, InitPjsua, CreateTransport, StartPjsua, AddAccount,
          CreateTones, AllocCells, FillCell, Quit, HangupAll, RemoveTones, ReleasePool,
          StopWorker, Join, HangupAgain, DestroyPjsua, At
    <3> QED
      BY <1>3, <3>1 DEF Live, vars
  <2>2. Garbage = {Junk} /\ main' \notin Shutdown \cup {"exited"}
          => (Live' => TimerInv' /\ LoopAhead') /\ crashed' # "null_cell"
    BY <1>3, UndisturbedMain
  <2> QED
    BY <2>1, <2>2 DEF Undisturbed, StopsAlive, UndisturbedStart
<1> QED
  BY <1>1, <1>2, <1>3, StepOrStutter

\* The worker serves calls while app_init is still in the loop that marks the cells
\* free, and neither disturbs the other: no callback looks for its cell in vain, as
\* long as the 100 and the 180 go out and unwritten memory looks like no call id.
THEOREM StartUndisturbed ==
  ASSUME {100, 180} \cap Unsendable = {}
  PROVE  LifeSpec => []UndisturbedStart
<1>1. LifeInit => UndisturbedInv
  <2> SUFFICES ASSUME LifeInit PROVE UndisturbedInv
    OBVIOUS
  <2>1. StartInv /\ Typed
    BY StartInvInit DEF StartInv, LifeInv, LifeInit, NothingRuns, Live
  <2>2. CellsOwnLiveCalls /\ TimersTrackCalls /\ CallbackFindsItsCell
    BY DEF LifeInit, NothingRuns, CellsOwnLiveCalls, TimersTrackCalls, CallbackFindsItsCell,
           Alive
  <2>3. LoopAhead /\ StopsAlive /\ UndisturbedStart
    BY DEF LifeInit, NothingRuns, LoopAhead, StopsAlive, UndisturbedStart
  <2> QED
    BY <2>1, <2>2, <2>3 DEF UndisturbedInv, Undisturbed, TimerInv
<1>2. UndisturbedInv => UndisturbedStart
  BY DEF UndisturbedInv
<1> QED
  BY <1>1, <1>2, UndisturbedNext, PTL DEF LifeSpec
=============================================================================
