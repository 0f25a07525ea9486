--------------------------- MODULE UasContractProofs ---------------------------
(***************************************************************************)
(* The auto-answerer keeps its promise to the caller, for every number of  *)
(* cells, calls and timers, as long as the 100 of on_incoming_call goes    *)
(* out.                                                                    *)
(***************************************************************************)
EXTENDS UasContract, UasProofs

USE DEF Calls, Cells, NoCall, NoCell, NoEntry, Junk, RingModes

-----------------------------------------------------------------------------
(* What every step relies on *)

\* on_incoming_call has the call before it answers 180 or 404.
Arrives == {"trying", "claim", "not_found", "ringing"}

\* States of a call that has been answered.
Up == {"CONNECTING", "CONFIRMED"}

Tones(c) == {"NOT_SET", RingModeGet(number[c])}

\* A cell holds the ring mode of the number its call was addressed to.
ModesMatch == \A k \in Cells : owner[k] \in Calls => mode[k] = RingModeGet(number[owner[k]])

\* A port that is in use plays the tone of its number, one that is free plays none.
TonesMatch ==
  \A c \in Calls : tone[c] \in Tones(c) /\ (inv[c] = "NULL" => tone[c] = "NOT_SET")

\* A call is hung up, or its BYE sent, only after the 200.
ByesUp == \A c \in Calls : bye[c] => inv[c] \in Up
HangingsUp == \A c \in Calls : hanging[c] => inv[c] \in Up

\* A call waits unanswered exactly while on_incoming_call has it, and gets as far
\* as the 180 only with a tone.
ArrivalsWait ==
  /\ pc \in Arrives => inv[cur] = "INCOMING"
  /\ \A c \in Calls : inv[c] = "INCOMING" => pc \in Arrives /\ cur = c
  /\ pc = "ringing" => RingModeGet(number[cur]) # "NOT_SET"

Served == ModesMatch /\ TonesMatch /\ ByesUp /\ HangingsUp /\ ArrivalsWait

\* At the start there is no call.
LEMMA InitServed == Init => Served
BY DEF Init, CellsFilled, NothingRuns, Served, ModesMatch, TonesMatch, Tones, ByesUp,
       HangingsUp, ArrivalsWait, Arrives

-----------------------------------------------------------------------------
(* What a step does to a call *)

\* Call c is all that changes.
Sets(c, i, h, t) ==
  /\ inv' = [inv EXCEPT ![c] = i]
  /\ hanging' = [hanging EXCEPT ![c] = h]
  /\ tone' = [tone EXCEPT ![c] = t]
  /\ UNCHANGED number

\* Nothing a caller could notice.
Quiet ==
  /\ UNCHANGED <<hanging, tone, number>>
  /\ \A c \in Calls : inv'[c] = inv[c] \/ (inv[c] = "CONNECTING" /\ inv'[c] = "CONFIRMED")

Offered(c, n) ==
  /\ inv[c] = "NULL" /\ ~hanging[c]
  /\ inv' = [inv EXCEPT ![c] = "INCOMING"]
  /\ number' = [number EXCEPT ![c] = n]
  /\ UNCHANGED <<hanging, tone>>

Rung(c) ==
  /\ inv[c] = "INCOMING" /\ ~hanging[c] /\ RingModeGet(number[c]) # "NOT_SET"
  /\ Sets(c, "EARLY", FALSE, tone[c])

Answered(c) ==
  /\ inv[c] = "EARLY" /\ ~hanging[c]
  /\ \E t \in Tones(c) : Sets(c, "CONNECTING", FALSE, t)

Retuned(c) ==
  /\ inv[c] \in Up /\ ~hanging[c]
  /\ \E i \in Up, t \in Tones(c) : Sets(c, i, FALSE, t)

HungUp(c) ==
  /\ inv[c] \in Up /\ ~hanging[c]
  /\ \E i \in Up : Sets(c, i, TRUE, "NOT_SET")

Ended(c) == inv[c] # "NULL" /\ Sets(c, "NULL", FALSE, "NOT_SET")

\* What may happen to a call once it has arrived.
GoesOn ==
  \/ Quiet
  \/ \E c \in Calls : Rung(c) \/ Answered(c) \/ Retuned(c) \/ HungUp(c) \/ Ended(c)

Moves == GoesOn \/ \E c \in Calls, n \in Numbers : Offered(c, n)

\* No cell changes hands, except that one may be released.
CellsKept == \A k \in Cells : owner'[k] \in Calls => owner'[k] = owner[k] /\ mode'[k] = mode[k]

\* on_call_state releases a cell and claims none.
LEMMA OnCallStateKeeps ==
  ASSUME Typed, NEW c, NEW notFound, OnCallState(c, notFound)
  PROVE  CellsKept
<1>1. CASE CellOf(c) = NoCell
  BY <1>1 DEF OnCallState, CellsKept, cellVars
<1>2. CASE CellOf(c) # NoCell
  <2>1. PICK j : /\ owner' = [owner EXCEPT ![j] = NoCall]
                 /\ mode' = [mode EXCEPT ![j] = "NOT_SET"]
    BY <1>2 DEF OnCallState, Release
  <2> QED
    BY <2>1 DEF CellsKept, Typed
<1> QED
  BY <1>1, <1>2

\* A session that reaches DISCONNECTED is the end of its call.
LEMMA DisconnectEnds ==
  ASSUME Typed, ByesUp, NEW c \in Calls, inv[c] # "NULL", NEW notFound,
         Disconnect(c, notFound), UNCHANGED number
  PROVE  Ended(c) /\ CellsKept /\ ByesUp'
<1>1. Ended(c)
  BY DEF Disconnect, FreeSlot, Ended, Sets
<1>2. ByesUp'
  BY DEF Disconnect, FreeSlot, ByesUp, Typed
<1>3. CellsKept
  BY OnCallStateKeeps DEF Disconnect, CellsKept, cellVars
<1> QED
  BY <1>1, <1>2, <1>3

\* pjsua_call_hangup ends a call that rings and begins to end one that is up.
LEMMA HangupMoves ==
  ASSUME Typed, Served, NEW c, Hangup(c), UNCHANGED number
  PROVE  GoesOn /\ CellsKept /\ ByesUp'
<1>0. ByesUp
  BY DEF Served
<1>1. CASE c \notin Calls \/ ~Alive(c) \/ hanging[c]
  BY <1>0, <1>1 DEF Hangup, GoesOn, Quiet, CellsKept, ByesUp, cellVars
<1>2. CASE ~(c \notin Calls \/ ~Alive(c) \/ hanging[c])
  <2>0. c \in Calls /\ inv[c] # "NULL" /\ ~hanging[c]
    BY <1>2 DEF Alive
  <2>1. CellsKept
    BY <1>2, OnCallStateKeeps DEF Hangup
  <2>2. CASE inv[c] \in {"INCOMING", "EARLY"}
    BY <1>0, <1>2, <2>0, <2>1, <2>2, SMTT(30), ZenonT(60)
    DEF Hangup, FreeSlot, Ended, Sets, GoesOn, ByesUp, Typed
  <2>3. CASE inv[c] \notin {"INCOMING", "EARLY"}
    <3>1. inv[c] \in Up
      BY <2>0, <2>3 DEF Typed, InvStates, Up
    <3>2. /\ hanging' = [hanging EXCEPT ![c] = TRUE]
          /\ bye' = [bye EXCEPT ![c] = bye[c] \/ inv[c] = "CONFIRMED"]
          /\ tone' = [tone EXCEPT ![c] = "NOT_SET"]
          /\ inv' = inv
      BY <1>2, <2>3 DEF Hangup
    <3>3. inv' = [inv EXCEPT ![c] = inv[c]]
      BY <3>2 DEF Typed
    <3>4. HungUp(c)
      BY <2>0, <3>1, <3>2, <3>3 DEF HungUp, Sets
    <3>5. ByesUp'
      BY <1>0, <3>1, <3>2 DEF ByesUp, Typed
    <3> QED
      BY <2>0, <2>1, <3>4, <3>5 DEF GoesOn
  <2> QED
    BY <2>2, <2>3
<1> QED
  BY <1>1, <1>2

\* on_call_media_state with the call's cell: the tone is the one of its number.
LEMMA ConnectToneFits ==
  ASSUME Typed, Served, NEW c \in Calls, ConnectTone(c)
  PROVE  \E t \in Tones(c) : tone' = [tone EXCEPT ![c] = t]
<1>1. CASE CellOf(c) = NoCell
  <2>1. tone' = [tone EXCEPT ![c] = tone[c]]
    BY <1>1 DEF ConnectTone, Typed
  <2> QED
    BY <2>1 DEF Served, TonesMatch
<1>2. CASE CellOf(c) # NoCell
  <2>1. CellOf(c) \in Cells /\ owner[CellOf(c)] = c
    BY <1>2, CellOfCorrect DEF Typed
  <2>2. mode[CellOf(c)] = RingModeGet(number[c])
    BY <2>1 DEF Served, ModesMatch
  <2> QED
    BY <1>2, <2>2 DEF ConnectTone, Tones
<1> QED
  BY <1>1, <1>2

\* A media update changes the tone, hangs up, or passes unnoticed.
LEMMA MediaUpdateMoves ==
  ASSUME Typed, Served, NEW c \in Calls, inv[c] \in Up, ~hanging[c], NEW i \in Up,
         inv' = [inv EXCEPT ![c] = i], i = inv[c] \/ i = "CONFIRMED",
         MediaUpdate(c), UNCHANGED number
  PROVE  GoesOn /\ CellsKept /\ ByesUp'
<1>1. \A b \in BOOLEAN : bye' = [bye EXCEPT ![c] = b] => ByesUp'
  BY DEF Served, ByesUp, Typed
<1>2. bye' = bye => ByesUp'
  BY DEF Served, ByesUp, Typed
<1>3. CASE /\ ConnectTone(c) \/ (tone' = [tone EXCEPT ![c] = "NOT_SET"] /\ UNCHANGED crashed)
           /\ UNCHANGED <<cellVars, heap, hanging, bye>>
  <2>1. PICK t \in Tones(c) : tone' = [tone EXCEPT ![c] = t]
    BY <1>3, ConnectToneFits DEF Tones
  <2>2. hanging' = [hanging EXCEPT ![c] = FALSE]
    BY <1>3 DEF Typed
  <2>3. Retuned(c)
    BY <2>1, <2>2 DEF Retuned, Sets
  <2> QED
    BY <1>2, <1>3, <2>3 DEF GoesOn, CellsKept, cellVars
<1>4. CASE /\ OnCallState(c, FALSE)
           /\ hanging' = [hanging EXCEPT ![c] = TRUE]
           /\ bye'     = [bye EXCEPT ![c] = TRUE]
           /\ tone'    = [tone EXCEPT ![c] = "NOT_SET"]
  <2>1. HungUp(c)
    BY <1>4 DEF HungUp, Sets
  <2> QED
    BY <1>1, <1>4, <2>1, OnCallStateKeeps DEF GoesOn
<1>5. CASE bye' = [bye EXCEPT ![c] = TRUE] /\ UNCHANGED <<cellVars, heap, hanging, tone, crashed>>
  <2>1. Quiet
    BY <1>5 DEF Quiet, Typed, Up
  <2> QED
    BY <1>1, <1>5, <2>1 DEF GoesOn, CellsKept, cellVars
<1> QED
  BY <1>3, <1>4, <1>5 DEF MediaUpdate

-----------------------------------------------------------------------------
(* The steps *)

\* What a step does to the calls, and what it keeps of the rest.
StepServes == Moves /\ ByesUp' /\ ModesMatch' /\ ArrivalsWait'

\* A step that claims no cell keeps the modes.
LEMMA CellsKeptMatch ==
  ASSUME Served, CellsKept, UNCHANGED number
  PROVE  ModesMatch'
BY DEF Served, ModesMatch, CellsKept

\* When on_incoming_call is done no call waits unanswered.
LEMMA ArrivalOver ==
  ASSUME pc' \notin Arrives, \A c \in Calls : inv'[c] # "INCOMING"
  PROVE  ArrivalsWait'
BY DEF ArrivalsWait, Arrives

\* No step but the arrival of an INVITE makes a call wait.
LEMMA MovesArrive ==
  ASSUME Typed, GoesOn
  PROVE  \A c \in Calls : inv'[c] = "INCOMING" => inv[c] = "INCOMING"
<1> SUFFICES ASSUME NEW d \in Calls, inv'[d] = "INCOMING" PROVE inv[d] = "INCOMING"
  OBVIOUS
<1>1. CASE Quiet
  BY <1>1 DEF Quiet
<1>2. ASSUME NEW c \in Calls, NEW i \in {"EARLY", "CONNECTING", "CONFIRMED", "NULL"},
             inv' = [inv EXCEPT ![c] = i]
      PROVE  inv[d] = "INCOMING"
  BY <1>2 DEF Typed
<1> QED
  BY <1>1, <1>2 DEF GoesOn, Rung, Answered, Retuned, HungUp, Ended, Sets, Up

\* Steps outside on_incoming_call, and those that end it.
LEMMA LaterServes ==
  ASSUME Typed, Served, GoesOn, CellsKept, ByesUp', UNCHANGED number,
         pc' \notin Arrives, pc \in Arrives => inv'[cur] # "INCOMING"
  PROVE  StepServes
<1>1. \A c \in Calls : inv'[c] # "INCOMING"
  BY MovesArrive DEF Served, ArrivalsWait
<1> QED
  BY <1>1, ArrivalOver, CellsKeptMatch DEF StepServes, Moves

\* A step that a caller cannot notice.
LEMMA QuietServes ==
  ASSUME Typed, Served, UNCHANGED <<inv, hanging, bye, tone, number>>, CellsKept,
         pc' \notin Arrives, pc \notin Arrives
  PROVE  StepServes
<1>1. GoesOn /\ ByesUp'
  BY DEF GoesOn, Quiet, Served, ByesUp
<1> QED
  BY <1>1, LaterServes

\* An INVITE finds a slot nobody listens to, and no cell that carries its id.
LEMMA IncomingServes ==
  ASSUME Typed, CellsOwnLiveCalls, Served, NEW c \in Calls, NEW n \in Numbers, Incoming(c, n)
  PROVE  StepServes
<1>1. /\ inv[c] = "NULL" /\ inv' = [inv EXCEPT ![c] = "INCOMING"]
      /\ number' = [number EXCEPT ![c] = n]
      /\ pc = "idle" /\ pc' = "trying" /\ cur' = c
      /\ UNCHANGED <<owner, mode, hanging, bye, tone>>
  BY DEF Incoming, AllocCall, FreeSlots, cellVars
<1>2. \A k \in Cells : owner[k] # c
  BY <1>1 DEF CellsOwnLiveCalls, Alive
<1>3. ~hanging[c] /\ ~bye[c]
  BY <1>1 DEF Served, HangingsUp, ByesUp, Up
<1>4. Moves
  BY <1>1, <1>3 DEF Moves, Offered
<1>5. ByesUp'
  BY <1>1, <1>3 DEF Served, ByesUp, Typed
<1>6. ModesMatch'
  BY <1>1, <1>2 DEF Served, ModesMatch, Typed
<1>7. \A d \in Calls : inv[d] # "INCOMING"
  BY <1>1 DEF Served, ArrivalsWait, Arrives
<1>8. ArrivalsWait'
  BY <1>1, <1>7 DEF ArrivalsWait, Arrives, Typed
<1> QED
  BY <1>4, <1>5, <1>6, <1>8 DEF StepServes

\* on_incoming_call claims the cell and fills in the mode of the call's number.
LEMMA ClaimServes ==
  ASSUME Typed, FreeCellForNewCall, Served, ClaimCell
  PROVE  StepServes
<1>1. pc = "claim" /\ FreeCell # NoCell /\ cur \in Calls
  BY DEF ClaimCell, FreeCellForNewCall, Typed
<1>2. /\ owner' = [owner EXCEPT ![FreeCell] = cur]
      /\ mode' = [mode EXCEPT ![FreeCell] = RingModeGet(number[cur])]
      /\ pc' = IF RingModeGet(number[cur]) = "NOT_SET" THEN "not_found" ELSE "ringing"
      /\ UNCHANGED <<cur, inv, hanging, bye, tone, number>>
  BY <1>1 DEF ClaimCell, TakeCell
<1>3. Moves /\ ByesUp'
  BY <1>2 DEF Moves, GoesOn, Quiet, Served, ByesUp
<1>4. ModesMatch'
  BY <1>1, <1>2 DEF Served, ModesMatch, Typed
<1>5. ArrivalsWait'
  BY <1>1, <1>2 DEF Served, ArrivalsWait, Arrives
<1> QED
  BY <1>3, <1>4, <1>5 DEF StepServes

\* The other steps of on_incoming_call.
LEMMA ArrivalServes ==
  ASSUME Typed, Served, 100 \notin Unsendable,
         \/ AnswerTrying \/ AnswerNotFound \/ AnswerRinging \/ InitDelay \/ ScheduleDelay
  PROVE  StepServes
<1>0. ByesUp /\ HangingsUp
  BY DEF Served
<1>1. ASSUME AnswerTrying PROVE StepServes
  <2>1. /\ pc = "trying" /\ pc' = "claim"
        /\ UNCHANGED <<cur, owner, mode, inv, hanging, bye, tone, number>>
    BY <1>1 DEF AnswerTrying, Goto, cellVars
  <2> QED
    BY <2>1 DEF StepServes, Moves, GoesOn, Quiet, Served, ByesUp, ModesMatch, ArrivalsWait, Arrives
<1>2. ASSUME AnswerNotFound PROVE StepServes
  <2>1. pc = "not_found" /\ pc' = "idle" /\ UNCHANGED number
    BY <1>2 DEF AnswerNotFound, Return
  <2>2. cur \in Calls /\ inv[cur] = "INCOMING"
    BY <2>1 DEF Typed, Served, ArrivalsWait, Arrives
  <2>3. PICK notFound \in BOOLEAN : Disconnect(cur, notFound)
    BY <1>2, <2>2 DEF AnswerNotFound, Alive
  <2>4. Ended(cur) /\ CellsKept /\ ByesUp'
    BY <1>0, <2>1, <2>2, <2>3, DisconnectEnds
  <2>5. inv'[cur] = "NULL"
    BY <2>2, <2>4 DEF Ended, Sets, Typed
  <2> QED
    BY <2>1, <2>2, <2>4, <2>5, LaterServes DEF GoesOn, Arrives
<1>3. ASSUME AnswerRinging PROVE StepServes
  <2>1. pc = "ringing" /\ pc' = "delay_init" /\ UNCHANGED number
    BY <1>3 DEF AnswerRinging, Goto
  <2>2. /\ cur \in Calls /\ inv[cur] = "INCOMING" /\ RingModeGet(number[cur]) # "NOT_SET"
    BY <2>1 DEF Typed, Served, ArrivalsWait, Arrives
  <2>3. CASE Disconnect(cur, FALSE)
    <3>1. Ended(cur) /\ CellsKept /\ ByesUp'
      BY <1>0, <2>1, <2>2, <2>3, DisconnectEnds
    <3>2. inv'[cur] = "NULL"
      BY <2>2, <3>1 DEF Ended, Sets, Typed
    <3> QED
      BY <2>1, <2>2, <3>1, <3>2, LaterServes DEF GoesOn, Arrives
  <2>4. CASE ~Disconnect(cur, FALSE)
    <3>1. /\ inv' = [inv EXCEPT ![cur] = "EARLY"]
          /\ UNCHANGED <<owner, mode, hanging, bye, tone>>
      BY <1>3, <2>2, <2>4 DEF AnswerRinging, Alive, cellVars
    <3>2. ~hanging[cur] /\ ~bye[cur]
      BY <1>0, <2>2 DEF ByesUp, HangingsUp, Up
    <3>3. /\ hanging' = [hanging EXCEPT ![cur] = FALSE]
          /\ tone' = [tone EXCEPT ![cur] = tone[cur]]
      BY <3>1, <3>2 DEF Typed
    <3>4. Rung(cur) /\ inv'[cur] # "INCOMING"
      BY <2>1, <2>2, <3>1, <3>2, <3>3 DEF Rung, Sets, Typed
    <3>5. ByesUp'
      BY <1>0, <3>1, <3>2 DEF ByesUp, Typed
    <3> QED
      BY <2>1, <2>2, <3>1, <3>4, <3>5, LaterServes DEF GoesOn, Arrives, CellsKept
  <2> QED
    BY <2>3, <2>4
<1>4. ASSUME InitDelay PROVE StepServes
  BY <1>4, QuietServes DEF InitDelay, Goto, slotVars, CellsKept, Arrives
<1>5. ASSUME ScheduleDelay PROVE StepServes
  <2>1. pc = "delay_schedule" /\ pc' = "idle" /\ UNCHANGED number
    BY <1>5 DEF ScheduleDelay, Return
  <2>2. CASE Hangup(cur)
    BY <2>1, <2>2, HangupMoves, LaterServes DEF Arrives
  <2>3. CASE ~Hangup(cur)
    BY <1>5, <2>1, <2>3, QuietServes DEF ScheduleDelay, CellsKept, Arrives
  <2> QED
    BY <2>2, <2>3
<1> QED
  BY <1>1, <1>2, <1>3, <1>4, <1>5

\* The steps of the timer callbacks.
LEMMA TimerServes ==
  ASSUME Typed, Served,
         \/ DelayLookup \/ DelayAnswer \/ DelayHangup \/ InitTimeout \/ ScheduleTimeout
         \/ TimeoutLookup \/ TimeoutHangup \/ TimeoutDone
  PROVE  StepServes
<1>0. ByesUp /\ HangingsUp
  BY DEF Served
<1>1. ASSUME DelayLookup \/ TimeoutLookup \/ InitTimeout \/ TimeoutDone PROVE StepServes
  BY <1>1, QuietServes
  DEF DelayLookup, TimeoutLookup, Lookup, InitTimeout, TimeoutDone, Goto, Return,
      cellVars, slotVars, CellsKept, Arrives
<1>2. ASSUME DelayAnswer PROVE StepServes
  <2>1. pc = "answer" /\ pc' \in {"answered", "answer_failed"} /\ UNCHANGED number
    BY <1>2 DEF DelayAnswer, AnswerOk, AnswerFails, Goto
  <2>2. CASE AnswerOk
    <3>1. cur \in Calls /\ inv[cur] = "EARLY" /\ ~hanging[cur] /\ ~bye[cur]
      BY <1>0, <2>1, <2>2 DEF AnswerOk, Waiting, Served, ArrivalsWait, Arrives, ByesUp,
                              HangingsUp, Up
    <3>2. /\ inv' = [inv EXCEPT ![cur] = "CONNECTING"]
          /\ UNCHANGED <<owner, mode, hanging, bye>>
          /\ ConnectTone(cur) \/ UNCHANGED tone
      BY <2>2 DEF AnswerOk, cellVars
    <3>3. PICK t \in Tones(cur) : tone' = [tone EXCEPT ![cur] = t]
      <4>1. CASE UNCHANGED tone
        <5>1. tone' = [tone EXCEPT ![cur] = tone[cur]]
          BY <4>1 DEF Typed
        <5> QED
          BY <3>1, <5>1 DEF Served, TonesMatch
      <4> QED
        BY <3>1, <3>2, <4>1, ConnectToneFits
    <3>4. hanging' = [hanging EXCEPT ![cur] = FALSE]
      BY <3>1, <3>2 DEF Typed
    <3>5. Answered(cur)
      BY <2>1, <3>1, <3>2, <3>3, <3>4 DEF Answered, Sets
    <3>6. ByesUp'
      BY <1>0, <3>1, <3>2 DEF ByesUp, Typed
    <3> QED
      BY <2>1, <3>1, <3>2, <3>5, <3>6, LaterServes DEF GoesOn, Arrives, CellsKept
  <2>3. CASE AnswerFails
    <3>1. CASE Waiting(cur)
      <4>1. cur \in Calls /\ inv[cur] # "NULL" /\ Disconnect(cur, FALSE)
        BY <2>3, <3>1 DEF AnswerFails, Waiting
      <4>2. Ended(cur) /\ CellsKept /\ ByesUp'
        BY <1>0, <2>1, <4>1, DisconnectEnds
      <4> QED
        BY <2>1, <4>1, <4>2, LaterServes DEF GoesOn, Arrives
    <3>2. CASE ~Waiting(cur)
      BY <2>1, <2>3, <3>2, QuietServes DEF AnswerFails, CellsKept, Arrives, cellVars
    <3> QED
      BY <3>1, <3>2
  <2> QED
    BY <1>2, <2>2, <2>3 DEF DelayAnswer
<1>3. ASSUME DelayHangup \/ ScheduleTimeout \/ TimeoutHangup PROVE StepServes
  <2>1. pc \notin Arrives /\ pc' \notin Arrives /\ UNCHANGED number
    BY <1>3 DEF DelayHangup, ScheduleTimeout, TimeoutHangup, Return, Goto, Arrives
  <2>2. CASE Hangup(cur)
    BY <2>1, <2>2, HangupMoves, LaterServes
  <2>3. CASE ~Hangup(cur)
    <3>1. CellsKept /\ UNCHANGED <<inv, hanging, bye, tone>>
      BY <1>3, <2>3 DEF DelayHangup, ScheduleTimeout, TimeoutHangup, CellsKept, cellVars
    <3> QED
      BY <2>1, <3>1, QuietServes
  <2> QED
    BY <2>2, <2>3
<1> QED
  BY <1>1, <1>2, <1>3

\* What the timer heap, the caller and the transaction layer do.
LEMMA EventServes ==
  ASSUME Typed, Served,
         (\E t \in TimerIds : Fire(t)) \/ \E c \in Calls : CallEvent(c)
  PROVE  StepServes
<1>0. ByesUp /\ HangingsUp
  BY DEF Served
<1>1. ASSUME NEW t \in TimerIds, Fire(t) PROVE StepServes
  <2>1. pc = "idle" /\ pc' \notin Arrives /\ UNCHANGED <<owner, mode, slotVars>>
    BY <1>1 DEF Fire, callback, Arrives
  <2> QED
    BY <2>1, QuietServes DEF CellsKept, slotVars, Arrives
<1>2. ASSUME NEW c \in Calls, CallEvent(c) PROVE StepServes
  <2>1. pc \notin Arrives /\ pc' \notin Arrives /\ UNCHANGED number
    BY <1>2 DEF CallEvent, RemoteEnds, Ack, NoAck, ByeDone, Reoffer, callback, Arrives
  <2> SUFFICES GoesOn /\ CellsKept /\ ByesUp'
    BY <2>1, LaterServes
  <2>2. CASE RemoteEnds(c) \/ ByeDone(c)
    <3>1. inv[c] # "NULL" /\ Disconnect(c, FALSE)
      BY <1>0, <2>2 DEF RemoteEnds, ByeDone, Alive, ByesUp, Up
    <3> QED
      BY <1>0, <2>1, <3>1, DisconnectEnds DEF GoesOn
  <2>3. CASE Ack(c)
    <3>1. inv[c] = "CONNECTING" /\ inv' = [inv EXCEPT ![c] = "CONFIRMED"]
      BY <2>3 DEF Ack
    <3>2. CASE ~hanging[c] /\ MediaUpdate(c)
      BY <2>1, <3>1, <3>2, MediaUpdateMoves DEF Up
    <3>3. CASE bye' = [bye EXCEPT ![c] = hanging[c]] /\ UNCHANGED <<owner, mode, hanging, tone>>
      <4>1. Quiet
        BY <2>1, <3>1, <3>3 DEF Quiet, Typed
      <4>2. ByesUp'
        BY <1>0, <3>1, <3>3 DEF ByesUp, Up, Typed
      <4> QED
        BY <3>3, <4>1, <4>2 DEF GoesOn, CellsKept
    <3> QED
      BY <2>3, <3>2, <3>3 DEF Ack, cellVars
  <2>4. CASE NoAck(c)
    <3>1. /\ inv[c] = "CONNECTING" /\ bye' = [bye EXCEPT ![c] = TRUE]
          /\ UNCHANGED <<owner, mode, inv, hanging, tone>>
      BY <2>4 DEF NoAck, cellVars
    <3>2. ByesUp'
      BY <1>0, <3>1 DEF ByesUp, Up, Typed
    <3> QED
      BY <2>1, <3>1, <3>2 DEF GoesOn, Quiet, CellsKept
  <2>5. CASE Reoffer(c)
    <3>1. inv[c] = "CONFIRMED" /\ inv' = [inv EXCEPT ![c] = "CONFIRMED"]
      BY <2>5 DEF Reoffer, Typed
    <3> QED
      BY <2>1, <2>5, <3>1, MediaUpdateMoves DEF Reoffer, Up
  <2> QED
    BY <1>2, <2>2, <2>3, <2>4, <2>5 DEF CallEvent
<1> QED
  BY <1>1, <1>2

\* Every step does one thing to one call, or nothing a caller could notice.
LEMMA NextServes ==
  ASSUME 100 \notin Unsendable, Typed, CellsOwnLiveCalls, FreeCellForNewCall, Served, Next
  PROVE  StepServes
<1>1. CASE Step
  BY <1>1, ClaimServes, ArrivalServes, TimerServes DEF Step
<1>2. CASE \E c \in Calls, n \in Numbers : Incoming(c, n)
  BY <1>2, IncomingServes
<1>3. CASE (\E t \in TimerIds : Fire(t)) \/ \E c \in Calls : CallEvent(c)
  BY <1>3, EventServes
<1> QED
  BY <1>1, <1>2, <1>3 DEF Next

-----------------------------------------------------------------------------
(* The right tone *)

\* What a step does to the calls keeps the tones right and the hangups late.
LEMMA MovesServe ==
  ASSUME Typed, Served, Moves
  PROVE  TonesMatch' /\ HangingsUp'
<1>0. TonesMatch /\ HangingsUp
  BY DEF Served
<1> SUFFICES ASSUME NEW d \in Calls
             PROVE  /\ tone'[d] \in {"NOT_SET", RingModeGet(number'[d])}
                    /\ inv'[d] = "NULL" => tone'[d] = "NOT_SET"
                    /\ hanging'[d] => inv'[d] \in Up
  BY DEF TonesMatch, HangingsUp, Tones
<1>1. CASE Quiet
  BY <1>0, <1>1 DEF Quiet, TonesMatch, HangingsUp, Tones, Up
<1>2. ASSUME NEW c \in Calls, NEW n \in Numbers, Offered(c, n)
      PROVE  /\ tone'[d] \in {"NOT_SET", RingModeGet(number'[d])}
             /\ inv'[d] = "NULL" => tone'[d] = "NOT_SET"
             /\ hanging'[d] => inv'[d] \in Up
  BY <1>0, <1>2 DEF Offered, TonesMatch, HangingsUp, Tones, Up, Typed
<1>3. ASSUME NEW c \in Calls, NEW i, NEW h \in BOOLEAN, NEW t \in Tones(c), Sets(c, i, h, t),
             i = "NULL" => t = "NOT_SET", h => i \in Up
      PROVE  /\ tone'[d] \in {"NOT_SET", RingModeGet(number'[d])}
             /\ inv'[d] = "NULL" => tone'[d] = "NOT_SET"
             /\ hanging'[d] => inv'[d] \in Up
  <2>1. CASE d = c
    BY <1>3, <2>1 DEF Sets, Tones, Typed
  <2>2. CASE d # c
    BY <1>0, <1>3, <2>2 DEF Sets, TonesMatch, HangingsUp, Tones, Typed
  <2> QED
    BY <2>1, <2>2
<1>4. \A c \in Calls : "NOT_SET" \in Tones(c) /\ tone[c] \in Tones(c)
  BY <1>0 DEF TonesMatch, Tones
<1> QED
  BY <1>1, <1>2, <1>3, <1>4
  DEF Moves, GoesOn, Rung, Answered, Retuned, HungUp, Ended, Up

\* Served is inductive once cells and calls match.
LEMMA ServedNext ==
  ASSUME 100 \notin Unsendable
  PROVE  Typed /\ CellsOwnLiveCalls /\ FreeCellForNewCall /\ Served /\ [Next]_vars => Served'
<1>1. ASSUME Typed, CellsOwnLiveCalls, FreeCellForNewCall, Served, Next PROVE Served'
  BY <1>1, NextServes, MovesServe DEF StepServes, Served
<1>2. ASSUME Served, UNCHANGED vars PROVE Served'
  BY <1>2
  DEF Served, ModesMatch, TonesMatch, Tones, ByesUp, HangingsUp, ArrivalsWait, vars,
      cellVars, slotVars, callback
<1> QED
  BY <1>1, <1>2

\* A call waits unanswered only while on_incoming_call has it, is hung up only
\* after the 200, and the cell found by its id holds the mode of its number.
LEMMA ServedInvariant ==
  ASSUME 100 \notin Unsendable
  PROVE  Spec => []Served
<1>1. Spec => []CellsOwnLiveCalls /\ []FreeCellForNewCall
  BY CellsMatchCalls, NoCallRefusedBusy
<1> QED
  BY <1>1, InitServed, ServedNext, TypesHold, PTL DEF Spec

\* on_call_media_state connects each caller to the tone of the number he dialled,
\* although it finds the ring mode through the call's cell, and cells and slots are
\* used again.
THEOREM ToneMatches ==
  ASSUME 100 \notin Unsendable
  PROVE  Spec => []ToneMatchesNumber
<1>1. Served => ToneMatchesNumber
  BY DEF Served, TonesMatch, Tones, ToneMatchesNumber
<1>2. Spec => []Served
  BY ServedInvariant
<1> QED
  BY <1>1, <1>2, PTL

-----------------------------------------------------------------------------
(* The promise to the caller *)

\* What a caller sees of the state of his call.
Seen(i, h) ==
  IF h THEN "ending"
  ELSE CASE i = "NULL"     -> "free"
         [] i = "INCOMING" -> "offered"
         [] i = "EARLY"    -> "ringing"
         [] OTHER          -> "talking"

\* What the cases of Seen come to.
LEMMA SeenValues ==
  /\ Seen("NULL", FALSE) = "free"
  /\ Seen("INCOMING", FALSE) = "offered"
  /\ Seen("EARLY", FALSE) = "ringing"
  /\ \A i \in Up : Seen(i, FALSE) = "talking" /\ Seen(i, TRUE) = "ending"
  /\ \A i \in InvStates \ {"NULL"}, h \in BOOLEAN : Seen(i, h) # "free"
BY DEF Seen, Up, InvStates

\* The variables of AutoAnswer, and its table of tones, as UasContract maps them.
Phases == [c \in Calls |-> Phase(c)]
Heard  == [c \in Calls |-> IF Live THEN tone[c] ELSE "NOT_SET"]
Plays  == [n \in Numbers \cup {"other"} |-> RingModeGet(n)]

\* While the process lives a call's phase is read off its session, before a step ...
LEMMA PhaseSeen ==
  ASSUME Live
  PROVE  /\ Phases = [c \in Calls |-> Seen(inv[c], hanging[c])]
         /\ Heard = [c \in Calls |-> tone[c]]
<1>1. \A c \in Calls : Phase(c) = Seen(inv[c], hanging[c])
  BY DEF Phase, Seen
<1> QED
  BY <1>1 DEF Phases, Heard

\* ... and after it.
LEMMA PhaseSeenNext ==
  ASSUME Live'
  PROVE  /\ Phases' = [c \in Calls |-> Seen(inv'[c], hanging'[c])]
         /\ Heard' = [c \in Calls |-> tone'[c]]
<1>1. \A c \in Calls : Phase(c)' = Seen(inv'[c], hanging'[c])
  BY DEF Phase, Seen
<1> QED
  BY <1>1 DEF Phases, Heard

\* One call changes, and with it only its phase and its tone.
LEMMA SetsSeen ==
  ASSUME Typed, Live, Live', NEW c \in Calls, NEW i, NEW h, NEW t, Sets(c, i, h, t)
  PROVE  /\ Phases[c] = Seen(inv[c], hanging[c])
         /\ Phases' = [Phases EXCEPT ![c] = Seen(i, h)]
         /\ Heard' = [Heard EXCEPT ![c] = t]
         /\ number' = number
<1>1. /\ Phases = [d \in Calls |-> Seen(inv[d], hanging[d])]
      /\ Phases' = [d \in Calls |-> Seen(inv'[d], hanging'[d])]
      /\ Heard = [d \in Calls |-> tone[d]] /\ Heard' = [d \in Calls |-> tone'[d]]
  BY PhaseSeen, PhaseSeenNext
<1>2. /\ inv'[c] = i /\ hanging'[c] = h /\ tone'[c] = t
      /\ \A d \in Calls : d # c => inv'[d] = inv[d] /\ hanging'[d] = hanging[d] /\ tone'[d] = tone[d]
      /\ number' = number
  BY DEF Sets, Typed
<1> QED
  BY <1>1, <1>2

\* The tone of a number in AutoAnswer is that of ring_mode_get.
LEMMA Choices ==
  ASSUME Typed, NEW c \in Calls
  PROVE  Contract!Choice(c) = Tones(c) /\ Plays[number[c]] = RingModeGet(number[c])
BY DEF Contract!Choice, Tones, Typed, Plays

\* A step of the program that goes on is a step the contract allows.
LEMMA MovesPromised ==
  ASSUME Typed, Typed', Served, Live, Live', Moves
  PROVE  [Contract!Next]_Contract!vars
<1> SUFFICES Contract!Next \/ UNCHANGED <<Phases, number, Heard>>
  BY DEF Contract!vars, Phases, Heard
<1>1. CASE Quiet
  <2>1. \A c \in Calls : Seen(inv'[c], hanging'[c]) = Seen(inv[c], hanging[c])
    BY <1>1 DEF Quiet, Seen
  <2>2. Phases' = Phases /\ Heard' = Heard
    BY <1>1, <2>1, PhaseSeen, PhaseSeenNext DEF Quiet
  <2> QED
    BY <1>1, <2>2 DEF Quiet
<1>2. ASSUME NEW c \in Calls, NEW n \in Numbers, Offered(c, n) PROVE Contract!Next
  <2>1. number' = [number EXCEPT ![c] = n] /\ UNCHANGED tone
    BY <1>2 DEF Offered
  <2>2. /\ inv[c] = "NULL" /\ ~hanging[c] /\ inv'[c] = "INCOMING" /\ hanging' = hanging
        /\ \A d \in Calls : d # c => inv'[d] = inv[d]
    BY <1>2 DEF Offered, Typed
  <2>3. Phases[c] = "free" /\ Phases' = [Phases EXCEPT ![c] = "offered"]
    BY <2>2, PhaseSeen, PhaseSeenNext DEF Seen
  <2>4. Heard' = Heard
    BY <2>1, PhaseSeen, PhaseSeenNext
  <2>5. Contract!Offer(c, n)
    BY <2>1, <2>3, <2>4 DEF Contract!Offer, Contract!Move, Phases, Heard
  <2> QED
    BY <2>5 DEF Contract!Next
<1>3. ASSUME NEW c \in Calls, Rung(c) PROVE Contract!Next
  <2>1. /\ inv[c] = "INCOMING" /\ ~hanging[c] /\ RingModeGet(number[c]) # "NOT_SET"
        /\ Sets(c, "EARLY", FALSE, tone[c])
    BY <1>3 DEF Rung
  <2>2. /\ Phases[c] = Seen(inv[c], hanging[c])
        /\ Phases' = [Phases EXCEPT ![c] = Seen("EARLY", FALSE)]
        /\ Heard' = [Heard EXCEPT ![c] = tone[c]] /\ number' = number
    BY <2>1, SetsSeen
  <2>3. Phases[c] = "offered" /\ Phases' = [Phases EXCEPT ![c] = "ringing"]
    BY <2>1, <2>2, SeenValues DEF Typed
  <2>4. Heard' = Heard
    BY <2>2, PhaseSeen
  <2>5. Contract!Ring(c)
    BY <2>1, <2>2, <2>3, <2>4, Choices DEF Contract!Ring, Contract!Move, Phases, Heard, Plays
  <2> QED
    BY <2>5 DEF Contract!Next
<1>4. ASSUME NEW c \in Calls, Answered(c) PROVE Contract!Next
  <2>1. PICK t \in Tones(c) : Sets(c, "CONNECTING", FALSE, t)
    BY <1>4 DEF Answered, Tones
  <2>2. /\ Phases[c] = Seen(inv[c], hanging[c])
        /\ Phases' = [Phases EXCEPT ![c] = Seen("CONNECTING", FALSE)]
        /\ Heard' = [Heard EXCEPT ![c] = t] /\ number' = number
    BY <2>1, SetsSeen
  <2>3. Phases[c] = "ringing" /\ Phases' = [Phases EXCEPT ![c] = "talking"]
    BY <1>4, <2>2, SeenValues, SMTT(30), ZenonT(60) DEF Typed, Answered, Up
  <2>4. t \in Contract!Choice(c)
    BY <2>1, Choices
  <2>5. Contract!Answer(c)
    BY <2>2, <2>3, <2>4 DEF Contract!Answer, Contract!Move, Contract!Hear, Phases, Heard
  <2> QED
    BY <2>5 DEF Contract!Next
<1>5. ASSUME NEW c \in Calls, Retuned(c) PROVE Contract!Next
  <2>1. PICK i \in Up, t \in Tones(c) : Sets(c, i, FALSE, t)
    BY <1>5 DEF Retuned, Tones
  <2>2. /\ Phases[c] = Seen(inv[c], hanging[c])
        /\ Phases' = [Phases EXCEPT ![c] = Seen(i, FALSE)]
        /\ Heard' = [Heard EXCEPT ![c] = t] /\ number' = number
    BY <2>1, SetsSeen
  <2>3. Phases[c] = "talking" /\ Phases' = [Phases EXCEPT ![c] = "talking"]
    BY <1>5, <2>2, SeenValues, SMTT(30), ZenonT(60) DEF Typed, Retuned
  <2>4. Phases' = Phases
    BY <2>3 DEF Phases
  <2>5. t \in Contract!Choice(c)
    BY <2>1, Choices
  <2>6. Contract!Retune(c)
    BY <2>2, <2>3, <2>4, <2>5 DEF Contract!Retune, Contract!Hear, Phases, Heard
  <2> QED
    BY <2>6 DEF Contract!Next
<1>6. ASSUME NEW c \in Calls, HungUp(c) PROVE Contract!Next
  <2>1. PICK i \in Up : Sets(c, i, TRUE, "NOT_SET")
    BY <1>6 DEF HungUp
  <2>2. /\ Phases[c] = Seen(inv[c], hanging[c])
        /\ Phases' = [Phases EXCEPT ![c] = Seen(i, TRUE)]
        /\ Heard' = [Heard EXCEPT ![c] = "NOT_SET"] /\ number' = number
    BY <2>1, SetsSeen
  <2>3. Phases[c] = "talking" /\ Phases' = [Phases EXCEPT ![c] = "ending"]
    BY <1>6, <2>2, SeenValues, SMTT(30), ZenonT(60) DEF Typed, HungUp
  <2>4. Contract!HangUp(c)
    BY <2>2, <2>3 DEF Contract!HangUp, Contract!Move, Contract!Hear, Phases, Heard
  <2> QED
    BY <2>4 DEF Contract!Next
<1>7. ASSUME NEW c \in Calls, Ended(c) PROVE Contract!Next
  <2>1. inv[c] # "NULL" /\ Sets(c, "NULL", FALSE, "NOT_SET")
    BY <1>7 DEF Ended
  <2>2. /\ Phases[c] = Seen(inv[c], hanging[c])
        /\ Phases' = [Phases EXCEPT ![c] = Seen("NULL", FALSE)]
        /\ Heard' = [Heard EXCEPT ![c] = "NOT_SET"] /\ number' = number
    BY <2>1, SetsSeen
  <2>3. inv[c] \in InvStates \ {"NULL"} /\ hanging[c] \in BOOLEAN
    BY <2>1 DEF Typed
  <2>4. Phases[c] # "free"
    BY <2>2, <2>3, SeenValues
  <2>5. Phases' = [Phases EXCEPT ![c] = "free"]
    BY <2>2, SeenValues
  <2>6. Contract!End(c)
    BY <2>2, <2>4, <2>5 DEF Contract!End, Contract!Hear, Phases, Heard
  <2> QED
    BY <2>6 DEF Contract!Next
<1> QED
  BY <1>1, <1>2, <1>3, <1>4, <1>5, <1>6, <1>7 DEF Moves, GoesOn

\* Before the first call every line is free and silent.
LEMMA InitPromised == Init => Contract!Init
<1> SUFFICES ASSUME Init PROVE Contract!Init
  OBVIOUS
<1>1. Live /\ inv = [c \in Calls |-> "NULL"] /\ hanging = [c \in Calls |-> FALSE]
      /\ tone = [c \in Calls |-> "NOT_SET"] /\ number = [c \in Calls |-> "other"]
  BY DEF Init, NothingRuns, Live
<1>2. Phases = [c \in Calls |-> "free"] /\ Heard = [c \in Calls |-> "NOT_SET"]
  BY <1>1, PhaseSeen DEF Seen
<1> QED
  BY <1>1, <1>2 DEF Contract!Init, Phases, Heard

\* A step in which the process dies takes every call with it.
LEMMA DeathPromised ==
  ASSUME Next, ~Live', UNCHANGED number
  PROVE  Contract!Next
<1>1. \A c \in Calls : Phase(c)' = "free"
  BY DEF Phase
<1>2. Phases' = [c \in Calls |-> "free"] /\ Heard' = [c \in Calls |-> "NOT_SET"]
  BY <1>1 DEF Phases, Heard
<1>3. Contract!Die
  BY <1>2 DEF Contract!Die, Phases, Heard
<1> QED
  BY <1>3 DEF Contract!Next

\* Every step is promised, or cannot be noticed.
LEMMA StepPromised ==
  ASSUME Typed, Typed', CellsOwnLiveCalls, FreeCellForNewCall, Served,
         100 \notin Unsendable, [Next]_vars
  PROVE  [Contract!Next]_Contract!vars
<1>1. CASE Next /\ Live'
  <2>1. Moves /\ Live
    BY <1>1, NextServes DEF StepServes, Next
  <2> QED
    BY <1>1, <2>1, MovesPromised
<1>2. CASE Next /\ ~Live'
  <2>1. UNCHANGED number
    BY <1>2
    DEF Next, Live, Incoming, Step, Fire, CallEvent, AnswerTrying, ClaimCell, AnswerNotFound,
        AnswerRinging, InitDelay, ScheduleDelay, DelayLookup, TimeoutLookup, Lookup,
        DelayAnswer, DelayHangup, InitTimeout, ScheduleTimeout, TimeoutHangup, TimeoutDone,
        RemoteEnds, Ack, NoAck, ByeDone, Reoffer, slotVars
  <2> QED
    BY <1>2, <2>1, DeathPromised
<1>3. CASE UNCHANGED vars
  <2>1. UNCHANGED <<inv, hanging, tone, number, crashed>>
    BY <1>3 DEF vars, slotVars
  <2>2. \A c \in Calls : Phase(c)' = Phase(c)
    BY <2>1 DEF Phase, Live
  <2>3. Phases' = Phases /\ Heard' = Heard
    BY <2>1, <2>2 DEF Phases, Heard, Live
  <2> QED
    BY <2>1, <2>3 DEF Contract!vars, Phases, Heard
<1> QED
  BY <1>1, <1>2, <1>3

\* A call to a number with a tone rings, is then answered and hears that tone and no
\* other; it is hung up only after that; any other is refused without ringing.
THEOREM KeepsPromise ==
  ASSUME 100 \notin Unsendable
  PROVE  Spec => ImplementsContract
<1>1. Spec => []CellsOwnLiveCalls /\ []FreeCellForNewCall
  BY CellsMatchCalls, NoCallRefusedBusy
<1>2. Spec => []Served
  BY ServedInvariant
<1>3. Typed /\ Typed' /\ CellsOwnLiveCalls /\ FreeCellForNewCall /\ Served /\ [Next]_vars
        => [Contract!Next]_Contract!vars
  BY StepPromised
<1> QED
  BY <1>1, <1>2, <1>3, InitPromised, TypesHold, PTL
  DEF Spec, ImplementsContract, Contract!Spec
=============================================================================
