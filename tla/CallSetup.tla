------------------------------ MODULE CallSetup ------------------------------
(***************************************************************************)
(* How pjproject tells the calls apart: an INVITE that may arrive again    *)
(* and again, its one transaction at a time (sip_transaction.c), the       *)
(* dialogs made for it (sip_ua_layer.c, sip_dialog.c), their sessions      *)
(* (sip_inv.c) and the few call slots they take in turn (pjsua_call.c).    *)
(*                                                                         *)
(* Of one call only what the others can notice is kept; module             *)
(* InviteServer has the rest.  A request may come whenever its caller can  *)
(* have sent it, and again at any time: the network repeats and delays.    *)
(* What changes nothing, because it is absorbed or answered 481, 486 or    *)
(* 500 in passing, is not a step.                                          *)
(***************************************************************************)
EXTENDS Integers, Sequences, FiniteSetsExt

CONSTANTS
  Callers,    \* each with one INVITE, told by its branch
  NumSlots,   \* ua_cfg.max_calls
  MaxDialogs  \* bounds the dialogs ever made

ASSUME SetupAssumption ==
  NumSlots \in Nat \ {0} /\ MaxDialogs \in Nat /\ IsFiniteSet(Callers)

VARIABLES
  tsx,          \* the transaction table: what there is for the INVITE of a caller
  dlgs,         \* all dialogs so far, with their sessions
  calls,        \* pjsua_var.calls: the dialog whose session is in call->inv
  next_call_id,
  call_cnt

vars == <<tsx, dlgs, calls, next_call_id, call_cnt>>

Slots == 0..(NumSlots - 1)
NoSlot == -1
NoDialog == 0
NoTsx == [state |-> "none", dlg |-> NoDialog, ok |-> FALSE]

\* ok: its final answer is a 200, and has no ACK yet.
Tsx(state, d) == [state |-> state, dlg |-> d, ok |-> FALSE]

Dialog(c, ses, slot) == [
  caller |-> c,
  slot |-> slot,          \* mod_data, which stays when the slot is given on
  ses |-> ses,            \* the state of the session
  hanging |-> FALSE,      \* pjsua_call.hanging_up; its BYE may wait for the ACK
  bye |-> FALSE]          \* a BYE of ours is under way

Dialogs == 1..Len(dlgs)
Caller(d) == dlgs[d].caller
Live(d) == dlgs[d].ses # "DISCONNECTED"

\* The transaction of its INVITE moves on.
SetTsx(c, state) == tsx' = [tsx EXCEPT ![c] = Tsx(state, @.dlg)]

-----------------------------------------------------------------------------
(* Where a request goes *)

\* mod_tsx_layer_on_rx_request: anything but a terminated transaction keeps its INVITE.
Absorbed(c) == tsx[c].state \in {"PROCEEDING", "COMPLETED", "CONFIRMED"}

\* mod_tsx_layer_register_tsx: a terminated one still has the key.
KeyTaken(c) == tsx[c].state # "none"

FreeSlots == {s \in Slots : calls[s] = NoDialog}
Wrapped == IF next_call_id >= NumSlots THEN 0 ELSE next_call_id

\* alloc_call_id, when there is one.
FreeSlot ==
  LET after == {s \in FreeSlots : s >= Wrapped}
  IN Min(IF after # {} THEN after ELSE FreeSlots)

-----------------------------------------------------------------------------
(* What becomes of a session *)

Keep(d, r) == dlgs' = [dlgs EXCEPT ![d] = r] /\ UNCHANGED <<calls, call_cnt>>

\* inv_set_state(DISCONNECTED): pjsua_call_on_state_changed frees the slot it
\* finds in the dialog.
Disconnect(d, r) ==
  /\ dlgs' = [dlgs EXCEPT ![d] = [r EXCEPT !.ses = "DISCONNECTED", !.hanging = FALSE]]
  /\ IF r.slot = NoSlot THEN UNCHANGED <<calls, call_cnt>>
     ELSE calls' = [calls EXCEPT ![r.slot] = NoDialog] /\ call_cnt' = call_cnt - 1

\* Mutant of EndOnce: whatever the state of the session.
EndAgain(d, r) == Disconnect(d, r)

\* inv_respond_incoming_bye and handle_uac_tsx_response
EndOnce(d, r) == IF Live(d) THEN Disconnect(d, r) ELSE Keep(d, r)

Calling(r) == [r EXCEPT !.bye = TRUE]

\* Mutant of Confirm: the BYE that waited is forgotten.
ConfirmOnly(d) ==
  LET r == dlgs[d] IN
  IF r.ses = "CONNECTING" THEN Keep(d, [r EXCEPT !.ses = "CONFIRMED"])
  ELSE UNCHANGED <<dlgs, calls, call_cnt>>

\* inv_set_state(CONFIRMED), with the BYE that waited for it.
Confirm(d) ==
  LET r == [dlgs[d] EXCEPT !.ses = "CONFIRMED"] IN
  IF dlgs[d].ses = "CONNECTING"
  THEN Keep(d, IF r.hanging THEN Calling(r) ELSE r)
  ELSE UNCHANGED <<dlgs, calls, call_cnt>>

\* Mutant of Unconfirmed: a call whose ACK never came is left as it is.
UnconfirmedNoBye(d) == UNCHANGED <<dlgs, calls, call_cnt>>

\* inv_on_state_connecting when timer H has ended the transaction.
Unconfirmed(d) ==
  IF dlgs[d].ses = "CONNECTING" THEN Keep(d, Calling(dlgs[d]))
  ELSE UNCHANGED <<dlgs, calls, call_cnt>>

-----------------------------------------------------------------------------
(* An INVITE goes up to pjsua_call_on_incoming *)

\* Refused before there is a dialog, by a transaction of its own or by none.
TurnAway(c) ==
  /\ \/ UNCHANGED tsx
     \/ ~KeyTaken(c) /\ tsx' = [tsx EXCEPT ![c] = Tsx("COMPLETED", NoDialog)]
  /\ UNCHANGED <<dlgs, calls, call_cnt>>

\* The session is answered with a failure, or cannot even send its 100; it never
\* gets to hold the slot.
Fail(c) ==
  /\ ~KeyTaken(c)
  /\ dlgs' = Append(dlgs, Dialog(c, "DISCONNECTED", NoSlot))
  /\ \E state \in {"COMPLETED", "TERMINATED"} :
       tsx' = [tsx EXCEPT ![c] = Tsx(state, Len(dlgs'))]
  /\ UNCHANGED <<calls, call_cnt>>

\* The program is told.
Offer(c) ==
  /\ ~KeyTaken(c)
  /\ dlgs' = Append(dlgs, Dialog(c, "INCOMING", FreeSlot))
  /\ tsx' = [tsx EXCEPT ![c] = Tsx("PROCEEDING", Len(dlgs'))]
  /\ calls' = [calls EXCEPT ![FreeSlot] = Len(dlgs')]
  /\ call_cnt' = call_cnt + 1

RxInvite(c) ==
  /\ ~Absorbed(c) /\ Len(dlgs) < MaxDialogs
  /\ \/ /\ FreeSlots = {}
        /\ next_call_id' = Wrapped
        /\ UNCHANGED <<tsx, dlgs, calls, call_cnt>>
     \/ /\ FreeSlots # {}
        /\ TurnAway(c) \/ Fail(c) \/ Offer(c)
        /\ next_call_id' = Wrapped + 1

-----------------------------------------------------------------------------
(* The program *)

\* A final answer other than 200, by whoever gives it.
Answered(d, r) ==
  /\ SetTsx(Caller(d), "COMPLETED")
  /\ Disconnect(d, r)
  /\ UNCHANGED next_call_id

Ring(d) ==
  /\ dlgs[d].ses = "INCOMING"
  /\ Keep(d, [dlgs[d] EXCEPT !.ses = "EARLY"])
  /\ UNCHANGED <<tsx, next_call_id>>

Refuse(d) == dlgs[d].ses = "INCOMING" /\ Answered(d, dlgs[d])

Answer(d) ==
  /\ dlgs[d].ses = "EARLY"
  /\ tsx' = [tsx EXCEPT ![Caller(d)] = [state |-> "COMPLETED", dlg |-> @.dlg, ok |-> TRUE]]
  /\ Keep(d, [dlgs[d] EXCEPT !.ses = "CONNECTING"])
  /\ UNCHANGED next_call_id

\* A response before the final one cannot be sent: the transaction ends, and
\* with it the session.
NotSent(d) ==
  /\ dlgs[d].ses \in {"INCOMING", "EARLY"}
  /\ SetTsx(Caller(d), "TERMINATED")
  /\ Disconnect(d, dlgs[d])
  /\ UNCHANGED next_call_id

\* pjsua_call_hangup
Hangup(d) ==
  LET r == [dlgs[d] EXCEPT !.hanging = TRUE] IN
  /\ ~dlgs[d].hanging
  /\ \/ r.ses = "EARLY" /\ Answered(d, r)
     \/ /\ \/ r.ses = "CONNECTING" /\ Keep(d, r)
           \/ r.ses = "CONFIRMED" /\ Keep(d, Calling(r))
        /\ UNCHANGED <<tsx, next_call_id>>

-----------------------------------------------------------------------------
(* Other requests *)

\* An ACK with the branch of the INVITE belongs to the transaction there is,
\* whichever dialog the caller means by it.
RxAckSameBranch(c) ==
  LET d == tsx[c].dlg IN
  /\ tsx[c].state = "COMPLETED"
  /\ SetTsx(c, "CONFIRMED")
  /\ IF d = NoDialog THEN UNCHANGED <<dlgs, calls, call_cnt>> ELSE Confirm(d)
  /\ UNCHANGED next_call_id

\* One with a branch of its own is found by its tag; mod_inv_on_rx_request ends
\* the transaction of that dialog.
RxAckNewBranch(d) ==
  /\ tsx[Caller(d)].dlg = d /\ tsx[Caller(d)].ok
  /\ SetTsx(Caller(d), "TERMINATED")
  /\ Confirm(d)
  /\ UNCHANGED next_call_id

\* A CANCEL finds the dialog of the transaction there is.
RxCancel(c) ==
  /\ tsx[c].state = "PROCEEDING"
  /\ Answered(tsx[c].dlg, dlgs[tsx[c].dlg])

RxBye(d) ==
  /\ Live(d)
  /\ EndOnce(d, dlgs[d])
  /\ IF dlgs[d].ses = "EARLY" THEN SetTsx(Caller(d), "COMPLETED") ELSE UNCHANGED tsx
  /\ UNCHANGED next_call_id

-----------------------------------------------------------------------------
(* Timers, and the answer to a BYE *)

\* The timeout timer of the transaction: H, I, or the end.
TsxTimer(c) ==
  LET t == tsx[c] IN
  /\ \/ /\ t.state = "COMPLETED"
        /\ SetTsx(c, "TERMINATED")
        /\ IF t.dlg = NoDialog THEN UNCHANGED <<dlgs, calls, call_cnt>> ELSE Unconfirmed(t.dlg)
     \/ /\ \/ t.state = "CONFIRMED" /\ SetTsx(c, "TERMINATED")
           \/ t.state = "TERMINATED" /\ tsx' = [tsx EXCEPT ![c] = NoTsx]
        /\ UNCHANGED <<dlgs, calls, call_cnt>>
  /\ UNCHANGED next_call_id

\* Our BYE is answered, or timer F ends it.
ByeEnds(d) ==
  /\ dlgs[d].bye
  /\ EndOnce(d, [dlgs[d] EXCEPT !.bye = FALSE])
  /\ UNCHANGED <<tsx, next_call_id>>

-----------------------------------------------------------------------------
Init ==
  /\ tsx = [c \in Callers |-> NoTsx]
  /\ dlgs = <<>>
  /\ calls = [s \in Slots |-> NoDialog]
  /\ next_call_id = 0
  /\ call_cnt = 0

\* The worker is not in the middle of on_incoming_call.
Idle == \A d \in Dialogs : dlgs[d].ses # "INCOMING"

Program == \E d \in Dialogs : Ring(d) \/ Refuse(d) \/ NotSent(d) \/ (Idle /\ (Answer(d) \/ Hangup(d)))
Requests ==
  \/ \E c \in Callers : RxInvite(c) \/ RxAckSameBranch(c) \/ RxCancel(c)
  \/ \E d \in Dialogs : RxAckNewBranch(d) \/ RxBye(d)
Timers == (\E c \in Callers : TsxTimer(c)) \/ (\E d \in Dialogs : ByeEnds(d))

Next == Program \/ (Idle /\ (Requests \/ Timers))

\* Timers expire, timer F of a BYE included.
Fairness ==
  /\ \A c \in Callers : WF_vars(Idle /\ TsxTimer(c))
  /\ \A d \in 1..MaxDialogs : WF_vars(Idle /\ d \in Dialogs /\ ByeEnds(d))

SetupSpec == Init /\ [][Next]_vars /\ Fairness /\ WF_vars(\E d \in Dialogs : Ring(d) \/ Refuse(d))

-----------------------------------------------------------------------------
(* What the code promises *)

\* The session waits for its caller: for the answer, or for the ACK of it.
Waiting(d) ==
  \/ dlgs[d].ses \in {"INCOMING", "EARLY"}
  \/ dlgs[d].ses = "CONNECTING" /\ ~dlgs[d].bye

\* However often and however late an INVITE arrives, after a refusal without a
\* transaction and after the ACK has ended one, it never has two calls that wait
\* for the caller: a second is made only when the first is confirmed or on its end.
OneSetupAtATime ==
  \A d, e \in Dialogs : d # e /\ Waiting(d) /\ Waiting(e) => Caller(d) # Caller(e)

\* A slot is held by one live session and by none that has ended, refused or
\* failed, and call_cnt counts them: no event of an old dialog, whose mod_data
\* still names the slot, frees it under the call that has it now.
SlotsMatchSessions ==
  /\ \A s \in Slots : calls[s] # NoDialog => Live(calls[s]) /\ dlgs[calls[s]].slot = s
  /\ \A d \in Dialogs : Live(d) => calls[dlgs[d].slot] = d
  /\ call_cnt = Cardinality(Slots \ FreeSlots)

\* Whichever calls take it in turn, a slot is that of module CallSlot, step by step.
Held(s) == calls[s] # NoDialog
Slot(s) == INSTANCE CallSlot WITH
  inv     <- IF Held(s) THEN dlgs[calls[s]].ses ELSE "NULL",
  hanging <- Held(s) /\ dlgs[calls[s]].hanging,
  bye     <- Held(s) /\ dlgs[calls[s]].bye
SlotsStep == \A s \in Slots : [Slot(s)!Next]_(Slot(s)!vars)
SlotsAreCallSlots == (\A s \in Slots : Slot(s)!Init) /\ [][SlotsStep]_vars

\* And it serves as one: an answered call is confirmed or given a BYE, and a BYE
\* ends, whatever the other slots do.
EverySlotServes == SlotsAreCallSlots /\ \A s \in Slots : Slot(s)!Fairness
=============================================================================
