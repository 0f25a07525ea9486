----------------------------- MODULE InviteServer -----------------------------
(***************************************************************************)
(* One incoming call of pjproject: its INVITE server transaction           *)
(* (sip_transaction.c), its INVITE session (sip_inv.c), the transport that *)
(* may keep or lose what they send, and a caller behind a network that     *)
(* loses, repeats and delays messages.  The worker thread handles messages *)
(* and timers one at a time, so every handler is one step, with all that   *)
(* it calls back.                                                          *)
(*                                                                         *)
(* The network is the set of messages it has been given.  Nothing leaves   *)
(* it: a request of the caller may arrive as often and as late as it likes *)
(* once the response it belongs to has been given to the network, and need *)
(* not arrive at all.                                                      *)
(***************************************************************************)
EXTENDS Naturals, FiniteSets

CONSTANTS
  Callers,   \* what a caller may do: make the offer itself, and the Via branch of its ACK
  Mishaps    \* what may happen to a message besides being sent at once

ASSUME CallerAssumption == Callers \subseteq [offer: BOOLEAN, branch: {"new", "same"}]

\* "transport", "resolve": the message is kept, by the transport the transaction
\* has or by the second attempt after that one failed; "failed": both failed.
ASSUME MishapAssumption == Mishaps \subseteq {"transport", "resolve", "failed"}

Provisional == {100, 180}
Final == {200, 404, 487, 500}
NoMessage == 0

VARIABLES
  tsx,     \* the INVITE transaction
  ses,     \* the INVITE session, with pjsua's call
  caller   \* the caller of this call

vars == <<tsx, ses, caller>>

NoTsx == [
  state |-> "NULL", code |-> 0,
  last |-> NoMessage,     \* last_tx
  pend |-> "none",        \* who keeps a message of ours; "late" once we are terminated
  flight |-> NoMessage,   \* that message
  send |-> FALSE,         \* TSX_HAS_PENDING_SEND
  resched |-> FALSE,      \* TSX_HAS_PENDING_RESCHED
  retransmit |-> FALSE,   \* retransmit_timer is running
  timeout |-> "none",     \* what timeout_timer is running for
  wire |-> {}]            \* responses the network was given

NoSes == [
  state |-> "NULL", cause |-> 0,
  invite |-> FALSE,       \* invite_tsx is not NULL
  sdp_done |-> FALSE,     \* the offer has its answer
  pending_bye |-> FALSE,  \* a BYE waits for the ACK
  bye |-> "none",         \* a BYE transaction: "calling", then "sent" once on the wire
  hanging |-> FALSE]      \* pjsua_call.hanging_up

-----------------------------------------------------------------------------
(* The server transaction *)

\* tsx_set_state(TERMINATED): a message that is still kept is disowned.
Terminated(t) ==
  [t EXCEPT !.state = "TERMINATED", !.timeout = "timeout", !.retransmit = FALSE,
            !.pend = IF @ = "none" THEN @ ELSE "late",
            !.send = @ /\ t.pend = "transport"]

\* tsx_send_msg
SendMsg(t, r) ==
  IF t.pend # "none" THEN {[t EXCEPT !.send = TRUE]}
  ELSE {[t EXCEPT !.wire = @ \cup {r}]}
       \cup {[t EXCEPT !.pend = p, !.flight = r] : p \in Mishaps \ {"failed"}}
       \cup {Terminated([t EXCEPT !.code = 503]) : f \in Mishaps \cap {"failed"}}

\* tsx_on_state_proceeding_uas once tsx_send_msg has accepted the response.
Answered(t, r) ==
  [t EXCEPT !.last = r,
            !.state = IF r \in Final THEN "COMPLETED" ELSE "PROCEEDING",
            !.timeout = IF r \in Final THEN "timeout" ELSE @,
            !.retransmit = r \in Final /\ t.pend = "none",
            !.resched = @ \/ (r > 100 /\ t.pend # "none")]

\* tsx_on_state_trying and tsx_on_state_proceeding_uas with a response.
Respond(t, r) ==
  {IF u.state = "TERMINATED" THEN u ELSE Answered(u, r) :
     u \in SendMsg([t EXCEPT !.code = r], r)}

\* pjsip_tsx_terminate
Ended(t) == IF t.state = "TERMINATED" THEN t ELSE Terminated(t)

\* The end of transport_callback and send_msg_callback: the retransmission
\* timer that had to wait.  (The 60 s one of a provisional response is left out.)
Rescheduled(t) ==
  IF t.resched /\ t.pend = "none"
  THEN [t EXCEPT !.resched = FALSE, !.retransmit = (t.state = "COMPLETED")]
  ELSE t

\* The kept message was sent, and so is the one that had to wait for it.
SendDone(t) ==
  LET u == [t EXCEPT !.wire = @ \cup {t.flight}, !.flight = NoMessage, !.pend = "none",
                     !.send = FALSE]
  IN {Rescheduled(v) : v \in IF t.send THEN SendMsg(u, u.last) ELSE {u}}

\* The kept message was not sent.  transport_callback posts the error to the
\* timeout timer, unless the answer is final; send_msg_callback ends it now.
SendFailed(t) ==
  LET u == [t EXCEPT !.flight = NoMessage, !.pend = "none"] IN
  IF t.pend = "resolve" THEN Terminated([u EXCEPT !.code = 503])
  ELSE IF t.state = "PROCEEDING" THEN [u EXCEPT !.timeout = "error"] ELSE u

\* A disowned message was sent after all, and perhaps last_tx behind it.
SentLate(t) ==
  [t EXCEPT !.wire = @ \cup {t.flight} \cup (IF t.send THEN {t.last} ELSE {}),
            !.flight = NoMessage, !.pend = "none", !.send = FALSE]

\* tsx_retransmit when the retransmission timer expires.
Retransmit(t) ==
  SendMsg([t EXCEPT !.retransmit = (t.pend = "none"), !.resched = @ \/ t.pend # "none"], t.last)

\* An ACK that belongs to the transaction.
Confirmed(t) ==
  [t EXCEPT !.state = "CONFIRMED", !.timeout = "timeout", !.retransmit = FALSE,
            !.resched = FALSE]

\* Mutant of Destroyed: the flags outlive the message they are for.
DestroyedStillSends(t) ==
  [t EXCEPT !.state = "DESTROYED", !.last = NoMessage, !.timeout = "none"]

\* tsx_set_state(DESTROYED), tsx_shutdown.
Destroyed(t) ==
  [t EXCEPT !.state = "DESTROYED", !.last = NoMessage, !.send = FALSE, !.resched = FALSE,
            !.timeout = "none"]

\* Mutant of TimedOut: an ACK that never came leaves the transaction as it is.
TimedOutSilently(t) ==
  CASE t.state = "TERMINATED" -> Destroyed(t)
    [] t.state = "COMPLETED"  -> [t EXCEPT !.timeout = "none"]
    [] OTHER -> Terminated(t)

\* Timer H: the ACK never came.
NoAckCame(t) == Terminated([t EXCEPT !.code = 408])

\* tsx_timer_callback for the timeout timer, in each state it can run in.
TimedOut(t) ==
  CASE t.state = "TERMINATED" -> Destroyed(t)
    [] t.state = "COMPLETED"  -> NoAckCame(t)
    [] t.state = "CONFIRMED"  -> Terminated(t)
    [] OTHER -> Terminated([t EXCEPT !.code = IF @ < 200 THEN 503 ELSE @])

-----------------------------------------------------------------------------
(* The session: each operator gives the sessions that may come of one *)

\* Mutant of SetCause: a higher code always wins.
SetCauseHighest(s, code) == IF code > s.cause THEN [s EXCEPT !.cause = code] ELSE s

\* inv_set_cause
SetCause(s, code) ==
  IF code > s.cause \/ s.pending_bye THEN [s EXCEPT !.cause = code] ELSE s

Disconnected(s, code) == [SetCause(s, code) EXCEPT !.state = "DISCONNECTED", !.pending_bye = FALSE]

\* Mutant of SendBye: a BYE goes out without waiting for the ACK.
SendByeNow(s) == {[s EXCEPT !.bye = "sent"]}

\* A BYE has a transaction of its own; one that cannot send it ends there and then.
ByeTransaction(s) ==
  {[s EXCEPT !.bye = "sent"]}
    \cup {[s EXCEPT !.bye = IF @ = "none" THEN "calling" ELSE @] : p \in Mishaps \ {"failed"}}
    \cup {Disconnected(s, 200) : f \in Mishaps \cap {"failed"}}

\* pjsip_inv_send_msg with a BYE
SendBye(s) ==
  IF s.state = "CONNECTING" /\ s.cause \notin {408, 503}
  THEN {[s EXCEPT !.pending_bye = TRUE]}
  ELSE ByeTransaction(s)

\* pjsip_inv_end_session and pjsip_inv_send_msg for an answered call.
EndSession(s, code) == SendBye(SetCause(s, code))

\* inv_set_state(CONFIRMED); pjsua hangs up again if it was hung up before.
SetConfirmed(s) ==
  LET u == [s EXCEPT !.state = "CONFIRMED"]
  IN IF s.invite /\ ~s.sdp_done THEN EndSession(s, 406)
     ELSE IF s.hanging THEN EndSession(u, 200) ELSE {u}

PerformPendingBye(S) ==
  UNION {IF s.pending_bye THEN SendBye([s EXCEPT !.pending_bye = FALSE]) ELSE {s} : s \in S}

\* Mutants of OnStateEarly: the class of the final response is not looked at; the
\* error of a transaction is not.
OnStateEarlyAnyFinal(s, t) ==
  CASE t.state = "PROCEEDING" -> {IF t.code > 100 THEN [s EXCEPT !.state = "EARLY"] ELSE s}
    [] t.state = "COMPLETED" -> {[s EXCEPT !.state = "CONNECTING"]}
    [] OTHER -> {Disconnected(s, t.code)}
OnStateEarlyNoError(s, t) ==
  CASE t.state = "PROCEEDING" -> {IF t.code > 100 THEN [s EXCEPT !.state = "EARLY"] ELSE s}
    [] t.state = "COMPLETED" /\ t.code = 200 -> {[s EXCEPT !.state = "CONNECTING"]}
    [] t.state = "COMPLETED" /\ t.code # 200 -> {Disconnected(s, t.code)}
    [] OTHER -> {s}

\* inv_on_state_incoming and inv_on_state_early
OnStateEarly(s, t) ==
  CASE t.state = "PROCEEDING" -> {IF t.code > 100 THEN [s EXCEPT !.state = "EARLY"] ELSE s}
    [] t.state = "COMPLETED" /\ t.code = 200 -> {[s EXCEPT !.state = "CONNECTING"]}
    [] OTHER -> {Disconnected(s, t.code)}

\* inv_on_state_null
OnStateNull(s, t) ==
  CASE t.state = "PROCEEDING" -> {[s EXCEPT !.state = IF t.code > 100 THEN "EARLY" ELSE "INCOMING"]}
    [] t.state = "TERMINATED" -> {Disconnected(s, t.code)}
    [] OTHER -> OnStateEarly(s, t)

\* Mutant of OnStateConnecting: no BYE is sent for want of an ACK.
OnStateConnectingNoBye(s, t) ==
  IF t.state = "CONFIRMED" THEN PerformPendingBye(SetConfirmed(s)) ELSE {s}

\* inv_on_state_connecting
OnStateConnecting(s, t) ==
  CASE t.state = "CONFIRMED" -> PerformPendingBye(SetConfirmed(s))
    [] t.state = "TERMINATED" /\ t.code # 200 ->
         {[u EXCEPT !.pending_bye = FALSE] : u \in EndSession(s, t.code)}
    [] OTHER -> {s}

\* mod_inv_on_tsx_state
OnTsxState(s, t) ==
  LET handled == CASE s.state = "NULL" -> OnStateNull(s, t)
                   [] s.state \in {"INCOMING", "EARLY"} -> OnStateEarly(s, t)
                   [] s.state = "CONNECTING" -> OnStateConnecting(s, t)
                   [] OTHER -> {s}
  IN IF s.invite
     THEN {[u EXCEPT !.invite = t.state \notin {"CONFIRMED", "TERMINATED"}] : u \in handled}
     ELSE {s}

\* The session hears of a transaction that changes its state.
Notified == IF tsx'.state = tsx.state THEN UNCHANGED ses ELSE ses' \in OnTsxState(ses, tsx')

\* The program sends a response; a further 180 would be notified as well.
Send(r) == tsx' \in Respond(tsx, r) /\ ses' \in OnTsxState(ses, tsx') /\ UNCHANGED caller

-----------------------------------------------------------------------------
(* The program.  The worker takes an INVITE from its arrival to the last   *)
(* response of on_incoming_call in one callback, and does nothing else     *)
(* meanwhile.  An INVITE refused before it has a dialog has no session and *)
(* is left out.                                                            *)

Deciding == ses.state = "NULL" /\ tsx.state = "TRYING"
Offered  == ses.state = "INCOMING"
Idle == ~Deciding /\ ~Offered

\* pjsua_call_on_incoming makes the dialog with its transaction, and the session.
NewCall ==
  /\ tsx.state = "NULL"
  /\ tsx' = [tsx EXCEPT !.state = "TRYING"]
  /\ ses' = [ses EXCEPT !.invite = TRUE]
  /\ UNCHANGED caller

\* verify_request and the media channel find fault only with an offer.
MayBeUnsuitable == caller.offer

\* The offer does not suit it: the session is terminated behind the response.
TurnedAway ==
  /\ Deciding /\ MayBeUnsuitable
  /\ \E u \in Respond(tsx, 500) : tsx' = Ended(u) /\ ses' \in OnTsxState(ses, Ended(u))
  /\ UNCHANGED caller

\* The initial answer of pjsua, which makes the session INCOMING, or ends it
\* before the program hears of the call.
Trying == Deciding /\ Send(100)

\* on_incoming_call sends a 100 of its own before its answer.
TryingThen(r) ==
  \E u \in Respond(tsx, 100) :
    /\ tsx' \in IF u.state = "TERMINATED" THEN {u} ELSE Respond(u, r)
    /\ ses' \in OnTsxState(ses, tsx')
    /\ UNCHANGED caller

Ring   == Offered /\ TryingThen(180)
Refuse == Offered /\ TryingThen(404)   \* or 600, when no cell is free

\* inv_negotiate_sdp
Negotiated(s) == [s EXCEPT !.sdp_done = TRUE]

\* An offer of the caller is answered by the 200; a 200 to none makes the offer.
Answer ==
  /\ ses.state = "EARLY"
  /\ tsx' \in Respond(tsx, 200)
  /\ ses' \in OnTsxState(IF caller.offer THEN Negotiated(ses) ELSE ses, tsx')
  /\ UNCHANGED caller

Live == ses.state \in {"CONNECTING", "CONFIRMED"}

\* pjsua_call_hangup by a timer, the user or an error, with its code.
Hangup ==
  /\ ~ses.hanging
  /\ \/ ses.state = "EARLY" /\ Send(500)
     \/ /\ Live
        /\ \E code \in {200, 500} : ses' \in EndSession([ses EXCEPT !.hanging = TRUE], code)
        /\ UNCHANGED <<tsx, caller>>

-----------------------------------------------------------------------------
(* Requests of the caller *)

\* The INVITE again: the transaction repeats its last response.
RxInvite ==
  /\ Idle /\ tsx.state \in {"PROCEEDING", "COMPLETED"}
  /\ tsx' \in SendMsg(tsx, tsx.last)
  /\ Notified /\ UNCHANGED caller

\* What the ACK says of media: an answer to the offer of our 200, or nothing.
WithSdp(s) == {s, Negotiated(s)}

\* An ACK with a branch of its own passes the transaction; mod_inv_on_rx_request
\* terminates it and forgets it, and then confirms the session.
RxAckNewBranch ==
  /\ Idle /\ caller.branch = "new" /\ 200 \in tsx.wire
  /\ ses.invite /\ tsx.state = "COMPLETED"
  /\ tsx' = Terminated(tsx)
  /\ \E s \in IF ses.state = "DISCONNECTED" THEN {ses} ELSE WithSdp(ses) :
       LET u == [s EXCEPT !.invite = FALSE]
       IN ses' \in IF s.state = "CONNECTING" THEN PerformPendingBye(SetConfirmed(u)) ELSE {u}
  /\ UNCHANGED caller

\* One with the branch of the INVITE goes to the transaction, which tells the session.
RxAckSameBranch ==
  /\ Idle /\ caller.branch = "same" /\ 200 \in tsx.wire
  /\ tsx.state = "COMPLETED"
  /\ tsx' = Confirmed(tsx)
  /\ \E s \in IF ses.state = "CONNECTING" THEN WithSdp(ses) ELSE {ses} :
       ses' \in OnTsxState(s, tsx')
  /\ UNCHANGED caller

\* As does the ACK of a failure.
RxAckFailure ==
  /\ Idle /\ (Final \ {200}) \cap tsx.wire # {}
  /\ tsx.state = "COMPLETED"
  /\ tsx' = Confirmed(tsx)
  /\ Notified /\ UNCHANGED caller

\* A CANCEL changes something only while there is no final response.
RxCancel ==
  /\ Provisional \cap tsx.wire # {}
  /\ ses.state = "EARLY"
  /\ Send(487)

\* inv_respond_incoming_bye; unless the 200 to the BYE can be sent, the session goes on.
RespondBye(s) == {Disconnected(s, 200)} \cup (IF Mishaps = {} THEN {} ELSE {s})

\* A BYE before our 200, or overtaking the ACK, or of a call.  The INVITE is answered.
RxBye ==
  /\ {180, 200} \cap tsx.wire # {}
  /\ \/ /\ ses.state = "EARLY"
        /\ tsx' \in Respond(tsx, 487)
        /\ \E s \in RespondBye(ses) : ses' \in OnTsxState(s, tsx')
     \/ /\ Live
        /\ ses' \in RespondBye(ses)
        /\ UNCHANGED tsx
  /\ UNCHANGED caller

-----------------------------------------------------------------------------
(* The transport and the timers *)

Sent ==
  /\ Idle /\ tsx.pend # "none"
  /\ tsx' \in IF tsx.pend = "late" THEN {SentLate(tsx)} ELSE SendDone(tsx)
  /\ Notified /\ UNCHANGED caller

NotSent ==
  /\ Idle /\ tsx.pend # "none"
  /\ tsx' = IF tsx.pend = "late" THEN [tsx EXCEPT !.pend = "none", !.flight = NoMessage, !.send = FALSE]
            ELSE SendFailed(tsx)
  /\ Notified /\ UNCHANGED caller

RetransmitTimer ==
  /\ Idle /\ tsx.state = "COMPLETED" /\ tsx.retransmit
  /\ tsx' \in Retransmit(tsx)
  /\ Notified /\ UNCHANGED caller

TimeoutTimer ==
  /\ Idle /\ tsx.timeout # "none"
  /\ tsx' = TimedOut(tsx)
  /\ Notified /\ UNCHANGED caller

\* The BYE that was kept, or is repeated, leaves.
ByeRetransmit ==
  /\ Idle /\ ses.bye = "calling"
  /\ ses' = [ses EXCEPT !.bye = "sent"]
  /\ UNCHANGED <<tsx, caller>>

ByeOpen == Idle /\ ses.bye # "none" /\ Live

\* The response to it ends the session, whatever it says,
ByeAnswered ==
  /\ ByeOpen /\ ses.bye = "sent"
  /\ ses' = Disconnected(ses, 200)
  /\ UNCHANGED <<tsx, caller>>

\* and so does timer F, or an error of the transport.
ByeTimeout ==
  /\ ByeOpen
  /\ ses' = Disconnected(ses, 200)
  /\ UNCHANGED <<tsx, caller>>

-----------------------------------------------------------------------------
Init == tsx = NoTsx /\ ses = NoSes /\ caller \in Callers

Program == NewCall \/ TurnedAway \/ Trying \/ Ring \/ Refuse \/ Answer \/ Hangup
Caller == RxInvite \/ RxAckNewBranch \/ RxAckSameBranch \/ RxAckFailure \/ RxCancel \/ RxBye
Stack == Sent \/ NotSent \/ RetransmitTimer \/ TimeoutTimer
         \/ ByeRetransmit \/ ByeAnswered \/ ByeTimeout

Next == Program \/ Caller \/ Stack

Spec == Init /\ [][Next]_vars

\* A timer that was scheduled expires, timer H here and timer F for a BYE.  No
\* message need arrive, and no transport need say what became of one.
FairSpec == Spec /\ WF_vars(TimeoutTimer) /\ WF_vars(ByeTimeout)

-----------------------------------------------------------------------------
(* What the code promises *)

\* The ranges of the fields.
InviteTypeOK ==
  /\ tsx \in [
       state: {"NULL", "TRYING", "PROCEEDING", "COMPLETED", "CONFIRMED", "TERMINATED", "DESTROYED"},
       code: {0, 408, 503} \cup Provisional \cup Final,
       last: {NoMessage} \cup Provisional \cup Final,
       pend: {"none", "transport", "resolve", "late"},
       flight: {NoMessage} \cup Provisional \cup Final,
       send: BOOLEAN, resched: BOOLEAN, retransmit: BOOLEAN,
       timeout: {"none", "timeout", "error"},
       wire: SUBSET (Provisional \cup Final)]
  /\ ses \in [
       state: {"NULL", "INCOMING", "EARLY", "CONNECTING", "CONFIRMED", "DISCONNECTED"},
       cause: {0, 406, 408, 503} \cup Final,
       invite: BOOLEAN, sdp_done: BOOLEAN, pending_bye: BOOLEAN,
       bye: {"none", "calling", "sent"}, hanging: BOOLEAN]
  /\ caller \in Callers

\* However responses are kept, repeated and sent late, the caller sees one final
\* answer, and one that is told of a failure never gets a BYE.
OneFinalAnswer ==
  /\ Cardinality(tsx.wire \cap Final) <= 1
  /\ tsx.wire \cap (Final \ {200}) # {} => ses.state = "DISCONNECTED" /\ ses.bye = "none"

\* pjsip_inv_send_msg: "Don't send BYE before ACK is received", or before it is
\* certain that none will be: the INVITE transaction is over by then.
ByeWaitsForAck == ses.bye # "none" => tsx.state \in {"CONFIRMED", "TERMINATED", "DESTROYED"}

\* A call that waits to be answered has the transaction to answer it with, which
\* is what uas.c relies on in every pjsua_call_answer, and none is left unanswered.
AnswerHasTransaction ==
  /\ ses.state \in {"INCOMING", "EARLY"} <=> tsx.state = "PROCEEDING"
  /\ ses.state \in {"INCOMING", "EARLY"} => ses.invite

\* An answered call is never left alone: it has the timer that waits for its ACK,
\* or a BYE on its way.
ConnectingWaitsForAck ==
  ses.state = "CONNECTING" /\ ses.bye = "none"
    => ses.invite /\ tsx.state = "COMPLETED" /\ tsx.timeout = "timeout"

\* Timer H, the ACK or an error ends every answered INVITE, kept messages or not.
TransactionEnds == tsx.state = "COMPLETED" ~> tsx.state = "DESTROYED"

\* What the program sees of it is one slot of module CallSlot.
Slot == INSTANCE CallSlot WITH
  inv     <- IF ses.state = "DISCONNECTED" THEN "NULL" ELSE ses.state,
  hanging <- ses.hanging /\ Live,
  bye     <- ses.bye # "none" /\ Live

\* An answered call is confirmed or ended, and one with a BYE ended, whatever the
\* network and the transport do with the messages.
ImplementsSlot == Slot!FairSpec
=============================================================================
