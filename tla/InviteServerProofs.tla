------------------------- MODULE InviteServerProofs -------------------------
(***************************************************************************)
(* Theorems about one incoming call, its INVITE transaction and session,   *)
(* whatever becomes of the messages: for any set of callers and mishaps.   *)
(***************************************************************************)
EXTENDS InviteServer, FiniteSetTheorems, TLAPS

-----------------------------------------------------------------------------
(* The inductive invariant *)

Messages == {NoMessage} \cup Provisional \cup Final
Responses == Provisional \cup Final
Codes == {0, 408, 503} \cup Responses
TsxStates == {"NULL", "TRYING", "PROCEEDING", "COMPLETED", "CONFIRMED", "TERMINATED", "DESTROYED"}
Over == {"CONFIRMED", "TERMINATED", "DESTROYED"}

TsxRecord == [
  state: TsxStates, code: Codes, last: Messages,
  pend: {"none", "transport", "resolve", "late"}, flight: Messages,
  send: BOOLEAN, resched: BOOLEAN, retransmit: BOOLEAN,
  timeout: {"none", "timeout", "error"}, wire: SUBSET Responses]

SesStates == {"NULL", "INCOMING", "EARLY", "CONNECTING", "CONFIRMED", "DISCONNECTED"}
Causes == {0, 406, 408, 503} \cup Final

SesRecord == [
  state: SesStates, cause: Causes, invite: BOOLEAN, sdp_done: BOOLEAN, pending_bye: BOOLEAN,
  bye: {"none", "calling", "sent"}, hanging: BOOLEAN]

\* The final responses the network has been given, or may still be.
Finals(t) == Final \cap (t.wire \cup {t.flight, t.last})

\* A transaction: whatever it keeps or repeats has a response to it, its timers
\* belong to its state, and at most one final response is ever on its way.
TsxInv(t) ==
  /\ t \in TsxRecord
  /\ t.send => t.last # NoMessage
  /\ t.pend # "none" => t.flight # NoMessage
  /\ t.state \in {"TERMINATED", "DESTROYED"} => t.pend \in {"none", "late"}
  /\ t.state = "COMPLETED" => t.last \in Final /\ t.code = t.last /\ t.timeout = "timeout"
  /\ t.state = "PROCEEDING" => t.last \in Provisional /\ t.code = t.last
  /\ t.state \in {"NULL", "DESTROYED"} => t.timeout = "none"
  /\ t.state = "NULL" => t.pend = "none"
  /\ t.state \in {"NULL", "TRYING", "PROCEEDING"} => Finals(t) = {}
  /\ \A x, y \in Finals(t) : x = y

\* A session and its transaction: the session follows the state of the
\* transaction, and holds it as long as it can still answer.
SesInv(t, s) ==
  /\ s \in SesRecord
  /\ s.state = "NULL" <=> t.state \in {"NULL", "TRYING"}
  /\ s.state \in {"INCOMING", "EARLY"} <=> t.state = "PROCEEDING"
  /\ t.state \in {"TRYING", "PROCEEDING"} => s.invite
  /\ s.invite => t.state \in {"TRYING", "PROCEEDING", "COMPLETED"}
  /\ s.state \in {"NULL", "INCOMING", "EARLY"} =>
       s.bye = "none" /\ s.cause = 0 /\ ~s.pending_bye /\ ~s.hanging
  /\ s.state = "CONNECTING" /\ t.state = "COMPLETED" =>
       /\ s.invite /\ t.code = 200 /\ s.cause \in {0, 200, 500}
       /\ s.pending_bye \/ s.cause = 0
       /\ s.pending_bye <=> s.hanging
  /\ s.state = "CONNECTING" /\ s.bye = "none" => s.cause \notin {408, 503}
  /\ s.state = "CONFIRMED" \/ s.bye # "none" => t.state \in Over
  /\ Finals(t) \ {200} # {} => s.state = "DISCONNECTED" /\ s.bye = "none"

-----------------------------------------------------------------------------
(* The transaction *)

\* A transaction of which one field changes is still one.
LEMMA TsxFields ==
  ASSUME NEW t \in TsxRecord
  PROVE  /\ \A x \in TsxStates : [t EXCEPT !.state = x] \in TsxRecord
         /\ \A x \in Codes : [t EXCEPT !.code = x] \in TsxRecord
         /\ \A x \in Messages : [t EXCEPT !.last = x] \in TsxRecord
         /\ \A x \in {"none", "transport", "resolve", "late"} : [t EXCEPT !.pend = x] \in TsxRecord
         /\ \A x \in Messages : [t EXCEPT !.flight = x] \in TsxRecord
         /\ \A x \in BOOLEAN : [t EXCEPT !.send = x] \in TsxRecord
         /\ \A x \in BOOLEAN : [t EXCEPT !.resched = x] \in TsxRecord
         /\ \A x \in BOOLEAN : [t EXCEPT !.retransmit = x] \in TsxRecord
         /\ \A x \in {"none", "timeout", "error"} : [t EXCEPT !.timeout = x] \in TsxRecord
         /\ \A x \in SUBSET Responses : [t EXCEPT !.wire = x] \in TsxRecord
<1>1. \A x \in TsxStates : [t EXCEPT !.state = x] \in TsxRecord
  BY DEF TsxRecord
<1>2. \A x \in Codes : [t EXCEPT !.code = x] \in TsxRecord
  BY DEF TsxRecord
<1>3. \A x \in Messages : [t EXCEPT !.last = x] \in TsxRecord
  BY DEF TsxRecord
<1>4. \A x \in {"none", "transport", "resolve", "late"} : [t EXCEPT !.pend = x] \in TsxRecord
  BY DEF TsxRecord
<1>5. \A x \in Messages : [t EXCEPT !.flight = x] \in TsxRecord
  BY DEF TsxRecord
<1>6. \A x \in BOOLEAN : [t EXCEPT !.send = x] \in TsxRecord
  BY DEF TsxRecord
<1>7. \A x \in BOOLEAN : [t EXCEPT !.resched = x] \in TsxRecord
  BY DEF TsxRecord
<1>8. \A x \in BOOLEAN : [t EXCEPT !.retransmit = x] \in TsxRecord
  BY DEF TsxRecord
<1>9. \A x \in {"none", "timeout", "error"} : [t EXCEPT !.timeout = x] \in TsxRecord
  BY DEF TsxRecord
<1>10. \A x \in SUBSET Responses : [t EXCEPT !.wire = x] \in TsxRecord
  BY DEF TsxRecord
<1> QED
  BY <1>1, <1>2, <1>3, <1>4, <1>5, <1>6, <1>7, <1>8, <1>9, <1>10

\* tsx_set_state(TERMINATED).
LEMMA TerminatedIs ==
  ASSUME NEW t \in TsxRecord
  PROVE  /\ Terminated(t) \in TsxRecord
         /\ Terminated(t).state = "TERMINATED" /\ Terminated(t).timeout = "timeout"
         /\ Terminated(t).code = t.code /\ Terminated(t).last = t.last
         /\ Terminated(t).flight = t.flight /\ Terminated(t).wire = t.wire
         /\ Terminated(t).pend = IF t.pend = "none" THEN "none" ELSE "late"
         /\ Terminated(t).send => t.send
<1> DEFINE u == Terminated(t)
           p == IF t.pend = "none" THEN t.pend ELSE "late"
           s == t.send /\ t.pend = "transport"
<1>1. u = [t EXCEPT !.state = "TERMINATED", !.timeout = "timeout", !.retransmit = FALSE,
                    !.pend = p, !.send = s]
  BY DEF Terminated
<1>2. p \in {"none", "transport", "resolve", "late"} /\ s \in BOOLEAN
  BY DEF TsxRecord
<1>3. u \in TsxRecord
  <2>1. "TERMINATED" \in TsxStates /\ "timeout" \in {"none", "timeout", "error"}
    BY DEF TsxStates
  <2> HIDE DEF p, s, u
  <2>2. [t EXCEPT !.state = "TERMINATED", !.timeout = "timeout"] \in TsxRecord
    BY <2>1, TsxFields
  <2>3. [t EXCEPT !.state = "TERMINATED", !.timeout = "timeout", !.retransmit = FALSE] \in TsxRecord
    BY <2>2, TsxFields
  <2> QED
    BY <1>1, <1>2, <2>3, TsxFields
<1>4. u.state = "TERMINATED" /\ u.timeout = "timeout" /\ u.code = t.code /\ u.last = t.last
  BY DEF Terminated, TsxRecord
<1>5. u.flight = t.flight /\ u.wire = t.wire /\ u.pend = p /\ u.send = s
  BY DEF Terminated, TsxRecord
<1> QED
  BY <1>3, <1>4, <1>5

\* A message was sent or is kept: nothing else changes.
Passed(t, r, u) ==
  /\ u.state = t.state /\ u.code = t.code /\ u.last = t.last /\ u.timeout = t.timeout
  /\ u.wire \cup {u.flight} \subseteq t.wire \cup {t.flight, r}
  /\ u.send => t.send \/ t.pend # "none"
  /\ t.pend # "none" => u.pend = t.pend /\ u.flight = t.flight
  /\ t.pend = "none" => u.pend \in {"none", "transport", "resolve"}
  /\ u.pend # "none" => u.flight \in {t.flight, r} /\ (t.pend = "none" => u.flight = r)

\* It cannot be sent, and the transaction is over.
Broken(t, u) ==
  /\ u.state = "TERMINATED" /\ u.code = 503 /\ u.timeout = "timeout"
  /\ u.last = t.last /\ u.flight = t.flight /\ u.wire = t.wire
  /\ u.pend = "none" /\ (u.send => t.send)

\* tsx_send_msg: the message is sent, kept or not to be sent.
LEMMA Sending ==
  ASSUME NEW t \in TsxRecord, NEW r \in Responses, NEW u \in SendMsg(t, r)
  PROVE  u \in TsxRecord /\ (Passed(t, r, u) \/ Broken(t, u))
<1>1. CASE t.pend # "none"
  <2>1. u = [t EXCEPT !.send = TRUE]
    BY <1>1 DEF SendMsg
  <2>2. u \in TsxRecord
    BY <2>1, TsxFields
  <2>3. Passed(t, r, u)
    BY <1>1, <2>1 DEF Passed, TsxRecord
  <2> QED
    BY <2>2, <2>3
<1>2. CASE t.pend = "none" /\ u = [t EXCEPT !.wire = @ \cup {r}]
  <2>1. u \in TsxRecord
    <3>1. t.wire \cup {r} \in SUBSET Responses
      BY DEF TsxRecord
    <3> QED
      BY <1>2, <3>1, TsxFields
  <2>2. Passed(t, r, u)
    BY <1>2 DEF Passed, TsxRecord
  <2> QED
    BY <2>1, <2>2
<1>3. ASSUME t.pend = "none", NEW p \in Mishaps \ {"failed"}, u = [t EXCEPT !.pend = p, !.flight = r]
      PROVE  u \in TsxRecord /\ Passed(t, r, u)
  <2>1. p \in {"transport", "resolve"} /\ r \in Messages
    BY MishapAssumption DEF Messages, Responses
  <2>2. u \in TsxRecord
    BY <1>3, <2>1, TsxFields
  <2>3. Passed(t, r, u)
    BY <1>3, <2>1 DEF Passed, TsxRecord
  <2> QED
    BY <2>2, <2>3
<1>4. CASE t.pend = "none" /\ u = Terminated([t EXCEPT !.code = 503])
  <2> DEFINE v == [t EXCEPT !.code = 503]
  <2>1. v \in TsxRecord
    <3>1. PICK c \in Codes : c = 503
      BY DEF Codes
    <3>2. [t EXCEPT !.code = c] \in TsxRecord
      BY TsxFields
    <3> QED
      BY <3>1, <3>2
  <2>2. v.code = 503 /\ v.last = t.last /\ v.flight = t.flight /\ v.wire = t.wire /\ v.pend = t.pend /\ v.send = t.send
    BY DEF TsxRecord
  <2> HIDE DEF v
  <2>3. u = Terminated(v)
    BY <1>4 DEF v
  <2> QED
    BY <1>4, <2>1, <2>2, <2>3, TerminatedIs DEF Broken
<1>5. CASE t.pend = "none"
  <2>1. \/ u = [t EXCEPT !.wire = @ \cup {r}]
        \/ \E p \in Mishaps \ {"failed"} : u = [t EXCEPT !.pend = p, !.flight = r]
        \/ u = Terminated([t EXCEPT !.code = 503])
    BY <1>5 DEF SendMsg
  <2> QED
    BY <1>2, <1>3, <1>4, <1>5, <2>1
<1> QED
  BY <1>1, <1>5

\* A response is given, and the transaction follows it or is over: with a first
\* final response there was none before.
LEMMA Responding ==
  ASSUME NEW t, TsxInv(t), t.state \in {"TRYING", "PROCEEDING"},
         NEW r \in Responses, NEW u \in Respond(t, r)
  PROVE  /\ TsxInv(u)
         /\ \/ /\ u.state = (IF r \in Final THEN "COMPLETED" ELSE "PROCEEDING")
               /\ u.code = r /\ Finals(u) = {r} \cap Final
            \/ u.state = "TERMINATED" /\ u.code = 503 /\ Finals(u) = {}
<1> DEFINE v == [t EXCEPT !.code = r]
<1>1. t \in TsxRecord /\ Finals(t) = {} /\ r \in Codes
  BY DEF TsxInv, Codes
<1>2. v \in TsxRecord
  BY <1>1, TsxFields
<1>3. /\ v.state = t.state /\ v.code = r /\ v.last = t.last /\ v.flight = t.flight /\ v.wire = t.wire
      /\ v.pend = t.pend /\ v.send = t.send /\ v.timeout = t.timeout
  BY <1>1 DEF TsxRecord
<1>4. PICK m \in SendMsg(v, r) : u = IF m.state = "TERMINATED" THEN m ELSE Answered(m, r)
  BY DEF Respond
<1> HIDE DEF v
<1>5. m \in TsxRecord /\ (Passed(v, r, m) \/ Broken(v, m))
  BY <1>2, Sending
<1>6. Final \cap (t.wire \cup {t.flight}) = {} /\ t.last \notin Final
  BY <1>1 DEF Finals
<1>7. CASE Broken(v, m)
  <2>1. u = m
    BY <1>4, <1>7 DEF Broken
  <2>2. Finals(u) = {}
    BY <1>1, <1>3, <1>7, <2>1 DEF Broken, Finals
  <2>3. u.state = "TERMINATED" /\ u.code = 503 /\ u.pend = "none" /\ u.last = t.last /\ (u.send => t.send)
    BY <1>3, <1>7, <2>1 DEF Broken
  <2> QED
    BY <1>5, <2>1, <2>2, <2>3 DEF TsxInv
<1>8. CASE Passed(v, r, m)
  <2>1. m.state = t.state /\ m.code = r /\ m.timeout = t.timeout
    BY <1>3, <1>8 DEF Passed
  <2>2. u = Answered(m, r)
    BY <1>4, <2>1
  <2> DEFINE to == IF r \in Final THEN "timeout" ELSE m.timeout
             st == IF r \in Final THEN "COMPLETED" ELSE "PROCEEDING"
             rt == r \in Final /\ m.pend = "none"
             rs == m.resched \/ (r > 100 /\ m.pend # "none")
  <2>3. u = [m EXCEPT !.last = r, !.state = st, !.timeout = to, !.retransmit = rt, !.resched = rs]
    BY <2>2 DEF Answered
  <2>4. r \in Messages /\ st \in TsxStates /\ to \in {"none", "timeout", "error"}
        /\ rt \in BOOLEAN /\ rs \in BOOLEAN
    BY <1>5 DEF Messages, Responses, TsxStates, TsxRecord
  <2>5. u \in TsxRecord
    <3> HIDE DEF to, st, rt, rs
    <3>1. [m EXCEPT !.last = r, !.state = st] \in TsxRecord
      BY <1>5, <2>4, TsxFields
    <3>2. [m EXCEPT !.last = r, !.state = st, !.timeout = to, !.retransmit = rt] \in TsxRecord
      BY <2>4, <3>1, TsxFields
    <3> QED
      BY <2>3, <2>4, <3>2, TsxFields
  <2>6. /\ u.last = r /\ u.state = st /\ u.timeout = to /\ u.code = r
        /\ u.flight = m.flight /\ u.wire = m.wire /\ u.pend = m.pend /\ u.send = m.send
    BY <1>5, <2>1, <2>3 DEF TsxRecord
  <2>7. Finals(u) = {r} \cap Final
    <3>1. u.wire \cup {u.flight} \subseteq t.wire \cup {t.flight, r}
      BY <1>3, <1>8, <2>6 DEF Passed
    <3> QED
      BY <1>6, <2>6, <3>1 DEF Finals
  <2>8. r # NoMessage /\ (r \in Final \/ r \in Provisional) /\ Final \cap Provisional = {}
    BY DEF Responses, Provisional, Final, NoMessage
  <2>9. u.pend # "none" => u.flight # NoMessage
    BY <1>3, <1>8, <2>6, <2>8 DEF Passed, TsxInv
  <2> QED
    BY <2>5, <2>6, <2>7, <2>8, <2>9 DEF TsxInv
<1> QED
  BY <1>5, <1>7, <1>8

\* pjsip_tsx_terminate behind a response.
LEMMA EndedIs ==
  ASSUME NEW t, TsxInv(t), t.state # "NULL"
  PROVE  /\ TsxInv(Ended(t)) /\ Ended(t).state = "TERMINATED" /\ Ended(t).code = t.code
         /\ Finals(Ended(t)) = Finals(t)
<1>1. CASE t.state = "TERMINATED"
  BY <1>1 DEF Ended
<1>2. CASE t.state # "TERMINATED"
  <2>1. Ended(t) = Terminated(t) /\ t \in TsxRecord
    BY <1>2 DEF Ended, TsxInv
  <2>2. Finals(Ended(t)) = Finals(t)
    BY <2>1, TerminatedIs DEF Finals
  <2> QED
    BY <2>1, <2>2, TerminatedIs DEF TsxInv
<1> QED
  BY <1>1, <1>2

\* What a repetition, the transport or a timer may do to a transaction: no final
\* response comes of it, and one that is answered ends with an error.
Quiet(t, u) ==
  /\ TsxInv(u) /\ Finals(u) \subseteq Finals(t)
  /\ \/ u.state = t.state /\ u.code = t.code
     \/ /\ u.state = "TERMINATED" /\ t.state \in {"PROCEEDING", "COMPLETED", "CONFIRMED"}
        /\ t.state # "CONFIRMED" => u.code \in {408, 503}
     \/ u.state = "DESTROYED" /\ t.state = "TERMINATED"

\* A response that is repeated.
LEMMA Repeated ==
  ASSUME NEW t, TsxInv(t), t.state \in {"PROCEEDING", "COMPLETED", "CONFIRMED"},
         t.last # NoMessage, NEW u \in SendMsg(t, t.last)
  PROVE  Quiet(t, u)
<1>1. t \in TsxRecord /\ t.last \in Responses
  BY DEF TsxInv, TsxRecord, Messages, Responses
<1>2. u \in TsxRecord /\ (Passed(t, t.last, u) \/ Broken(t, u))
  BY <1>1, Sending
<1>3. CASE Broken(t, u)
  <2>1. Finals(u) = Finals(t)
    BY <1>3 DEF Broken, Finals
  <2>2. TsxInv(u)
    BY <1>2, <1>3, <2>1 DEF Broken, TsxInv
  <2> QED
    BY <1>3, <2>1, <2>2 DEF Broken, Quiet
<1>4. CASE Passed(t, t.last, u)
  <2>1. Finals(u) \subseteq Finals(t)
    BY <1>4 DEF Passed, Finals
  <2>2. TsxInv(u)
    BY <1>2, <1>4, <2>1 DEF Passed, TsxInv
  <2> QED
    BY <1>4, <2>1, <2>2 DEF Passed, Quiet
<1> QED
  BY <1>2, <1>3, <1>4

\* Such moves add up.
LEMMA QuietTwice ==
  ASSUME NEW t, NEW u, NEW v, Quiet(t, u), u.state = t.state, u.code = t.code, Quiet(u, v)
  PROVE  Quiet(t, v)
BY DEF Quiet

\* The end of an answered transaction without an ACK or a way to send.
LEMMA TerminatedQuiet ==
  ASSUME NEW t, TsxInv(t), t.state \in {"PROCEEDING", "COMPLETED", "CONFIRMED"},
         NEW c \in {408, 503}
  PROVE  Quiet(t, Terminated([t EXCEPT !.code = c]))
<1> DEFINE v == [t EXCEPT !.code = c]
           u == Terminated(v)
<1>1. t \in TsxRecord /\ c \in Codes
  BY DEF TsxInv, Codes
<1>2. v \in TsxRecord
  BY <1>1, TsxFields, SMTT(30), ZenonT(60)
<1>3. v.code = c /\ v.last = t.last /\ v.flight = t.flight /\ v.wire = t.wire /\ v.pend = t.pend /\ v.send = t.send
  BY <1>1 DEF TsxRecord
<1> HIDE DEF v
<1>4. /\ u \in TsxRecord /\ u.state = "TERMINATED" /\ u.timeout = "timeout" /\ u.code = c
      /\ u.last = t.last /\ u.flight = t.flight /\ u.wire = t.wire /\ (u.send => t.send)
      /\ u.pend = IF t.pend = "none" THEN "none" ELSE "late"
  BY <1>2, <1>3, TerminatedIs
<1> HIDE DEF u
<1>5. Finals(u) = Finals(t)
  BY <1>4 DEF Finals
<1>6. TsxInv(u)
  BY <1>4, <1>5 DEF TsxInv
<1>7. Quiet(t, u)
  BY <1>4, <1>5, <1>6 DEF Quiet
<1> QED
  BY <1>7 DEF u, v

\* The end of transport_callback: only timers change.
LEMMA RescheduledQuiet ==
  ASSUME NEW t, TsxInv(t)
  PROVE  Quiet(t, Rescheduled(t))
<1> DEFINE rt == t.state = "COMPLETED"
           u == [t EXCEPT !.resched = FALSE, !.retransmit = rt]
<1>1. t \in TsxRecord /\ rt \in BOOLEAN
  BY DEF TsxInv
<1>2. u \in TsxRecord
  <2> HIDE DEF rt
  <2> QED
    BY <1>1, TsxFields
<1>3. /\ u.state = t.state /\ u.code = t.code /\ u.last = t.last /\ u.flight = t.flight
      /\ u.wire = t.wire /\ u.pend = t.pend /\ u.send = t.send /\ u.timeout = t.timeout
  BY <1>1 DEF TsxRecord
<1>4. Rescheduled(t) \in {t, u}
  BY DEF Rescheduled
<1> HIDE DEF u
<1>5. Finals(u) = Finals(t)
  BY <1>3 DEF Finals
<1>6. TsxInv(u)
  BY <1>2, <1>3, <1>5 DEF TsxInv
<1> QED
  BY <1>3, <1>4, <1>5, <1>6 DEF Quiet

\* The kept message has left.
LEMMA SentQuiet ==
  ASSUME NEW t, TsxInv(t), t.state \notin {"NULL", "TRYING"}, t.pend # "none",
         NEW u \in (IF t.pend = "late" THEN {SentLate(t)} ELSE SendDone(t))
  PROVE  Quiet(t, u)
<1>1. t \in TsxRecord /\ t.flight \in Responses /\ t.wire \in SUBSET Responses
  BY DEF TsxInv, TsxRecord, Messages, Responses
<1>2. CASE t.pend = "late"
  <2> DEFINE w == t.wire \cup {t.flight} \cup (IF t.send THEN {t.last} ELSE {})
  <2>1. u = [t EXCEPT !.wire = w, !.flight = NoMessage, !.pend = "none", !.send = FALSE]
    BY <1>2 DEF SentLate
  <2>2. w \in SUBSET Responses
    BY <1>1 DEF TsxInv, TsxRecord, Messages, Responses
  <2>3. u \in TsxRecord
    <3> HIDE DEF w
    <3>1. NoMessage \in Messages
      BY DEF Messages
    <3>2. [t EXCEPT !.wire = w, !.flight = NoMessage] \in TsxRecord
      BY <1>1, <2>2, <3>1, TsxFields
    <3> QED
      BY <2>1, <3>2, TsxFields
  <2>4. /\ u.state = t.state /\ u.code = t.code /\ u.last = t.last /\ u.flight = NoMessage
        /\ u.wire = w /\ u.pend = "none" /\ u.send = FALSE /\ u.timeout = t.timeout
    BY <1>1, <2>1 DEF TsxRecord
  <2>5. Finals(u) \subseteq Finals(t)
    BY <2>4 DEF Finals, NoMessage, Final
  <2>6. TsxInv(u)
    BY <2>3, <2>4, <2>5 DEF TsxInv
  <2> QED
    BY <2>4, <2>5, <2>6 DEF Quiet
<1>3. CASE t.pend # "late"
  <2> DEFINE w == t.wire \cup {t.flight}
             m == [t EXCEPT !.wire = w, !.flight = NoMessage, !.pend = "none", !.send = FALSE]
  <2>1. PICK v \in (IF t.send THEN SendMsg(m, m.last) ELSE {m}) : u = Rescheduled(v)
    BY <1>3 DEF SendDone
  <2>2. w \in SUBSET Responses
    BY <1>1
  <2>3. m \in TsxRecord
    <3> HIDE DEF w
    <3>1. NoMessage \in Messages
      BY DEF Messages
    <3>2. [t EXCEPT !.wire = w, !.flight = NoMessage] \in TsxRecord
      BY <1>1, <2>2, <3>1, TsxFields
    <3> QED
      BY <3>2, TsxFields
  <2>4. /\ m.state = t.state /\ m.code = t.code /\ m.last = t.last /\ m.flight = NoMessage
        /\ m.wire = w /\ m.pend = "none" /\ m.send = FALSE /\ m.timeout = t.timeout
    BY <1>1 DEF TsxRecord
  <2> HIDE DEF m
  <2>5. Finals(m) \subseteq Finals(t)
    BY <2>4 DEF Finals, NoMessage, Final
  <2>6. Quiet(t, m)
    BY <2>3, <2>4, <2>5 DEF TsxInv, Quiet
  <2>7. t.state \in {"PROCEEDING", "COMPLETED", "CONFIRMED"}
    BY <1>1, <1>3 DEF TsxInv, TsxRecord, TsxStates
  <2>8. CASE t.send
    <3>1. Quiet(m, v)
      BY <2>1, <2>4, <2>6, <2>7, <2>8, Repeated DEF Quiet, TsxInv
    <3>2. Quiet(t, v)
      BY <2>4, <2>6, <3>1, QuietTwice
    <3>3. Quiet(v, u) /\ u.state = v.state /\ u.code = v.code
      <4>1. TsxInv(v) /\ v \in TsxRecord
        BY <3>1 DEF Quiet, TsxInv
      <4>2. u.state = v.state /\ u.code = v.code
        BY <2>1, <4>1 DEF Rescheduled, TsxRecord
      <4> QED
        BY <2>1, <4>1, <4>2, RescheduledQuiet
    <3> QED
      BY <3>2, <3>3 DEF Quiet
  <2>9. CASE ~t.send
    <3>1. v = m /\ Quiet(m, u)
      BY <2>1, <2>6, <2>9, RescheduledQuiet DEF Quiet
    <3> QED
      BY <2>4, <2>6, <3>1, QuietTwice
  <2> QED
    BY <2>8, <2>9
<1> QED
  BY <1>2, <1>3

\* The kept message cannot be sent.
LEMMA NotSentQuiet ==
  ASSUME NEW t, TsxInv(t), t.state \notin {"NULL", "TRYING"}, t.pend # "none", NEW u,
         u = IF t.pend = "late" THEN [t EXCEPT !.pend = "none", !.flight = NoMessage, !.send = FALSE]
             ELSE SendFailed(t)
  PROVE  Quiet(t, u)
<1>1. t \in TsxRecord /\ NoMessage \in Messages
  BY DEF TsxInv, Messages
<1>2. CASE t.pend = "late"
  <2>1. u = [t EXCEPT !.pend = "none", !.flight = NoMessage, !.send = FALSE]
    BY <1>2
  <2>2. u \in TsxRecord
    <3>1. [t EXCEPT !.pend = "none", !.flight = NoMessage] \in TsxRecord
      BY <1>1, TsxFields
    <3> QED
      BY <2>1, <3>1, TsxFields
  <2>3. /\ u.state = t.state /\ u.code = t.code /\ u.last = t.last /\ u.flight = NoMessage
        /\ u.wire = t.wire /\ u.pend = "none" /\ u.send = FALSE /\ u.timeout = t.timeout
    BY <1>1, <2>1 DEF TsxRecord
  <2>4. Finals(u) \subseteq Finals(t)
    BY <2>3 DEF Finals, NoMessage, Final
  <2>5. TsxInv(u)
    BY <2>2, <2>3, <2>4 DEF TsxInv
  <2> QED
    BY <2>3, <2>4, <2>5 DEF Quiet
<1>3. CASE t.pend # "late"
  <2> DEFINE m == [t EXCEPT !.flight = NoMessage, !.pend = "none"]
  <2>1. m \in TsxRecord
    <3>1. [t EXCEPT !.flight = NoMessage] \in TsxRecord
      BY <1>1, TsxFields
    <3> QED
      BY <3>1, TsxFields
  <2>2. /\ m.state = t.state /\ m.code = t.code /\ m.last = t.last /\ m.flight = NoMessage
        /\ m.wire = t.wire /\ m.pend = "none" /\ m.send = t.send /\ m.timeout = t.timeout
    BY <1>1 DEF TsxRecord
  <2>3. \/ t.pend = "resolve" /\ u = Terminated([m EXCEPT !.code = 503])
        \/ t.state = "PROCEEDING" /\ u = [m EXCEPT !.timeout = "error"]
        \/ u = m
    BY <1>3 DEF SendFailed
  <2> HIDE DEF m
  <2>4. Finals(m) \subseteq Finals(t)
    BY <2>2 DEF Finals, NoMessage, Final
  <2>5. Quiet(t, m)
    BY <2>1, <2>2, <2>4 DEF TsxInv, Quiet
  <2>6. t.state \in {"PROCEEDING", "COMPLETED", "CONFIRMED"}
    BY <1>1, <1>3 DEF TsxInv, TsxRecord, TsxStates
  <2>7. CASE u = Terminated([m EXCEPT !.code = 503])
    <3>1. Quiet(m, u)
      <4>1. TsxInv(m) /\ m.state \in {"PROCEEDING", "COMPLETED", "CONFIRMED"}
        BY <2>2, <2>5, <2>6 DEF Quiet
      <4>2. PICK c \in {408, 503} : c = 503
        OBVIOUS
      <4>3. u = Terminated([m EXCEPT !.code = c])
        BY <2>7, <4>2
      <4>4. Quiet(m, Terminated([m EXCEPT !.code = c]))
        BY <4>1, <4>2, TerminatedQuiet, SMTT(30), ZenonT(60)
      <4> QED
        BY <4>3, <4>4
    <3> QED
      BY <2>2, <2>5, <3>1, QuietTwice
  <2>8. CASE t.state = "PROCEEDING" /\ u = [m EXCEPT !.timeout = "error"]
    <3>1. u \in TsxRecord
      BY <2>1, <2>8, TsxFields
    <3>2. /\ u.state = m.state /\ u.code = m.code /\ u.last = m.last /\ u.flight = m.flight
          /\ u.wire = m.wire /\ u.pend = m.pend /\ u.send = m.send
      BY <2>1, <2>8 DEF TsxRecord
    <3>3. Finals(u) = Finals(m)
      BY <3>2 DEF Finals
    <3>4. TsxInv(u)
      BY <2>2, <2>5, <2>8, <3>1, <3>2, <3>3, ZenonT(60) DEF Quiet, TsxInv
    <3> QED
      BY <2>2, <2>4, <3>2, <3>3, <3>4 DEF Quiet
  <2> QED
    BY <2>3, <2>5, <2>7, <2>8
<1> QED
  BY <1>2, <1>3

\* tsx_timer_callback, the timeout timer.
LEMMA TimedOutQuiet ==
  ASSUME NEW t, TsxInv(t), t.state \notin {"NULL", "TRYING"}, t.timeout # "none"
  PROVE  Quiet(t, TimedOut(t))
<1>1. t \in TsxRecord /\ NoMessage \in Messages /\ t.state # "DESTROYED"
  BY DEF TsxInv, Messages
<1>2. CASE t.state = "TERMINATED"
  <2> DEFINE u == [t EXCEPT !.state = "DESTROYED", !.last = NoMessage, !.send = FALSE, !.resched = FALSE,
                            !.timeout = "none"]
  <2>1. TimedOut(t) = u
    BY <1>2 DEF TimedOut, Destroyed
  <2>2. u \in TsxRecord
    <3>1. "DESTROYED" \in TsxStates
      BY DEF TsxStates
    <3>2. [t EXCEPT !.state = "DESTROYED", !.last = NoMessage] \in TsxRecord
      BY <1>1, <3>1, TsxFields
    <3>3. [t EXCEPT !.state = "DESTROYED", !.last = NoMessage, !.send = FALSE, !.resched = FALSE] \in TsxRecord
      BY <3>2, TsxFields
    <3> QED
      BY <3>3, TsxFields
  <2>3. /\ u.state = "DESTROYED" /\ u.last = NoMessage /\ u.flight = t.flight
        /\ u.wire = t.wire /\ u.pend = t.pend /\ u.send = FALSE /\ u.timeout = "none"
    BY <1>1 DEF TsxRecord
  <2> HIDE DEF u
  <2>4. Finals(u) \subseteq Finals(t)
    BY <2>3 DEF Finals, NoMessage, Final
  <2>5. TsxInv(u)
    BY <1>2, <2>2, <2>3, <2>4 DEF TsxInv
  <2> QED
    BY <1>2, <2>1, <2>3, <2>4, <2>5 DEF Quiet
<1>3. CASE t.state = "COMPLETED"
  BY <1>3, TerminatedQuiet, SMTT(30), ZenonT(60) DEF TimedOut, NoAckCame
<1>4. CASE t.state = "CONFIRMED"
  <2> DEFINE u == Terminated(t)
  <2>1. TimedOut(t) = u
    BY <1>4 DEF TimedOut
  <2>2. /\ u \in TsxRecord /\ u.state = "TERMINATED" /\ u.timeout = "timeout"
        /\ u.last = t.last /\ u.flight = t.flight /\ u.wire = t.wire /\ (u.send => t.send)
        /\ u.pend = IF t.pend = "none" THEN "none" ELSE "late"
    BY <1>1, TerminatedIs
  <2> HIDE DEF u
  <2>3. Finals(u) = Finals(t)
    BY <2>2 DEF Finals
  <2>4. TsxInv(u)
    BY <2>2, <2>3 DEF TsxInv
  <2> QED
    BY <1>4, <2>1, <2>2, <2>3, <2>4 DEF Quiet
<1>5. CASE t.state = "PROCEEDING"
  <2>1. t.code \in {100, 180}
    BY <1>5 DEF TsxInv, Provisional
  <2>2. TimedOut(t) = Terminated([t EXCEPT !.code = 503])
    BY <1>5, <2>1 DEF TimedOut
  <2> QED
    BY <1>5, <2>2, TerminatedQuiet, SMTT(30), ZenonT(60)
<1> QED
  BY <1>1, <1>2, <1>3, <1>4, <1>5 DEF TsxRecord, TsxStates

-----------------------------------------------------------------------------
(* The session *)

\* A session of which one field changes is still one.
LEMMA SesFields ==
  ASSUME NEW s \in SesRecord
  PROVE  /\ \A x \in SesStates : [s EXCEPT !.state = x] \in SesRecord
         /\ \A x \in Causes : [s EXCEPT !.cause = x] \in SesRecord
         /\ \A x \in BOOLEAN : [s EXCEPT !.invite = x] \in SesRecord
         /\ \A x \in BOOLEAN : [s EXCEPT !.sdp_done = x] \in SesRecord
         /\ \A x \in BOOLEAN : [s EXCEPT !.pending_bye = x] \in SesRecord
         /\ \A x \in {"none", "calling", "sent"} : [s EXCEPT !.bye = x] \in SesRecord
         /\ \A x \in BOOLEAN : [s EXCEPT !.hanging = x] \in SesRecord
<1>1. \A x \in SesStates : [s EXCEPT !.state = x] \in SesRecord
  BY DEF SesRecord
<1>2. \A x \in Causes : [s EXCEPT !.cause = x] \in SesRecord
  BY DEF SesRecord
<1>3. \A x \in BOOLEAN : [s EXCEPT !.invite = x] \in SesRecord
  BY DEF SesRecord
<1>4. \A x \in BOOLEAN : [s EXCEPT !.sdp_done = x] \in SesRecord
  BY DEF SesRecord
<1>5. \A x \in BOOLEAN : [s EXCEPT !.pending_bye = x] \in SesRecord
  BY DEF SesRecord
<1>6. \A x \in {"none", "calling", "sent"} : [s EXCEPT !.bye = x] \in SesRecord
  BY DEF SesRecord
<1>7. \A x \in BOOLEAN : [s EXCEPT !.hanging = x] \in SesRecord
  BY DEF SesRecord
<1> QED
  BY <1>1, <1>2, <1>3, <1>4, <1>5, <1>6, <1>7

\* inv_set_cause
LEMMA SetCauseIs ==
  ASSUME NEW s \in SesRecord, NEW code \in Causes
  PROVE  /\ SetCause(s, code) \in SesRecord
         /\ SetCause(s, code).cause = IF code > s.cause \/ s.pending_bye THEN code ELSE s.cause
         /\ SetCause(s, code).state = s.state /\ SetCause(s, code).invite = s.invite
         /\ SetCause(s, code).sdp_done = s.sdp_done
         /\ SetCause(s, code).pending_bye = s.pending_bye
         /\ SetCause(s, code).bye = s.bye /\ SetCause(s, code).hanging = s.hanging
<1>1. CASE code > s.cause \/ s.pending_bye
  <2> DEFINE u == [s EXCEPT !.cause = code]
  <2>1. SetCause(s, code) = u
    BY <1>1 DEF SetCause
  <2>2. u \in SesRecord
    BY SesFields
  <2>3. /\ u.cause = code /\ u.state = s.state /\ u.invite = s.invite /\ u.sdp_done = s.sdp_done
        /\ u.pending_bye = s.pending_bye /\ u.bye = s.bye /\ u.hanging = s.hanging
    BY DEF SesRecord
  <2> QED
    BY <1>1, <2>1, <2>2, <2>3
<1>2. CASE ~(code > s.cause \/ s.pending_bye)
  BY <1>2 DEF SetCause
<1> QED
  BY <1>1, <1>2

\* A session that is over.
OverSession(s, u) ==
  /\ u \in SesRecord /\ u.state = "DISCONNECTED" /\ ~u.pending_bye
  /\ u.bye = s.bye /\ u.invite = s.invite /\ u.hanging = s.hanging

LEMMA DisconnectedIs ==
  ASSUME NEW s \in SesRecord, NEW code \in Causes
  PROVE  OverSession(s, Disconnected(s, code))
<1> DEFINE v == SetCause(s, code)
           u == [v EXCEPT !.state = "DISCONNECTED", !.pending_bye = FALSE]
<1>1. /\ v \in SesRecord /\ v.invite = s.invite /\ v.bye = s.bye /\ v.hanging = s.hanging
  BY SetCauseIs
<1>2. Disconnected(s, code) = u
  BY DEF Disconnected
<1> HIDE DEF v
<1>3. u \in SesRecord
  <2>1. "DISCONNECTED" \in SesStates
    BY DEF SesStates
  <2> QED
    BY <1>1, <2>1, SesFields
<1>4. u.state = "DISCONNECTED" /\ ~u.pending_bye /\ u.bye = v.bye /\ u.invite = v.invite /\ u.hanging = v.hanging
  BY <1>1 DEF SesRecord
<1> HIDE DEF u
<1> QED
  BY <1>1, <1>2, <1>3, <1>4 DEF OverSession

\* A session with a BYE on its way.
WithBye(s, u) ==
  /\ u \in SesRecord /\ u.bye # "none" /\ u.state = s.state /\ u.invite = s.invite
  /\ u.cause = s.cause /\ u.hanging = s.hanging /\ u.pending_bye = s.pending_bye
  /\ u.sdp_done = s.sdp_done

\* The BYE is on its way, or has ended the session at once.
LEMMA ByeTransactionIs ==
  ASSUME NEW s \in SesRecord, NEW u \in ByeTransaction(s)
  PROVE  WithBye(s, u) \/ OverSession(s, u)
<1>1. \/ \E b \in {"none", "calling", "sent"} : b # "none" /\ u = [s EXCEPT !.bye = b]
      \/ u = Disconnected(s, 200)
  <2>1. \/ u = [s EXCEPT !.bye = "sent"]
        \/ u = [s EXCEPT !.bye = IF @ = "none" THEN "calling" ELSE @]
        \/ u = Disconnected(s, 200)
    BY DEF ByeTransaction
  <2>2. s.bye \in {"none", "calling", "sent"}
    BY DEF SesRecord
  <2> QED
    BY <2>1, <2>2
<1>2. ASSUME NEW b \in {"none", "calling", "sent"}, b # "none", u = [s EXCEPT !.bye = b]
      PROVE  WithBye(s, u)
  <2>1. u \in SesRecord
    BY <1>2, SesFields
  <2> QED
    BY <1>2, <2>1 DEF WithBye, SesRecord
<1>3. CASE u = Disconnected(s, 200)
  <2>1. 200 \in Causes
    BY DEF Causes, Final
  <2> QED
    BY <1>3, <2>1, DisconnectedIs
<1> QED
  BY <1>1, <1>2, <1>3

\* pjsip_inv_send_msg with a BYE: before the ACK it waits, unless no ACK will come.
LEMMA SendByeIs ==
  ASSUME NEW s \in SesRecord, NEW u \in SendBye(s)
  PROVE  IF s.state = "CONNECTING" /\ s.cause \notin {408, 503}
         THEN /\ u \in SesRecord /\ u.pending_bye
              /\ u.state = s.state /\ u.invite = s.invite /\ u.cause = s.cause
              /\ u.bye = s.bye /\ u.hanging = s.hanging /\ u.sdp_done = s.sdp_done
         ELSE WithBye(s, u) \/ OverSession(s, u)
<1>1. CASE s.state = "CONNECTING" /\ s.cause \notin {408, 503}
  <2>1. u = [s EXCEPT !.pending_bye = TRUE]
    BY <1>1 DEF SendBye
  <2>2. u \in SesRecord
    BY <2>1, SesFields
  <2>3. /\ u.pending_bye /\ u.state = s.state /\ u.invite = s.invite /\ u.cause = s.cause
        /\ u.bye = s.bye /\ u.hanging = s.hanging /\ u.sdp_done = s.sdp_done
    BY <2>1 DEF SesRecord
  <2> QED
    BY <1>1, <2>2, <2>3
<1>2. CASE ~(s.state = "CONNECTING" /\ s.cause \notin {408, 503})
  <2>1. u \in ByeTransaction(s)
    BY <1>2 DEF SendBye
  <2>2. WithBye(s, u) \/ OverSession(s, u)
    BY <2>1, ByeTransactionIs
  <2> QED
    BY <1>2, <2>2
<1> QED
  BY <1>1, <1>2

\* The ACK of an answered call: the session is confirmed, and hung up again if it
\* was hung up before; one whose offer was never answered stays as it is.
LEMMA ConfirmedIs ==
  ASSUME NEW s \in SesRecord, s.state = "CONNECTING", s.bye = "none", s.cause \in {0, 200, 500},
         s.pending_bye \/ s.cause = 0, s.pending_bye <=> s.hanging,
         NEW u \in PerformPendingBye(SetConfirmed(s))
  PROVE  /\ u \in SesRecord /\ u.invite = s.invite
         /\ IF s.invite /\ ~s.sdp_done
            THEN /\ u.state = "CONNECTING" /\ u.bye = "none" /\ u.cause \notin {408, 503}
                 /\ u.hanging = s.hanging
            ELSE \/ /\ u.state = "CONFIRMED" /\ u.hanging = s.hanging /\ u.sdp_done = s.sdp_done
                    /\ u.bye = "none" <=> ~s.hanging
                 \/ u.state = "DISCONNECTED"
<1>1. PICK w \in SetConfirmed(s) :
        u \in IF w.pending_bye THEN SendBye([w EXCEPT !.pending_bye = FALSE]) ELSE {w}
  BY DEF PerformPendingBye
<1> DEFINE x == [w EXCEPT !.pending_bye = FALSE]
<1>2. ASSUME w \in SesRecord
      PROVE  /\ x \in SesRecord /\ ~x.pending_bye /\ x.state = w.state /\ x.invite = w.invite
             /\ x.cause = w.cause /\ x.bye = w.bye /\ x.hanging = w.hanging /\ x.sdp_done = w.sdp_done
  <2>1. x \in SesRecord
    BY <1>2, SesFields, SMTT(30), ZenonT(60)
  <2> QED
    BY <1>2, <2>1 DEF SesRecord
<1>3. u \in SendBye(x) \/ u = w
  BY <1>1
<1> HIDE DEF x
<1>4. CASE s.invite /\ ~s.sdp_done
  <2> DEFINE v == SetCause(s, 406)
  <2>1. w \in SendBye(v)
    BY <1>4 DEF SetConfirmed, EndSession
  <2>2. 406 \in Causes
    BY DEF Causes
  <2>3. /\ v \in SesRecord /\ v.cause = 406 /\ v.state = "CONNECTING" /\ v.invite = s.invite
        /\ v.bye = "none" /\ v.hanging = s.hanging
    BY <2>2, SetCauseIs
  <2> HIDE DEF v
  <2>4. /\ w \in SesRecord /\ w.pending_bye /\ w.state = "CONNECTING" /\ w.invite = s.invite
        /\ w.cause = 406 /\ w.bye = "none" /\ w.hanging = s.hanging
    BY <2>1, <2>3, SendByeIs
  <2>5. u \in SendBye(x)
    BY <1>1, <2>4 DEF x
  <2>6. /\ u \in SesRecord /\ u.state = "CONNECTING" /\ u.invite = s.invite
        /\ u.cause = 406 /\ u.bye = "none" /\ u.hanging = s.hanging
    BY <1>2, <2>4, <2>5, SendByeIs
  <2> QED
    BY <1>4, <2>6
<1>5. CASE ~(s.invite /\ ~s.sdp_done)
  <2> DEFINE y == [s EXCEPT !.state = "CONFIRMED"]
             v == SetCause(y, 200)
  <2>1. /\ y \in SesRecord /\ y.state = "CONFIRMED" /\ y.invite = s.invite /\ y.bye = "none"
        /\ y.hanging = s.hanging /\ y.sdp_done = s.sdp_done /\ y.pending_bye = s.pending_bye
    <3>1. "CONFIRMED" \in SesStates
      BY DEF SesStates
    <3>2. y \in SesRecord
      BY <3>1, SesFields, SMTT(30), ZenonT(60)
    <3> QED
      BY <3>2 DEF SesRecord
  <2>2. IF s.hanging THEN w \in SendBye(v) ELSE w = y
    BY <1>5 DEF SetConfirmed, EndSession
  <2> HIDE DEF y
  <2>3. CASE ~s.hanging
    <3>1. w = y /\ ~y.pending_bye
      BY <2>1, <2>2, <2>3
    <3>2. u = y
      BY <1>1, <3>1
    <3> QED
      BY <1>5, <2>1, <2>3, <3>2
  <2>4. CASE s.hanging
    <3>1. 200 \in Causes
      BY DEF Causes, Final
    <3>2. /\ v \in SesRecord /\ v.state = "CONFIRMED" /\ v.invite = s.invite /\ v.bye = "none"
          /\ v.hanging = s.hanging /\ v.sdp_done = s.sdp_done
      BY <2>1, <3>1, SetCauseIs
    <3> HIDE DEF v
    <3>3. WithBye(v, w) \/ OverSession(v, w)
      BY <2>2, <2>4, <3>2, SendByeIs
    <3>4. CASE u = w
      <4>1. CASE WithBye(v, w)
        <5>1. /\ w \in SesRecord /\ w.state = "CONFIRMED" /\ w.invite = s.invite /\ w.bye # "none"
              /\ w.hanging = s.hanging /\ w.sdp_done = s.sdp_done
          BY <3>2, <4>1 DEF WithBye
        <5> QED
          BY <1>5, <2>4, <3>4, <5>1
      <4>2. CASE OverSession(v, w)
        <5>1. w \in SesRecord /\ w.state = "DISCONNECTED" /\ w.invite = s.invite
          BY <3>2, <4>2 DEF OverSession
        <5> QED
          BY <1>5, <3>4, <5>1
      <4> QED
        BY <3>3, <4>1, <4>2
    <3>5. CASE u # w
      <4>1. w.pending_bye /\ u \in SendBye(x)
        BY <1>1, <1>3, <3>5
      <4>2. WithBye(v, w)
        BY <3>3, <4>1 DEF OverSession
      <4>3. /\ x \in SesRecord /\ x.state = "CONFIRMED" /\ x.bye # "none" /\ x.invite = s.invite
            /\ x.hanging = s.hanging /\ x.sdp_done = s.sdp_done
        BY <1>2, <3>2, <4>2 DEF WithBye
      <4>4. WithBye(x, u) \/ OverSession(x, u)
        BY <4>1, <4>3, SendByeIs
      <4>5. CASE WithBye(x, u)
        <5>1. /\ u \in SesRecord /\ u.state = "CONFIRMED" /\ u.invite = s.invite /\ u.bye # "none"
              /\ u.hanging = s.hanging /\ u.sdp_done = s.sdp_done
          BY <4>3, <4>5 DEF WithBye
        <5> QED
          BY <1>5, <2>4, <5>1
      <4>6. CASE OverSession(x, u)
        <5>1. u \in SesRecord /\ u.state = "DISCONNECTED" /\ u.invite = s.invite
          BY <4>3, <4>6 DEF OverSession
        <5> QED
          BY <1>5, <5>1
      <4> QED
        BY <4>4, <4>5, <4>6
    <3> QED
      BY <3>4, <3>5
  <2> QED
    BY <2>3, <2>4
<1> QED
  BY <1>4, <1>5

\* What a session and its slot may do in one step, and only then: stay, end, be
\* offered, ring, be answered, be hung up, be acknowledged, or get its BYE for want
\* of an ACK.
SlotMoves(s, u) ==
  \/ u.state = s.state /\ u.hanging = s.hanging /\ (u.bye = "none" <=> s.bye = "none")
  \/ u.state = "DISCONNECTED"
  \/ s.state = "NULL" /\ u.state = "INCOMING"
  \/ s.state = "INCOMING" /\ u.state = "EARLY"
  \/ s.state = "EARLY" /\ u.state = "CONNECTING" /\ ~u.hanging /\ u.bye = "none"
  \/ /\ s.state \in {"CONNECTING", "CONFIRMED"} /\ u.state = s.state /\ ~s.hanging /\ u.hanging
     /\ u.bye = "none" <=> s.bye = "none" /\ s.state # "CONFIRMED"
  \/ /\ s.state = "CONNECTING" /\ s.bye = "none" /\ u.state = "CONFIRMED" /\ u.hanging = s.hanging
     /\ u.bye = "none" <=> ~s.hanging
  \/ /\ s.state = "CONNECTING" /\ s.bye = "none" /\ u.state = "CONNECTING" /\ u.bye # "none"
     /\ u.hanging = s.hanging

\* What the steps have to show of the session: it follows the transaction, and its
\* slot follows CallSlot.  An offer that has its answer keeps it.
Follows(t, s, u) ==
  /\ SesInv(t, u) /\ SlotMoves(s, u)
  /\ u.state = s.state => (s.sdp_done => u.sdp_done)
  /\ s.state = "CONNECTING" /\ u.state = "CONFIRMED" => (s.sdp_done => u.sdp_done)

\* A call that waits for its ACK has the transaction to wait for it.
Waits(t, s) == s.state = "CONNECTING" /\ s.bye = "none" => t.state = "COMPLETED"

\* A session that ends may do so with any transaction that is no longer waiting for
\* an answer.
LEMMA OverFollows ==
  ASSUME NEW t, TsxInv(t), NEW s, NEW u, u \in SesRecord, u.state = "DISCONNECTED",
         s.state # "DISCONNECTED",
         t.state \in {"COMPLETED", "CONFIRMED", "TERMINATED", "DESTROYED"},
         u.invite => t.state = "COMPLETED",
         u.bye # "none" => t.state \in Over /\ Finals(t) \subseteq {200}
  PROVE  Follows(t, s, u)
BY DEF Follows, SesInv, SlotMoves, Over

\* The end of mod_inv_on_tsx_state: the session lets go of a transaction that is over.
LEMMA LetGo ==
  ASSUME NEW t, NEW s, s.invite, NEW u \in OnTsxState(s, t)
  PROVE  \E w \in (CASE s.state = "NULL" -> OnStateNull(s, t)
                     [] s.state \in {"INCOMING", "EARLY"} -> OnStateEarly(s, t)
                     [] s.state = "CONNECTING" -> OnStateConnecting(s, t)
                     [] OTHER -> {s}) :
            u = [w EXCEPT !.invite = t.state \notin {"CONFIRMED", "TERMINATED"}]
BY DEF OnTsxState

LEMMA LetGoFields ==
  ASSUME NEW w \in SesRecord, NEW b \in BOOLEAN, NEW u, u = [w EXCEPT !.invite = b]
  PROVE  /\ u \in SesRecord /\ u.invite = b /\ u.state = w.state /\ u.cause = w.cause
         /\ u.sdp_done = w.sdp_done /\ u.pending_bye = w.pending_bye /\ u.bye = w.bye
         /\ u.hanging = w.hanging
<1>1. u \in SesRecord
  BY SesFields
<1> QED
  BY <1>1 DEF SesRecord

\* An answer that fails, or a failure that is answered, ends a session before it is up.
LEMMA EarlyEnds ==
  ASSUME NEW t, TsxInv(t), NEW s \in SesRecord, s.invite, s.bye = "none",
         s.state \in {"NULL", "INCOMING", "EARLY"},
         t.code \in Causes,
         t.state = "TERMINATED" \/ (t.state = "COMPLETED" /\ t.code # 200 /\ s.state # "NULL"),
         NEW u \in OnTsxState(s, t)
  PROVE  /\ u \in SesRecord /\ u.state = "DISCONNECTED" /\ u.bye = "none"
         /\ u.invite => t.state = "COMPLETED"
         /\ Follows(t, s, u)
<1> DEFINE b == t.state \notin {"CONFIRMED", "TERMINATED"}
<1>1. PICK w \in (CASE s.state = "NULL" -> OnStateNull(s, t)
                    [] s.state \in {"INCOMING", "EARLY"} -> OnStateEarly(s, t)
                    [] s.state = "CONNECTING" -> OnStateConnecting(s, t)
                    [] OTHER -> {s}) :
            u = [w EXCEPT !.invite = b]
  BY LetGo
<1>2. w = Disconnected(s, t.code)
  BY <1>1 DEF OnStateNull, OnStateEarly
<1>3. OverSession(s, w)
  BY <1>2, DisconnectedIs
<1>4. u \in SesRecord /\ u.state = "DISCONNECTED" /\ u.bye = "none" /\ u.invite = b
  <2>1. b \in BOOLEAN /\ w \in SesRecord /\ w.state = "DISCONNECTED" /\ w.bye = "none"
    BY <1>3 DEF OverSession
  <2> HIDE DEF b
  <2> QED
    BY <1>1, <2>1, LetGoFields
<1>5. u.invite => t.state = "COMPLETED"
  BY <1>4
<1>6. Follows(t, s, u)
  BY <1>4, <1>5, OverFollows
<1> QED
  BY <1>4, <1>5, <1>6

\* A transaction that is repeated, sent or timed out, and the session that hears of it
\* if its state changes.
LEMMA NotifiedFollows ==
  ASSUME NEW t, NEW v, NEW s, NEW u, TsxInv(t), SesInv(t, s), Quiet(t, v),
         t.state \notin {"NULL", "TRYING"}, s.state # "INCOMING",
         IF v.state = t.state THEN u = s ELSE u \in OnTsxState(s, v)
  PROVE  Follows(v, s, u) /\ (Waits(t, s) => Waits(v, u))
<1> DEFINE b == v.state \notin {"CONFIRMED", "TERMINATED"}
<1>1. s \in SesRecord /\ t \in TsxRecord /\ v \in TsxRecord /\ TsxInv(v)
  BY DEF SesInv, TsxInv, Quiet
<1>2. CASE v.state = t.state
  <2>1. v.code = t.code /\ u = s /\ Finals(v) \subseteq Finals(t)
    BY <1>2 DEF Quiet
  <2>2. SesInv(v, s)
    BY <1>2, <2>1 DEF SesInv
  <2> QED
    BY <1>2, <2>1, <2>2 DEF Follows, SlotMoves, Waits
<1>3. CASE v.state # t.state /\ ~s.invite
  <2>1. u = s /\ Finals(v) \subseteq Finals(t)
    BY <1>3 DEF OnTsxState, Quiet
  <2>2. t.state \in {"COMPLETED", "CONFIRMED", "TERMINATED"} /\ v.state \in {"TERMINATED", "DESTROYED"}
    BY <1>3 DEF Quiet, SesInv
  <2>3. SesInv(v, s) /\ (s.state = "CONNECTING" => t.state # "COMPLETED")
    BY <1>3, <2>1, <2>2 DEF SesInv, Over
  <2>4. Waits(t, s) => Waits(v, u)
    BY <2>1, <2>3 DEF Waits
  <2> QED
    BY <2>1, <2>3, <2>4 DEF Follows, SlotMoves
<1>4. CASE v.state # t.state /\ s.invite
  <2>1. v.state = "TERMINATED" /\ v.code \in {408, 503} /\ t.state \in {"PROCEEDING", "COMPLETED"}
        /\ Finals(v) \subseteq Finals(t) /\ v.code \in Causes
    BY <1>4 DEF Quiet, SesInv, Causes
  <2>2. CASE t.state = "PROCEEDING"
    <3>1. s.state = "EARLY" /\ s.bye = "none"
      BY <2>2 DEF SesInv
    <3> QED
      BY <1>1, <1>4, <2>1, <3>1, EarlyEnds DEF Waits
  <2>3. CASE t.state = "COMPLETED"
    <3>1. s.state \in {"CONNECTING", "DISCONNECTED"} /\ s.bye = "none"
      BY <1>1, <2>3 DEF SesInv, SesRecord, SesStates, Over
    <3>2. PICK w \in (IF s.state = "CONNECTING" THEN OnStateConnecting(s, v) ELSE {s}) :
            u = [w EXCEPT !.invite = b]
      BY <1>4, <2>1, <3>1, LetGo
    <3> b \in BOOLEAN /\ ~b
      BY <2>1
    <3> HIDE DEF b
    <3>3. CASE s.state = "DISCONNECTED"
      <4>1. w = s
        BY <3>2, <3>3
      <4>2. u \in SesRecord /\ ~u.invite /\ u.state = "DISCONNECTED" /\ u.bye = "none" /\ u.hanging = s.hanging
            /\ u.sdp_done = s.sdp_done
        BY <1>1, <3>1, <3>2, <3>3, <4>1, LetGoFields
      <4>3. SesInv(v, u)
        BY <2>1, <4>2 DEF SesInv, Over
      <4> QED
        BY <3>3, <4>2, <4>3 DEF Follows, SlotMoves, Waits
    <3>4. CASE s.state = "CONNECTING"
      <4> DEFINE c == SetCause(s, v.code)
      <4>1. s.cause \in {0, 200, 500} /\ (s.pending_bye \/ s.cause = 0)
        BY <2>3, <3>4 DEF SesInv
      <4>2. /\ c \in SesRecord /\ c.cause = v.code /\ c.state = "CONNECTING" /\ c.bye = "none"
            /\ c.hanging = s.hanging /\ c.sdp_done = s.sdp_done
        BY <1>1, <2>1, <3>1, <3>4, <4>1, SetCauseIs
      <4>3. PICK x \in SendBye(c) : w = [x EXCEPT !.pending_bye = FALSE]
        BY <2>1, <3>2, <3>4 DEF OnStateConnecting, EndSession
      <4> HIDE DEF c
      <4>4. WithBye(c, x) \/ OverSession(c, x)
        BY <2>1, <4>2, <4>3, SendByeIs
      <4>5. x \in SesRecord
        BY <4>4 DEF WithBye, OverSession
      <4>6. /\ w \in SesRecord /\ w.state = x.state /\ w.bye = x.bye /\ w.hanging = x.hanging
            /\ w.sdp_done = x.sdp_done
        <5>1. w \in SesRecord
          BY <4>3, <4>5, SesFields
        <5> QED
          BY <4>3, <4>5, <5>1 DEF SesRecord
      <4>7. /\ u \in SesRecord /\ ~u.invite /\ u.state = w.state /\ u.bye = w.bye
            /\ u.hanging = w.hanging /\ u.sdp_done = w.sdp_done
        BY <3>2, <4>6, LetGoFields
      <4>8. Finals(v) \subseteq {200}
        BY <2>1, <2>3, <3>4 DEF SesInv
      <4>9. CASE WithBye(c, x)
        <5>1. u.state = "CONNECTING" /\ u.bye # "none" /\ u.hanging = s.hanging /\ u.sdp_done = s.sdp_done
          BY <4>2, <4>6, <4>7, <4>9 DEF WithBye
        <5>2. SesInv(v, u)
          BY <2>1, <4>7, <4>8, <5>1 DEF SesInv, Over
        <5> QED
          BY <3>1, <3>4, <5>1, <5>2 DEF Follows, SlotMoves, Waits
      <4>10. CASE OverSession(c, x)
        <5>1. u.state = "DISCONNECTED" /\ u.bye = "none"
          BY <4>2, <4>6, <4>7, <4>10 DEF OverSession
        <5> QED
          BY <1>1, <2>1, <3>4, <4>7, <5>1, OverFollows DEF Waits
      <4> QED
        BY <4>4, <4>9, <4>10
    <3> QED
      BY <3>1, <3>3, <3>4
  <2> QED
    BY <2>1, <2>2, <2>3
<1> QED
  BY <1>2, <1>3, <1>4

-----------------------------------------------------------------------------
(* The steps *)

\* The offer of the caller has its answer when the call is up.
OfferAnswered == caller.offer /\ Live => ses.sdp_done

InviteInv == TsxInv(tsx) /\ SesInv(tsx, ses) /\ caller \in Callers /\ OfferAnswered

\* The caller's INVITE has its offer, or the ACK passes the transaction.
Negotiates == caller.offer \/ caller.branch = "new"

\* What every step does.
Moved ==
  /\ TsxInv(tsx') /\ Follows(tsx', ses, ses') /\ UNCHANGED caller
  /\ ses.state = "EARLY" /\ ses'.state = "CONNECTING" /\ caller.offer => ses'.sdp_done
  /\ Negotiates /\ Waits(tsx, ses) => Waits(tsx', ses')

\* Whatever repeats or times out, keeps or loses a message.
LEMMA QuietMoves ==
  ASSUME InviteInv, Idle, tsx.state \notin {"NULL", "TRYING"}, Quiet(tsx, tsx'), Notified, UNCHANGED caller
  PROVE  Moved
<1>1. ses.state # "INCOMING" /\ TsxInv(tsx) /\ SesInv(tsx, ses)
  BY DEF Idle, Offered, InviteInv
<1>2. IF tsx'.state = tsx.state THEN ses' = ses ELSE ses' \in OnTsxState(ses, tsx')
  BY DEF Notified
<1>3. Follows(tsx', ses, ses') /\ (Waits(tsx, ses) => Waits(tsx', ses'))
  BY <1>1, <1>2, NotifiedFollows
<1>4. TsxInv(tsx')
  BY DEF Quiet
<1>5. ~(ses.state = "EARLY" /\ ses'.state = "CONNECTING")
  <2> SUFFICES ASSUME ses.state = "EARLY", ses'.state = "CONNECTING" PROVE FALSE
    OBVIOUS
  <2>1. tsx.state = "PROCEEDING" /\ tsx'.state # "PROCEEDING"
    BY <1>1, <1>3 DEF SesInv, Follows
  <2>2. tsx'.state = "TERMINATED" /\ tsx'.code \in {408, 503}
    BY <2>1 DEF Quiet
  <2>3. /\ ses \in SesRecord /\ ses.invite /\ ses.bye = "none" /\ tsx'.code \in Causes
        /\ ses' \in OnTsxState(ses, tsx')
    BY <1>1, <1>2, <2>1, <2>2 DEF SesInv, Causes
  <2>4. ses'.state = "DISCONNECTED"
    BY <1>4, <2>2, <2>3, EarlyEnds
  <2> QED
    BY <2>4
<1> QED
  BY <1>3, <1>4, <1>5 DEF Moved

LEMMA StackMoves ==
  ASSUME InviteInv, RxInvite \/ Sent \/ NotSent \/ RetransmitTimer \/ TimeoutTimer
  PROVE  Moved
<1>1. TsxInv(tsx) /\ SesInv(tsx, ses)
  BY DEF InviteInv
<1>2. Idle /\ Notified /\ UNCHANGED caller
  BY DEF RxInvite, Sent, NotSent, RetransmitTimer, TimeoutTimer
<1>3. tsx.state \notin {"NULL", "TRYING"}
  <2>1. tsx.state # "TRYING"
    BY <1>1, <1>2 DEF Idle, Deciding, SesInv
  <2>2. tsx.state # "NULL"
    BY <1>1 DEF RxInvite, Sent, NotSent, RetransmitTimer, TimeoutTimer, TsxInv
  <2> QED
    BY <2>1, <2>2
<1>4. CASE RxInvite
  <2>1. tsx.state \in {"PROCEEDING", "COMPLETED"} /\ tsx' \in SendMsg(tsx, tsx.last)
    BY <1>4 DEF RxInvite
  <2>2. tsx.last # NoMessage
    BY <1>1, <2>1 DEF TsxInv, NoMessage, Provisional, Final
  <2>3. Quiet(tsx, tsx')
    BY <1>1, <2>1, <2>2, Repeated
  <2> QED
    BY <1>2, <1>3, <2>3, QuietMoves
<1>5. CASE Sent
  <2>1. tsx.pend # "none" /\ tsx' \in IF tsx.pend = "late" THEN {SentLate(tsx)} ELSE SendDone(tsx)
    BY <1>5 DEF Sent
  <2>2. Quiet(tsx, tsx')
    BY <1>1, <1>3, <2>1, SentQuiet
  <2> QED
    BY <1>2, <1>3, <2>2, QuietMoves
<1>6. CASE NotSent
  <2>1. /\ tsx.pend # "none"
        /\ tsx' = IF tsx.pend = "late" THEN [tsx EXCEPT !.pend = "none", !.flight = NoMessage, !.send = FALSE]
                  ELSE SendFailed(tsx)
    BY <1>6 DEF NotSent
  <2>2. Quiet(tsx, tsx')
    BY <1>1, <1>3, <2>1, NotSentQuiet
  <2> QED
    BY <1>2, <1>3, <2>2, QuietMoves
<1>7. CASE RetransmitTimer
  <2> DEFINE rt == tsx.pend = "none"
             rs == tsx.resched \/ tsx.pend # "none"
             m == [tsx EXCEPT !.retransmit = rt, !.resched = rs]
  <2>1. tsx.state = "COMPLETED" /\ tsx' \in SendMsg(m, tsx.last)
    BY <1>7 DEF RetransmitTimer, Retransmit
  <2>2. tsx \in TsxRecord /\ rt \in BOOLEAN /\ rs \in BOOLEAN
    BY <1>1 DEF TsxInv, TsxRecord
  <2>3. m \in TsxRecord
    <3> HIDE DEF rt, rs
    <3> QED
      BY <2>2, TsxFields
  <2>4. /\ m.state = tsx.state /\ m.code = tsx.code /\ m.last = tsx.last /\ m.flight = tsx.flight
        /\ m.wire = tsx.wire /\ m.pend = tsx.pend /\ m.send = tsx.send /\ m.timeout = tsx.timeout
    BY <2>2 DEF TsxRecord
  <2> HIDE DEF m
  <2>5. Finals(m) = Finals(tsx)
    BY <2>4 DEF Finals
  <2>6. TsxInv(m)
    BY <1>1, <2>3, <2>4, <2>5 DEF TsxInv
  <2>7. Quiet(tsx, m)
    BY <2>4, <2>5, <2>6 DEF Quiet
  <2>8. m.last # NoMessage
    BY <2>1, <2>4, <2>6 DEF TsxInv, NoMessage, Final
  <2>9. Quiet(m, tsx')
    BY <2>1, <2>4, <2>6, <2>8, Repeated
  <2>10. Quiet(tsx, tsx')
    BY <2>4, <2>7, <2>9, QuietTwice
  <2> QED
    BY <1>2, <1>3, <2>10, QuietMoves
<1>8. CASE TimeoutTimer
  <2>1. tsx.timeout # "none" /\ tsx' = TimedOut(tsx)
    BY <1>8 DEF TimeoutTimer
  <2>2. Quiet(tsx, tsx')
    BY <1>1, <1>3, <2>1, TimedOutQuiet
  <2> QED
    BY <1>2, <1>3, <2>2, QuietMoves
<1> QED
  BY <1>4, <1>5, <1>6, <1>7, <1>8

\* A response to a call that is not up yet, with what becomes of the session.
LEMMA AnswerMoves ==
  ASSUME InviteInv, tsx.state \in {"TRYING", "PROCEEDING"}, NEW r \in Responses, NEW t,
         TsxInv(t), t.state \in {"TRYING", "PROCEEDING"}, NEW s \in SesRecord,
         tsx' \in Respond(t, r), s.state = ses.state, s.invite, s.bye = "none",
         s.cause = 0, ~s.pending_bye, ~s.hanging,
         ses' \in OnTsxState(s, tsx'), UNCHANGED caller,
         ses.state = "NULL" => r = 100,
         ses.state = "INCOMING" => r \in {180, 404},
         ses.state = "EARLY" => r \in Final /\ (r = 200 /\ caller.offer => s.sdp_done),
         ses.sdp_done => s.sdp_done
  PROVE  Moved
<1>1. /\ TsxInv(tsx')
      /\ \/ /\ tsx'.state = (IF r \in Final THEN "COMPLETED" ELSE "PROCEEDING")
            /\ tsx'.code = r /\ Finals(tsx') = {r} \cap Final
         \/ tsx'.state = "TERMINATED" /\ tsx'.code = 503 /\ Finals(tsx') = {}
  BY Responding
<1>2. ses.state \in {"NULL", "INCOMING", "EARLY"}
  BY DEF InviteInv, SesInv
<1>3. CASE tsx'.state = "TERMINATED" \/ (tsx'.state = "COMPLETED" /\ r # 200)
  <2>1. tsx'.code \in Causes /\ (tsx'.state = "COMPLETED" => tsx'.code # 200 /\ ses.state # "NULL")
    BY <1>1, <1>3 DEF Causes, Final
  <2>2. /\ ses'.state = "DISCONNECTED" /\ ses' \in SesRecord /\ ses'.bye = "none"
        /\ ses'.invite => tsx'.state = "COMPLETED"
    BY <1>1, <1>2, <1>3, <2>1, EarlyEnds
  <2>3. Follows(tsx', ses, ses')
    BY <1>1, <1>2, <1>3, <2>2, OverFollows
  <2> QED
    BY <1>1, <2>2, <2>3 DEF Moved, Waits
<1>4. CASE tsx'.state = "PROCEEDING" \/ (tsx'.state = "COMPLETED" /\ r = 200)
  <2> DEFINE b == tsx'.state \notin {"CONFIRMED", "TERMINATED"}
             to == CASE r = 100 -> "INCOMING" [] r = 180 -> "EARLY" [] OTHER -> "CONNECTING"
  <2>1. PICK w \in (CASE s.state = "NULL" -> OnStateNull(s, tsx')
                      [] s.state \in {"INCOMING", "EARLY"} -> OnStateEarly(s, tsx')
                      [] s.state = "CONNECTING" -> OnStateConnecting(s, tsx')
                      [] OTHER -> {s}) :
              ses' = [w EXCEPT !.invite = b]
    BY LetGo
  <2>2. /\ tsx'.code = r /\ b = TRUE
        /\ \/ r = 100 /\ ses.state = "NULL" /\ tsx'.state = "PROCEEDING"
           \/ r = 180 /\ ses.state = "INCOMING" /\ tsx'.state = "PROCEEDING"
           \/ r = 200 /\ ses.state = "EARLY" /\ tsx'.state = "COMPLETED"
    BY <1>1, <1>2, <1>4 DEF Final
  <2>3. w = [s EXCEPT !.state = to]
    <3>1. CASE r = 100
      BY <2>1, <2>2, <3>1 DEF OnStateNull
    <3>2. CASE r = 180
      BY <2>1, <2>2, <3>2 DEF OnStateEarly
    <3>3. CASE r = 200
      BY <2>1, <2>2, <3>3 DEF OnStateEarly
    <3> QED
      BY <2>2, <3>1, <3>2, <3>3
  <2>4. to \in SesStates
    BY DEF SesStates
  <2>5. w \in SesRecord
    <3> HIDE DEF to
    <3> QED
      BY <2>3, <2>4, SesFields, SMTT(30), ZenonT(60)
  <2>6. /\ w.state = to /\ w.bye = "none" /\ w.cause = 0 /\ ~w.pending_bye /\ ~w.hanging
        /\ w.sdp_done = s.sdp_done
    BY <2>3, <2>5 DEF SesRecord
  <2>7. b \in BOOLEAN /\ b
    BY <2>2
  <2> HIDE DEF b, to
  <2>8. /\ ses' \in SesRecord /\ ses'.invite /\ ses'.state = to /\ ses'.bye = "none" /\ ses'.cause = 0
        /\ ~ses'.pending_bye /\ ~ses'.hanging /\ ses'.sdp_done = s.sdp_done
    <3>1. ses' = [w EXCEPT !.invite = b]
      BY <2>1
    <3>2. /\ ses' \in SesRecord /\ ses'.invite = b /\ ses'.state = w.state /\ ses'.cause = w.cause
          /\ ses'.sdp_done = w.sdp_done /\ ses'.pending_bye = w.pending_bye /\ ses'.bye = w.bye
          /\ ses'.hanging = w.hanging
      <4>1. ses' \in SesRecord
        BY <2>5, <2>7, <3>1, SesFields, SMTT(30), ZenonT(60)
      <4> QED
        BY <2>5, <3>1, <4>1 DEF SesRecord
    <3> QED
      BY <2>6, <2>7, <3>2
  <2>9. CASE r # 200
    <3>1. /\ ses'.state \in {"INCOMING", "EARLY"} /\ tsx'.state = "PROCEEDING"
          /\ Finals(tsx') = {}
      BY <1>1, <2>2, <2>8, <2>9 DEF TsxInv, to
    <3>2. SesInv(tsx', ses')
      BY <2>8, <3>1 DEF SesInv, Over
    <3>3. SlotMoves(ses, ses') /\ ses'.state # ses.state
      BY <2>2, <2>8, <2>9 DEF SlotMoves, to
    <3> QED
      BY <1>1, <3>1, <3>2, <3>3 DEF Moved, Follows, Waits
  <2>10. CASE r = 200
    <3>1. /\ ses'.state = "CONNECTING" /\ tsx'.state = "COMPLETED" /\ tsx'.code = 200
          /\ Finals(tsx') \subseteq {200}
      BY <1>1, <2>2, <2>8, <2>10 DEF to
    <3>2. SesInv(tsx', ses')
      BY <2>8, <3>1 DEF SesInv, Over
    <3>3. SlotMoves(ses, ses') /\ ses.state = "EARLY"
      BY <2>2, <2>8, <2>10 DEF SlotMoves, to
    <3> QED
      BY <1>1, <2>8, <2>10, <3>1, <3>2, <3>3 DEF Moved, Follows, Waits
  <2> QED
    BY <2>9, <2>10
<1> QED
  BY <1>1, <1>3, <1>4

\* pjsua_call_on_incoming: the session is made and holds its transaction.
LEMMA NewCallMoves ==
  ASSUME InviteInv, NewCall
  PROVE  Moved
<1>1. /\ TsxInv(tsx) /\ SesInv(tsx, ses) /\ tsx.state = "NULL" /\ UNCHANGED caller
      /\ tsx' = [tsx EXCEPT !.state = "TRYING"] /\ ses' = [ses EXCEPT !.invite = TRUE]
  BY DEF InviteInv, NewCall
<1>2. tsx \in TsxRecord /\ ses \in SesRecord /\ "TRYING" \in TsxStates
  BY <1>1 DEF TsxInv, SesInv, TsxStates
<1>3. tsx' \in TsxRecord
  BY <1>1, <1>2, TsxFields
<1>4. /\ tsx'.state = "TRYING" /\ tsx'.last = tsx.last /\ tsx'.flight = tsx.flight /\ tsx'.wire = tsx.wire
      /\ tsx'.pend = tsx.pend /\ tsx'.send = tsx.send
  BY <1>1, <1>2 DEF TsxRecord
<1>5. Finals(tsx') = Finals(tsx)
  BY <1>4 DEF Finals
<1>6. TsxInv(tsx')
  BY <1>1, <1>3, <1>4, <1>5 DEF TsxInv
<1>7. /\ ses' \in SesRecord /\ ses'.invite /\ ses'.state = ses.state /\ ses'.cause = ses.cause
      /\ ses'.pending_bye = ses.pending_bye /\ ses'.bye = ses.bye /\ ses'.hanging = ses.hanging
      /\ ses'.sdp_done = ses.sdp_done
  <2>1. PICK b \in BOOLEAN : b = TRUE
    OBVIOUS
  <2> QED
    BY <1>1, <1>2, <2>1, LetGoFields, SMTT(30), ZenonT(60)
<1>8. SesInv(tsx', ses') /\ ses.state = "NULL"
  BY <1>1, <1>4, <1>5, <1>7 DEF SesInv, TsxInv, Over
<1> QED
  BY <1>1, <1>6, <1>7, <1>8 DEF Moved, Follows, SlotMoves, Waits

\* The session of a call that has not been answered.
LEMMA Unanswered ==
  ASSUME InviteInv, ses.state \in {"NULL", "INCOMING", "EARLY"}, tsx.state # "NULL"
  PROVE  /\ TsxInv(tsx) /\ tsx.state \in {"TRYING", "PROCEEDING"}
         /\ ses \in SesRecord /\ ses.invite /\ ses.bye = "none" /\ ses.cause = 0
         /\ ~ses.pending_bye /\ ~ses.hanging
BY DEF InviteInv, SesInv

\* An offer that does not suit: the transaction ends behind the response.
LEMMA TurnedAwayMoves ==
  ASSUME InviteInv, TurnedAway
  PROVE  Moved
<1>1. ses.state = "NULL" /\ tsx.state = "TRYING" /\ UNCHANGED caller
  BY DEF TurnedAway, Deciding
<1>2. PICK u \in Respond(tsx, 500) : tsx' = Ended(u) /\ ses' \in OnTsxState(ses, Ended(u))
  BY DEF TurnedAway
<1>3. TsxInv(tsx) /\ ses \in SesRecord /\ ses.invite /\ ses.bye = "none"
  BY <1>1, Unanswered
<1>4. 500 \in Responses
  BY DEF Responses, Final
<1>5. TsxInv(u) /\ u.state \in {"COMPLETED", "PROCEEDING", "TERMINATED"} /\ u.code \in {500, 503}
  BY <1>1, <1>2, <1>3, <1>4, Responding
<1>6. TsxInv(tsx') /\ tsx'.state = "TERMINATED" /\ tsx'.code \in Causes
  BY <1>2, <1>5, EndedIs DEF Causes, Final
<1>7. Follows(tsx', ses, ses') /\ ses'.state = "DISCONNECTED"
  BY <1>1, <1>2, <1>3, <1>6, EarlyEnds
<1> QED
  BY <1>1, <1>6, <1>7 DEF Moved, Waits

\* What uas.c and pjsua send before the call is up.
LEMMA FirstAnswersMove ==
  ASSUME InviteInv, Trying \/ Ring \/ Refuse
  PROVE  Moved
<1>1. 100 \in Responses /\ 180 \in Responses /\ 404 \in Responses
  BY DEF Responses, Provisional, Final
<1>2. CASE Trying
  <2>1. /\ ses.state = "NULL" /\ tsx.state = "TRYING" /\ UNCHANGED caller
        /\ tsx' \in Respond(tsx, 100) /\ ses' \in OnTsxState(ses, tsx')
    BY <1>2 DEF Trying, Deciding, Send
  <2>2. /\ TsxInv(tsx) /\ ses \in SesRecord /\ ses.invite /\ ses.bye = "none" /\ ses.cause = 0
        /\ ~ses.pending_bye /\ ~ses.hanging
    BY <2>1, Unanswered
  <2> QED
    BY <1>1, <2>1, <2>2, AnswerMoves
<1>3. ASSUME NEW r \in {180, 404}, Offered, TryingThen(r)
      PROVE  Moved
  <2>1. ses.state = "INCOMING" /\ tsx.state = "PROCEEDING" /\ UNCHANGED caller
    BY <1>3 DEF Offered, TryingThen, InviteInv, SesInv
  <2>2. PICK u \in Respond(tsx, 100) :
          /\ tsx' \in IF u.state = "TERMINATED" THEN {u} ELSE Respond(u, r)
          /\ ses' \in OnTsxState(ses, tsx')
    BY <1>3 DEF TryingThen
  <2>3. /\ TsxInv(tsx) /\ ses \in SesRecord /\ ses.invite /\ ses.bye = "none" /\ ses.cause = 0
        /\ ~ses.pending_bye /\ ~ses.hanging
    BY <2>1, Unanswered
  <2>4. TsxInv(u) /\ (u.state = "PROCEEDING" \/ (u.state = "TERMINATED" /\ u.code = 503))
    BY <1>1, <2>1, <2>2, <2>3, Responding DEF Final
  <2>5. CASE u.state = "TERMINATED"
    <3>1. tsx' = u /\ TsxInv(tsx') /\ tsx'.state = "TERMINATED" /\ tsx'.code \in Causes
      BY <2>2, <2>4, <2>5 DEF Causes
    <3>2. Follows(tsx', ses, ses') /\ ses'.state = "DISCONNECTED"
      BY <2>1, <2>2, <2>3, <3>1, EarlyEnds
    <3> QED
      BY <2>1, <3>1, <3>2 DEF Moved, Waits
  <2>6. CASE u.state # "TERMINATED"
    <3>1. u.state = "PROCEEDING" /\ tsx' \in Respond(u, r) /\ r \in Responses
      BY <1>1, <2>2, <2>4, <2>6
    <3> QED
      BY <1>1, <2>1, <2>2, <2>3, <2>4, <3>1, AnswerMoves
  <2> QED
    BY <2>5, <2>6
<1> QED
  BY <1>2, <1>3 DEF Ring, Refuse

\* The answer of the program: the offer has its answer by then.
LEMMA AnswerUp ==
  ASSUME InviteInv, Answer
  PROVE  Moved
<1> DEFINE s == IF caller.offer THEN Negotiated(ses) ELSE ses
<1>1. /\ ses.state = "EARLY" /\ tsx' \in Respond(tsx, 200) /\ ses' \in OnTsxState(s, tsx')
      /\ UNCHANGED caller
  BY DEF Answer
<1>2. tsx.state = "PROCEEDING" /\ 200 \in Responses /\ 200 \in Final
  BY <1>1 DEF InviteInv, SesInv, Responses, Final
<1>3. /\ TsxInv(tsx) /\ ses \in SesRecord /\ ses.invite /\ ses.bye = "none" /\ ses.cause = 0
      /\ ~ses.pending_bye /\ ~ses.hanging
  BY <1>1, <1>2, Unanswered
<1>4. /\ s \in SesRecord /\ s.state = ses.state /\ s.invite /\ s.bye = "none" /\ s.cause = 0
      /\ ~s.pending_bye /\ ~s.hanging /\ (caller.offer => s.sdp_done) /\ (ses.sdp_done => s.sdp_done)
  <2>1. CASE caller.offer
    <3> DEFINE x == [ses EXCEPT !.sdp_done = TRUE]
    <3>1. s = x
      BY <2>1 DEF Negotiated
    <3>2. x \in SesRecord
      BY <1>3, SesFields
    <3> QED
      BY <1>3, <3>1, <3>2 DEF SesRecord
  <2>2. CASE ~caller.offer
    BY <1>3, <2>2
  <2> QED
    BY <2>1, <2>2
<1> HIDE DEF s
<1> QED
  BY <1>1, <1>2, <1>3, <1>4, AnswerMoves

\* An ACK reaches the transaction.
LEMMA AcknowledgedIs ==
  ASSUME NEW t, TsxInv(t), t.state = "COMPLETED"
  PROVE  /\ TsxInv(Confirmed(t)) /\ Confirmed(t).state = "CONFIRMED"
         /\ Finals(Confirmed(t)) = Finals(t)
<1> DEFINE u == [t EXCEPT !.state = "CONFIRMED", !.timeout = "timeout", !.retransmit = FALSE,
                          !.resched = FALSE]
<1>1. t \in TsxRecord /\ "CONFIRMED" \in TsxStates
  BY DEF TsxInv, TsxStates
<1>2. u \in TsxRecord
  <2>1. [t EXCEPT !.state = "CONFIRMED", !.timeout = "timeout"] \in TsxRecord
    BY <1>1, TsxFields
  <2>2. [t EXCEPT !.state = "CONFIRMED", !.timeout = "timeout", !.retransmit = FALSE] \in TsxRecord
    BY <2>1, TsxFields
  <2> QED
    BY <2>2, TsxFields
<1>3. /\ u.state = "CONFIRMED" /\ u.last = t.last /\ u.flight = t.flight /\ u.wire = t.wire
      /\ u.pend = t.pend /\ u.send = t.send /\ u.timeout = "timeout"
  BY <1>1 DEF TsxRecord
<1>4. Confirmed(t) = u
  BY DEF Confirmed
<1> HIDE DEF u
<1>5. Finals(u) = Finals(t)
  BY <1>3 DEF Finals
<1>6. TsxInv(u)
  BY <1>2, <1>3, <1>5 DEF TsxInv
<1> QED
  BY <1>3, <1>4, <1>5, <1>6

\* A session that is over forgets the transaction, and nothing else.
LEMMA ForgetsFollows ==
  ASSUME NEW t, NEW v, NEW s, NEW u, SesInv(t, s), s.state = "DISCONNECTED",
         u \in {s, [s EXCEPT !.invite = FALSE]}, v.state \in Over, ~s.invite \/ u # s,
         Finals(v) = Finals(t)
  PROVE  Follows(v, s, u) /\ u.state = "DISCONNECTED"
<1>1. s \in SesRecord
  BY DEF SesInv
<1>2. /\ u \in SesRecord /\ ~u.invite /\ u.state = s.state /\ u.cause = s.cause
      /\ u.sdp_done = s.sdp_done /\ u.pending_bye = s.pending_bye /\ u.bye = s.bye
      /\ u.hanging = s.hanging
  <2>1. CASE u = s
    BY <1>1, <2>1
  <2>2. CASE u = [s EXCEPT !.invite = FALSE]
    BY <1>1, <2>2, LetGoFields, ZenonT(60)
  <2> QED
    BY <2>1, <2>2
<1>3. SesInv(v, u)
  BY <1>2 DEF SesInv, Over
<1> QED
  BY <1>2, <1>3 DEF Follows, SlotMoves

\* An answered INVITE whose 200 is on the wire has sent no other final response.
LEMMA AnsweredOnly ==
  ASSUME NEW t, TsxInv(t), t.state = "COMPLETED", 200 \in t.wire
  PROVE  t.code = 200 /\ Finals(t) = {200}
<1>1. 200 \in Finals(t) /\ t.last \in Finals(t) /\ t.code = t.last
  BY DEF TsxInv, Finals, Final
<1>2. \A x \in Finals(t) : x = 200
  BY <1>1 DEF TsxInv
<1> QED
  BY <1>1, <1>2

\* Nothing happens.
LEMMA StayMoves ==
  ASSUME InviteInv, UNCHANGED vars
  PROVE  Moved
BY DEF InviteInv, vars, Moved, Follows, SlotMoves, Waits

\* A session that ends while its transaction is left alone.
LEMMA OverMoves ==
  ASSUME InviteInv, Live, OverSession(ses, ses'), UNCHANGED <<tsx, caller>>
  PROVE  Moved
<1>1. TsxInv(tsx) /\ SesInv(tsx, ses) /\ tsx' = tsx /\ TsxInv(tsx')
  BY DEF InviteInv
<1>2. /\ ses' \in SesRecord /\ ses'.state = "DISCONNECTED" /\ ses'.bye = ses.bye
      /\ ses'.invite = ses.invite
  BY DEF OverSession
<1>3. tsx.state \in {"COMPLETED", "CONFIRMED", "TERMINATED", "DESTROYED"}
  BY <1>1 DEF Live, SesInv, TsxInv, TsxRecord, TsxStates
<1>4. ses.bye # "none" => tsx.state \in Over /\ Finals(tsx) \subseteq {200}
  BY <1>1 DEF Live, SesInv
<1>5. Follows(tsx', ses, ses')
  <2>1. ses.state # "DISCONNECTED" /\ (ses.invite => tsx.state = "COMPLETED")
    BY <1>1, <1>3 DEF Live, SesInv, Over
  <2>2. /\ tsx'.state \in {"COMPLETED", "CONFIRMED", "TERMINATED", "DESTROYED"}
        /\ ses'.invite => tsx'.state = "COMPLETED"
        /\ ses'.bye # "none" => tsx'.state \in Over /\ Finals(tsx') \subseteq {200}
    BY <1>1, <1>2, <1>3, <1>4, <2>1
  <2> QED
    BY <1>1, <1>2, <2>1, <2>2, OverFollows
<1> QED
  BY <1>1, <1>2, <1>5 DEF Moved, Waits

\* pjsua_call_hangup: a call that is not up is refused, one that is gets a BYE, after
\* its ACK if that may still come.
LEMMA HangupMoves ==
  ASSUME InviteInv, Hangup
  PROVE  Moved
<1>1. TsxInv(tsx) /\ SesInv(tsx, ses) /\ ses \in SesRecord /\ ~ses.hanging
  BY DEF InviteInv, Hangup, SesInv
<1>2. CASE ses.state = "EARLY" /\ Send(500)
  <2>1. /\ tsx.state = "PROCEEDING" /\ tsx' \in Respond(tsx, 500) /\ ses' \in OnTsxState(ses, tsx')
        /\ UNCHANGED caller /\ 500 \in Responses /\ 500 \in Final
    BY <1>1, <1>2 DEF Send, SesInv, Responses, Final
  <2>2. ses.invite /\ ses.bye = "none" /\ ses.cause = 0 /\ ~ses.pending_bye
    BY <1>2, <2>1, Unanswered
  <2> QED
    BY <1>1, <1>2, <2>1, <2>2, AnswerMoves
<1>3. ASSUME Live, NEW code \in {200, 500}, ses' \in EndSession([ses EXCEPT !.hanging = TRUE], code),
             UNCHANGED <<tsx, caller>>
      PROVE  Moved
  <2> DEFINE x == [ses EXCEPT !.hanging = TRUE]
             c == SetCause(x, code)
  <2>1. x \in SesRecord
    BY <1>1, SesFields
  <2>2. /\ x.hanging /\ x.state = ses.state /\ x.invite = ses.invite /\ x.cause = ses.cause
        /\ x.sdp_done = ses.sdp_done /\ x.pending_bye = ses.pending_bye /\ x.bye = ses.bye
    BY <1>1, <2>1 DEF SesRecord
  <2> HIDE DEF x
  <2>3. code \in Causes
    BY DEF Causes, Final
  <2>4. /\ c \in SesRecord /\ c.hanging /\ c.state = ses.state /\ c.invite = ses.invite
        /\ c.sdp_done = ses.sdp_done /\ c.pending_bye = ses.pending_bye /\ c.bye = ses.bye
        /\ c.cause = IF code > ses.cause \/ ses.pending_bye THEN code ELSE ses.cause
    BY <2>1, <2>2, <2>3, SetCauseIs
  <2>5. ses' \in SendBye(c)
    BY <1>3 DEF EndSession, x
  <2> HIDE DEF c
  <2>6. tsx' = tsx /\ UNCHANGED caller /\ ses.state \in {"CONNECTING", "CONFIRMED"}
    BY <1>3 DEF Live
  <2>7. CASE ses.state = "CONNECTING" /\ c.cause \notin {408, 503}
    <3>1. /\ ses' \in SesRecord /\ ses'.pending_bye /\ ses'.state = "CONNECTING"
          /\ ses'.invite = ses.invite /\ ses'.cause = c.cause /\ ses'.bye = ses.bye /\ ses'.hanging
          /\ ses'.sdp_done = ses.sdp_done
      BY <2>4, <2>5, <2>7, SendByeIs
    <3>2. tsx.state = "COMPLETED" => c.cause \in {200, 500}
      BY <1>1, <2>4, <2>7 DEF SesInv
    <3>3. SesInv(tsx, ses')
      BY <1>1, <2>7, <3>1, <3>2 DEF SesInv
    <3>4. SlotMoves(ses, ses')
      <4>1. /\ ses.state \in {"CONNECTING", "CONFIRMED"} /\ ses'.state = ses.state
            /\ ~ses.hanging /\ ses'.hanging
        BY <1>1, <2>7, <3>1
      <4>2. ses'.bye = "none" <=> ses.bye = "none" /\ ses.state # "CONFIRMED"
        BY <2>7, <3>1
      <4> QED
        BY <4>1, <4>2 DEF SlotMoves
    <3>5. Follows(tsx', ses, ses')
      BY <2>6, <2>7, <3>1, <3>3, <3>4 DEF Follows
    <3>6. Waits(tsx, ses) => Waits(tsx', ses')
      BY <2>6, <2>7, <3>1 DEF Waits
    <3> QED
      BY <1>1, <2>6, <2>7, <3>5, <3>6 DEF Moved
  <2>8. CASE ~(ses.state = "CONNECTING" /\ c.cause \notin {408, 503})
    <3>1. WithBye(c, ses') \/ OverSession(c, ses')
      BY <2>4, <2>5, <2>8, SendByeIs
    <3>2. CASE WithBye(c, ses')
      <4>1. /\ ses' \in SesRecord /\ ses'.bye # "none" /\ ses'.state = ses.state
            /\ ses'.invite = ses.invite /\ ses'.hanging /\ ses'.sdp_done = ses.sdp_done
        BY <2>4, <3>2 DEF WithBye
      <4>2. ses.state = "CONNECTING" => ses.bye # "none"
        BY <1>1, <2>4, <2>8 DEF SesInv
      <4>3. tsx.state \in Over
        BY <1>1, <2>6, <4>2 DEF SesInv
      <4>4. SesInv(tsx, ses')
        BY <1>1, <2>6, <4>1, <4>3 DEF SesInv, Over
      <4>5. SlotMoves(ses, ses')
        BY <1>1, <2>6, <4>1, <4>2 DEF SlotMoves
      <4> QED
        BY <1>1, <2>6, <4>1, <4>4, <4>5 DEF Moved, Follows, Waits
    <3>3. CASE OverSession(c, ses')
      <4>1. /\ ses' \in SesRecord /\ ses'.state = "DISCONNECTED" /\ ses'.bye = ses.bye
            /\ ses'.invite = ses.invite
        BY <2>4, <3>3 DEF OverSession
      <4>2. tsx.state \in {"COMPLETED", "CONFIRMED", "TERMINATED", "DESTROYED"}
        BY <1>1, <2>6 DEF SesInv, TsxInv, TsxRecord, TsxStates
      <4>3. /\ ses.bye # "none" => tsx.state \in Over /\ Finals(tsx) \subseteq {200}
            /\ ses.invite => tsx.state = "COMPLETED"
        BY <1>1, <2>6, <4>2 DEF SesInv
      <4>4. TsxInv(tsx') /\ ses.state # "DISCONNECTED"
        BY <1>1, <2>6
      <4>5. /\ tsx'.state \in {"COMPLETED", "CONFIRMED", "TERMINATED", "DESTROYED"}
            /\ ses'.invite => tsx'.state = "COMPLETED"
            /\ ses'.bye # "none" => tsx'.state \in Over /\ Finals(tsx') \subseteq {200}
        BY <2>6, <4>1, <4>2, <4>3
      <4>6. Follows(tsx', ses, ses')
        BY <4>1, <4>4, <4>5, OverFollows
      <4> QED
        BY <2>6, <4>1, <4>4, <4>6 DEF Moved, Waits
    <3> QED
      BY <3>1, <3>2, <3>3
  <2> QED
    BY <2>7, <2>8
<1> QED
  BY <1>2, <1>3 DEF Hangup

\* A CANCEL is answered with 487, and so is the INVITE behind a BYE that comes before
\* our 200; a BYE of a call that is up ends it.
LEMMA LeavesMoves ==
  ASSUME InviteInv, RxCancel \/ RxBye
  PROVE  Moved
<1>1. TsxInv(tsx) /\ SesInv(tsx, ses) /\ ses \in SesRecord
  BY DEF InviteInv, SesInv
<1>2. 487 \in Responses /\ 487 \in Final /\ 200 \in Causes
  BY DEF Responses, Final, Causes
<1>3. ASSUME ses.state = "EARLY"
      PROVE  /\ tsx.state = "PROCEEDING" /\ ses.invite /\ ses.bye = "none" /\ ses.cause = 0
             /\ ~ses.pending_bye /\ ~ses.hanging
  <2>1. tsx.state = "PROCEEDING"
    BY <1>1, <1>3 DEF SesInv
  <2> QED
    BY <1>3, <2>1, Unanswered
<1>4. ASSUME ses.state = "EARLY", tsx' \in Respond(tsx, 487), ses' \in OnTsxState(ses, tsx'),
             UNCHANGED caller
      PROVE  Moved
  BY <1>1, <1>2, <1>3, <1>4, AnswerMoves
<1>5. CASE RxCancel
  BY <1>4, <1>5 DEF RxCancel, Send
<1>6. ASSUME ses.state = "EARLY", tsx' \in Respond(tsx, 487), UNCHANGED caller,
             ses' \in OnTsxState(Disconnected(ses, 200), tsx')
      PROVE  Moved
  <2> DEFINE s == Disconnected(ses, 200)
             b == tsx'.state \notin {"CONFIRMED", "TERMINATED"}
  <2>1. /\ s \in SesRecord /\ s.state = "DISCONNECTED" /\ s.bye = "none" /\ s.invite
    BY <1>1, <1>2, <1>3, <1>6, DisconnectedIs DEF OverSession
  <2>2. TsxInv(tsx') /\ tsx'.state \in {"COMPLETED", "TERMINATED"}
    BY <1>1, <1>2, <1>3, <1>6, Responding
  <2> HIDE DEF s
  <2>3. ses' = [s EXCEPT !.invite = b]
    BY <1>6, <2>1 DEF OnTsxState, s
  <2>4. b \in BOOLEAN
    OBVIOUS
  <2>5. ses' \in SesRecord /\ ses'.state = "DISCONNECTED" /\ ses'.bye = "none" /\ ses'.invite = b
    <3> HIDE DEF b
    <3>1. ses' \in SesRecord
      BY <2>1, <2>3, <2>4, SesFields
    <3> QED
      BY <2>1, <2>3, <3>1 DEF SesRecord
  <2>6. ses'.invite => tsx'.state = "COMPLETED"
    BY <2>2, <2>5
  <2>7. Follows(tsx', ses, ses')
    BY <1>6, <2>2, <2>5, <2>6, OverFollows
  <2> QED
    BY <1>6, <2>2, <2>5, <2>7 DEF Moved, Waits
<1>7. CASE RxBye
  <2>1. UNCHANGED caller
    BY <1>7 DEF RxBye
  <2>2. CASE /\ ses.state = "EARLY" /\ tsx' \in Respond(tsx, 487)
             /\ \E s \in RespondBye(ses) : ses' \in OnTsxState(s, tsx')
    <3>1. ses' \in OnTsxState(ses, tsx') \/ ses' \in OnTsxState(Disconnected(ses, 200), tsx')
      BY <2>2 DEF RespondBye
    <3> QED
      BY <1>4, <1>6, <2>1, <2>2, <3>1
  <2>3. CASE Live /\ ses' \in RespondBye(ses) /\ UNCHANGED tsx
    <3>1. CASE ses' = ses
      BY <2>1, <2>3, <3>1, StayMoves DEF vars
    <3>2. CASE ses' = Disconnected(ses, 200)
      <4>1. OverSession(ses, ses')
        BY <1>1, <1>2, <3>2, DisconnectedIs
      <4> QED
        BY <2>1, <2>3, <4>1, OverMoves
    <3> QED
      BY <2>3, <3>1, <3>2 DEF RespondBye
  <2> QED
    BY <1>7, <2>2, <2>3 DEF RxBye
<1> QED
  BY <1>5, <1>7

\* The BYE of the program: it is repeated, and its response or timer F ends the call.
LEMMA ByeMoves ==
  ASSUME InviteInv, ByeRetransmit \/ ByeAnswered \/ ByeTimeout
  PROVE  Moved
<1>1. TsxInv(tsx) /\ SesInv(tsx, ses) /\ ses \in SesRecord /\ 200 \in Causes
  BY DEF InviteInv, SesInv, Causes, Final
<1>2. CASE ByeRetransmit
  <2>1. ses' = [ses EXCEPT !.bye = "sent"] /\ ses.bye = "calling" /\ UNCHANGED <<tsx, caller>>
    BY <1>2 DEF ByeRetransmit
  <2>2. ses' \in SesRecord
    BY <1>1, <2>1, SesFields
  <2>3. /\ ses'.bye = "sent" /\ ses'.state = ses.state /\ ses'.cause = ses.cause
        /\ ses'.invite = ses.invite /\ ses'.sdp_done = ses.sdp_done
        /\ ses'.pending_bye = ses.pending_bye /\ ses'.hanging = ses.hanging
    BY <1>1, <2>1 DEF SesRecord
  <2>4. SesInv(tsx, ses')
    BY <1>1, <2>1, <2>2, <2>3 DEF SesInv
  <2>5. SlotMoves(ses, ses') /\ ses'.bye # "none" /\ ses.state \notin {"NULL", "INCOMING", "EARLY"}
    BY <1>1, <2>1, <2>3 DEF SlotMoves, SesInv
  <2>6. Follows(tsx', ses, ses')
    BY <2>1, <2>3, <2>4, <2>5 DEF Follows
  <2> QED
    BY <1>1, <2>1, <2>5, <2>6 DEF Moved, Waits
<1>3. CASE ByeAnswered \/ ByeTimeout
  <2>1. Live /\ ses' = Disconnected(ses, 200) /\ UNCHANGED <<tsx, caller>>
    BY <1>3 DEF ByeAnswered, ByeTimeout, ByeOpen
  <2>2. OverSession(ses, ses')
    BY <1>1, <2>1, DisconnectedIs
  <2> QED
    BY <2>1, <2>2, OverMoves
<1> QED
  BY <1>2, <1>3

\* The SDP of the ACK may answer the offer of our 200.
LEMMA WithSdpIs ==
  ASSUME NEW s \in SesRecord, NEW u \in WithSdp(s)
  PROVE  /\ u \in SesRecord /\ u.state = s.state /\ u.invite = s.invite /\ u.cause = s.cause
         /\ u.pending_bye = s.pending_bye /\ u.bye = s.bye /\ u.hanging = s.hanging
         /\ s.sdp_done => u.sdp_done
<1>1. CASE u = s
  BY <1>1
<1>2. CASE u = [s EXCEPT !.sdp_done = TRUE]
  <2>1. u \in SesRecord
    BY <1>2, SesFields
  <2> QED
    BY <1>2, <2>1 DEF SesRecord
<1> QED
  BY <1>1, <1>2 DEF WithSdp, Negotiated

\* A call that waits for its ACK, and nobody has sent another final response for.
LEMMA WaitingIs ==
  ASSUME InviteInv, ses.state = "CONNECTING", tsx.state = "COMPLETED"
  PROVE  /\ ses \in SesRecord /\ ses.invite /\ ses.bye = "none" /\ ses.cause \in {0, 200, 500}
         /\ ses.pending_bye \/ ses.cause = 0
         /\ ses.pending_bye <=> ses.hanging
BY DEF InviteInv, SesInv, Over

\* The session that the ACK has confirmed.
LEMMA AckedFollows ==
  ASSUME NEW t, TsxInv(t), t.state \in Over, Finals(t) \subseteq {200},
         NEW s, NEW u, s.state = "CONNECTING", s.bye = "none",
         u \in SesRecord, ~u.invite, s.sdp_done => u.sdp_done \/ u.state = "DISCONNECTED",
         \/ u.state = "DISCONNECTED"
         \/ u.state = "CONFIRMED" /\ u.hanging = s.hanging /\ (u.bye = "none" <=> ~s.hanging)
  PROVE  Follows(t, s, u)
<1>1. SesInv(t, u)
  BY DEF SesInv, Over
<1> QED
  BY <1>1 DEF Follows, SlotMoves

\* An ACK with a branch of its own: the transaction ends, the session is confirmed.
LEMMA AckNewMoves ==
  ASSUME InviteInv, RxAckNewBranch
  PROVE  Moved
<1>1. /\ 200 \in tsx.wire /\ ses.invite /\ tsx.state = "COMPLETED" /\ tsx' = Terminated(tsx)
      /\ UNCHANGED caller
  BY DEF RxAckNewBranch
<1>2. PICK s \in (IF ses.state = "DISCONNECTED" THEN {ses} ELSE WithSdp(ses)) :
        ses' \in IF s.state = "CONNECTING"
                 THEN PerformPendingBye(SetConfirmed([s EXCEPT !.invite = FALSE]))
                 ELSE {[s EXCEPT !.invite = FALSE]}
  BY DEF RxAckNewBranch
<1>3. TsxInv(tsx) /\ SesInv(tsx, ses) /\ ses \in SesRecord
  BY DEF InviteInv, SesInv
<1>4. tsx.code = 200 /\ Finals(tsx) = {200}
  BY <1>1, <1>3, AnsweredOnly
<1>5. TsxInv(tsx') /\ tsx'.state = "TERMINATED" /\ Finals(tsx') = {200}
  <2>1. tsx' = Ended(tsx)
    BY <1>1 DEF Ended
  <2> QED
    BY <1>1, <1>3, <1>4, <2>1, EndedIs
<1>6. ses.state \in {"CONNECTING", "DISCONNECTED"}
  BY <1>1, <1>3 DEF SesInv, SesRecord, SesStates, Over
<1>7. CASE ses.state = "DISCONNECTED"
  <2>1. ses' = [ses EXCEPT !.invite = FALSE]
    BY <1>2, <1>7
  <2>2. ses' # ses
    BY <1>1, <1>3, <2>1 DEF SesRecord
  <2>3. Follows(tsx', ses, ses') /\ ses'.state = "DISCONNECTED"
    BY <1>3, <1>4, <1>5, <1>7, <2>1, <2>2, ForgetsFollows DEF Over
  <2> QED
    BY <1>1, <1>5, <1>7, <2>3 DEF Moved, Waits
<1>8. CASE ses.state = "CONNECTING"
  <2> DEFINE u == [s EXCEPT !.invite = FALSE]
  <2>1. /\ s \in SesRecord /\ s.state = "CONNECTING" /\ s.cause = ses.cause
        /\ s.pending_bye = ses.pending_bye /\ s.bye = ses.bye /\ s.hanging = ses.hanging
        /\ ses.sdp_done => s.sdp_done
    BY <1>2, <1>3, <1>8, WithSdpIs
  <2>2. /\ u \in SesRecord /\ ~u.invite /\ u.state = "CONNECTING" /\ u.cause = ses.cause
        /\ u.pending_bye = ses.pending_bye /\ u.bye = ses.bye /\ u.hanging = ses.hanging
        /\ u.sdp_done = s.sdp_done
    <3>1. u \in SesRecord
      BY <2>1, SesFields
    <3> QED
      BY <2>1, <3>1 DEF SesRecord
  <2>3. ses' \in PerformPendingBye(SetConfirmed(u))
    BY <1>2, <2>1
  <2> HIDE DEF u
  <2>4. /\ ses.bye = "none" /\ ses.cause \in {0, 200, 500}
        /\ ses.pending_bye \/ ses.cause = 0
        /\ ses.pending_bye <=> ses.hanging
    BY <1>1, <1>8, WaitingIs
  <2>5. /\ ses' \in SesRecord /\ ses'.invite = u.invite
        /\ \/ /\ ses'.state = "CONFIRMED" /\ ses'.hanging = u.hanging /\ ses'.sdp_done = u.sdp_done
              /\ ses'.bye = "none" <=> ~u.hanging
           \/ ses'.state = "DISCONNECTED"
    BY <2>2, <2>3, <2>4, ConfirmedIs
  <2>6. Follows(tsx', ses, ses')
    <3>1. ~ses'.invite /\ (ses.sdp_done => ses'.sdp_done \/ ses'.state = "DISCONNECTED")
      BY <2>1, <2>2, <2>5
    <3>2. \/ ses'.state = "DISCONNECTED"
          \/ ses'.state = "CONFIRMED" /\ ses'.hanging = ses.hanging /\ (ses'.bye = "none" <=> ~ses.hanging)
      BY <2>2, <2>5
    <3> QED
      BY <1>5, <1>8, <2>4, <2>5, <3>1, <3>2, AckedFollows DEF Over
  <2> QED
    BY <1>1, <1>5, <1>8, <2>5, <2>6 DEF Moved, Waits
<1> QED
  BY <1>6, <1>7, <1>8

\* A session that is over hears that its transaction was acknowledged.
LEMMA OverHears ==
  ASSUME NEW t, t.state = "CONFIRMED", NEW s, s.state = "DISCONNECTED", NEW u \in OnTsxState(s, t)
  PROVE  IF s.invite THEN u = [s EXCEPT !.invite = FALSE] ELSE u = s
<1>1. CASE s.invite
  <2> DEFINE b == t.state \notin {"CONFIRMED", "TERMINATED"}
  <2>1. u = [s EXCEPT !.invite = b]
    BY <1>1, LetGo
  <2>2. b = FALSE
    OBVIOUS
  <2> HIDE DEF b
  <2> QED
    BY <1>1, <2>1, <2>2
<1>2. CASE ~s.invite
  BY <1>2 DEF OnTsxState
<1> QED
  BY <1>1, <1>2

\* An ACK with the branch of the INVITE: the transaction is confirmed, and tells the
\* session.  Only one whose offer is still open stays where it is.
LEMMA AckSameMoves ==
  ASSUME InviteInv, RxAckSameBranch
  PROVE  Moved
<1>1. /\ 200 \in tsx.wire /\ caller.branch = "same" /\ tsx.state = "COMPLETED"
      /\ tsx' = Confirmed(tsx) /\ UNCHANGED caller
  BY DEF RxAckSameBranch
<1>2. PICK s \in (IF ses.state = "CONNECTING" THEN WithSdp(ses) ELSE {ses}) : ses' \in OnTsxState(s, tsx')
  BY DEF RxAckSameBranch
<1>3. TsxInv(tsx) /\ SesInv(tsx, ses) /\ ses \in SesRecord
  BY DEF InviteInv, SesInv
<1>4. tsx.code = 200 /\ Finals(tsx) = {200}
  BY <1>1, <1>3, AnsweredOnly
<1>5. TsxInv(tsx') /\ tsx'.state = "CONFIRMED" /\ Finals(tsx') = {200}
  BY <1>1, <1>3, <1>4, AcknowledgedIs
<1>6. ses.state \in {"CONNECTING", "DISCONNECTED"}
  BY <1>1, <1>3 DEF SesInv, SesRecord, SesStates, Over
<1>7. CASE ses.state = "DISCONNECTED"
  <2>1. IF ses.invite THEN ses' = [ses EXCEPT !.invite = FALSE] ELSE ses' = ses
    <3>1. ses' \in OnTsxState(ses, tsx')
      BY <1>2, <1>7
    <3> QED
      BY <1>5, <1>7, <3>1, OverHears
  <2>2. ses.invite => ses' # ses
    BY <1>3, <2>1 DEF SesRecord
  <2>3. Follows(tsx', ses, ses') /\ ses'.state = "DISCONNECTED"
    BY <1>3, <1>4, <1>5, <1>7, <2>1, <2>2, ForgetsFollows DEF Over
  <2> QED
    BY <1>1, <1>5, <1>7, <2>3 DEF Moved, Waits
<1>8. CASE ses.state = "CONNECTING"
  <2>1. /\ ses.invite /\ ses.bye = "none" /\ ses.cause \in {0, 200, 500}
        /\ ses.pending_bye \/ ses.cause = 0
        /\ ses.pending_bye <=> ses.hanging
    BY <1>1, <1>8, WaitingIs
  <2>2. /\ s \in SesRecord /\ s.state = "CONNECTING" /\ s.cause = ses.cause /\ s.invite
        /\ s.pending_bye = ses.pending_bye /\ s.bye = "none" /\ s.hanging = ses.hanging
        /\ ses.sdp_done => s.sdp_done
    BY <1>2, <1>3, <1>8, <2>1, WithSdpIs
  <2>3. PICK w \in PerformPendingBye(SetConfirmed(s)) : ses' = [w EXCEPT !.invite = FALSE]
    BY <1>2, <1>5, <2>2 DEF OnTsxState, OnStateConnecting
  <2>4. /\ w \in SesRecord
        /\ IF s.invite /\ ~s.sdp_done
           THEN /\ w.state = "CONNECTING" /\ w.bye = "none" /\ w.cause \notin {408, 503}
                /\ w.hanging = s.hanging
           ELSE \/ /\ w.state = "CONFIRMED" /\ w.hanging = s.hanging /\ w.sdp_done = s.sdp_done
                   /\ w.bye = "none" <=> ~s.hanging
                \/ w.state = "DISCONNECTED"
    BY <2>1, <2>2, <2>3, ConfirmedIs
  <2>5. /\ ses' \in SesRecord /\ ~ses'.invite /\ ses'.state = w.state /\ ses'.cause = w.cause
        /\ ses'.sdp_done = w.sdp_done /\ ses'.bye = w.bye /\ ses'.hanging = w.hanging
    <3>1. ses' \in SesRecord
      BY <2>3, <2>4, SesFields
    <3> QED
      BY <2>3, <2>4, <3>1 DEF SesRecord
  <2>6. CASE s.sdp_done
    <3>1. ses.sdp_done => ses'.sdp_done \/ ses'.state = "DISCONNECTED"
      BY <2>4, <2>5, <2>6
    <3>2. \/ ses'.state = "DISCONNECTED"
          \/ ses'.state = "CONFIRMED" /\ ses'.hanging = ses.hanging /\ (ses'.bye = "none" <=> ~ses.hanging)
      BY <2>2, <2>4, <2>5, <2>6
    <3>3. Follows(tsx', ses, ses')
      BY <1>5, <1>8, <2>1, <2>5, <3>1, <3>2, AckedFollows DEF Over
    <3> QED
      BY <1>1, <1>5, <1>8, <3>2, <3>3 DEF Moved, Waits
  <2>7. CASE ~s.sdp_done
    <3>1. /\ ses'.state = "CONNECTING" /\ ses'.bye = "none" /\ ses'.cause \notin {408, 503}
          /\ ses'.hanging = ses.hanging /\ ~ses.sdp_done
      BY <2>2, <2>4, <2>5, <2>7
    <3>2. SesInv(tsx', ses')
      BY <1>5, <2>5, <3>1 DEF SesInv, Over
    <3>3. Follows(tsx', ses, ses')
      BY <1>8, <2>1, <3>1, <3>2 DEF Follows, SlotMoves
    <3>4. ~Negotiates
      BY <1>1, <1>8, <3>1 DEF InviteInv, OfferAnswered, Live, Negotiates
    <3> QED
      BY <1>1, <1>5, <1>8, <3>3, <3>4 DEF Moved
  <2> QED
    BY <2>6, <2>7
<1> QED
  BY <1>6, <1>7, <1>8

\* The ACK of a failure ends a transaction whose session is over already.
LEMMA AckFailureMoves ==
  ASSUME InviteInv, RxAckFailure
  PROVE  Moved
<1>1. /\ (Final \ {200}) \cap tsx.wire # {} /\ tsx.state = "COMPLETED" /\ tsx' = Confirmed(tsx)
      /\ Notified /\ UNCHANGED caller
  BY DEF RxAckFailure
<1>2. TsxInv(tsx) /\ SesInv(tsx, ses) /\ ses \in SesRecord
  BY DEF InviteInv, SesInv
<1>3. TsxInv(tsx') /\ tsx'.state = "CONFIRMED" /\ Finals(tsx') = Finals(tsx)
  BY <1>1, <1>2, AcknowledgedIs
<1>4. ses.state = "DISCONNECTED"
  <2>1. Finals(tsx) \ {200} # {}
    BY <1>1 DEF Finals
  <2> QED
    BY <1>2, <2>1 DEF SesInv
<1>5. IF ses.invite THEN ses' = [ses EXCEPT !.invite = FALSE] ELSE ses' = ses
  <2>1. ses' \in OnTsxState(ses, tsx')
    BY <1>1, <1>3 DEF Notified
  <2> QED
    BY <1>3, <1>4, <2>1, OverHears
<1>6. ses.invite => ses' # ses
  BY <1>2, <1>5 DEF SesRecord
<1>7. Follows(tsx', ses, ses') /\ ses'.state = "DISCONNECTED"
  BY <1>2, <1>3, <1>4, <1>5, <1>6, ForgetsFollows DEF Over
<1> QED
  BY <1>1, <1>3, <1>4, <1>7 DEF Moved, Waits

-----------------------------------------------------------------------------
(* The theorems *)

LEMMA InviteInit == Init => InviteInv
<1> SUFFICES ASSUME Init PROVE InviteInv
  OBVIOUS
<1>1. tsx = NoTsx /\ ses = NoSes /\ caller \in Callers
  BY DEF Init
<1>2. tsx \in TsxRecord /\ Finals(tsx) = {}
  BY <1>1 DEF NoTsx, TsxRecord, TsxStates, Codes, Messages, Responses, Finals, Final, NoMessage
<1>3. TsxInv(tsx)
  BY <1>1, <1>2 DEF TsxInv, NoTsx
<1>4. ses \in SesRecord
  BY <1>1 DEF NoSes, SesRecord, SesStates, Causes
<1>5. SesInv(tsx, ses)
  BY <1>1, <1>2, <1>4 DEF SesInv, NoTsx, NoSes
<1>6. OfferAnswered
  BY <1>1 DEF OfferAnswered, Live, NoSes
<1> QED
  BY <1>1, <1>3, <1>5, <1>6 DEF InviteInv

LEMMA InviteStep ==
  ASSUME InviteInv, [Next]_vars
  PROVE  Moved
<1>1. CASE Program
  BY <1>1, NewCallMoves, TurnedAwayMoves, FirstAnswersMove, AnswerUp, HangupMoves DEF Program
<1>2. CASE Caller
  BY <1>2, StackMoves, AckNewMoves, AckSameMoves, AckFailureMoves, LeavesMoves DEF Caller
<1>3. CASE Stack
  BY <1>3, StackMoves, ByeMoves DEF Stack
<1>4. CASE UNCHANGED vars
  BY <1>4, StayMoves
<1> QED
  BY <1>1, <1>2, <1>3, <1>4 DEF Next

LEMMA InviteKept ==
  ASSUME InviteInv, Moved
  PROVE  InviteInv'
<1>1. TsxInv(tsx') /\ SesInv(tsx', ses') /\ SlotMoves(ses, ses') /\ caller' = caller
  BY DEF Moved, Follows
<1>2. caller' \in Callers
  BY <1>1 DEF InviteInv
<1>3. OfferAnswered'
  <2> SUFFICES ASSUME caller.offer, ses'.state \in {"CONNECTING", "CONFIRMED"}
               PROVE  ses'.sdp_done
    BY <1>1 DEF OfferAnswered, Live
  <2>1. ses.state \in {"CONNECTING", "CONFIRMED"} => ses.sdp_done
    BY DEF InviteInv, OfferAnswered, Live
  <2>2. CASE ses'.state = ses.state
    BY <2>1, <2>2 DEF Moved, Follows
  <2>3. CASE ses'.state # ses.state
    <3>1. \/ ses.state = "EARLY" /\ ses'.state = "CONNECTING"
          \/ ses.state = "CONNECTING" /\ ses'.state = "CONFIRMED"
      BY <1>1, <2>3 DEF SlotMoves
    <3> QED
      BY <2>1, <3>1 DEF Moved, Follows
  <2> QED
    BY <2>2, <2>3
<1> QED
  BY <1>1, <1>2, <1>3 DEF InviteInv

\* In every state, whatever the network does, the session follows its transaction.
THEOREM InviteInvariant == Spec => []InviteInv
<1>1. InviteInv /\ [Next]_vars => InviteInv'
  BY InviteStep, InviteKept
<1> QED
  BY <1>1, InviteInit, PTL DEF Spec

\* The fields of the transaction and of the session stay in their ranges.
THEOREM InviteTypes == Spec => []InviteTypeOK
<1>1. InviteInv => InviteTypeOK
  BY DEF InviteInv, TsxInv, SesInv, InviteTypeOK, TsxRecord, TsxStates, Codes, Messages, Responses,
         SesRecord, SesStates, Causes
<1> QED
  BY <1>1, InviteInvariant, PTL

\* The caller gets one final response, however the transaction and the transport
\* keep, repeat or delay it, and no BYE after a failure.
THEOREM OneAnswer == Spec => []OneFinalAnswer
<1>1. InviteInv => OneFinalAnswer
  <2> SUFFICES ASSUME InviteInv PROVE OneFinalAnswer
    OBVIOUS
  <2> DEFINE W == tsx.wire \cap Final
  <2>1. W \subseteq Finals(tsx) /\ \A x, y \in Finals(tsx) : x = y
    BY DEF InviteInv, TsxInv, Finals
  <2>2. Cardinality(W) <= 1
    <3>1. CASE W = {}
      BY <3>1, FS_EmptySet
    <3>2. ASSUME NEW x \in W
          PROVE  Cardinality(W) <= 1
      <4>1. W = {x}
        BY <2>1, <3>2
      <4> QED
        BY <4>1, FS_Singleton
    <3> QED
      BY <3>1, <3>2
  <2>3. W \ {200} # {} => ses.state = "DISCONNECTED" /\ ses.bye = "none"
    BY <2>1 DEF InviteInv, SesInv
  <2> QED
    BY <2>2, <2>3 DEF OneFinalAnswer
<1> QED
  BY <1>1, InviteInvariant, PTL

\* No BYE leaves while the ACK of the 200 may still come (pjsip_inv_send_msg).
THEOREM ByeAfterAck == Spec => []ByeWaitsForAck
<1>1. InviteInv => ByeWaitsForAck
  BY DEF InviteInv, SesInv, ByeWaitsForAck, Over
<1> QED
  BY <1>1, InviteInvariant, PTL

\* A call that uas.c may still answer has the transaction to answer it with.
THEOREM AnswerPossible == Spec => []AnswerHasTransaction
<1>1. InviteInv => AnswerHasTransaction
  BY DEF InviteInv, SesInv, AnswerHasTransaction
<1> QED
  BY <1>1, InviteInvariant, PTL

\* An answered call has timer H or a BYE to end its wait for the ACK, for every caller
\* whose INVITE has its offer or whose ACK has a branch of its own.  For the others
\* inv_set_state(CONFIRMED) leaves the call where it is (see IncompleteIsDisconnected).
THEOREM AnsweredIsGuarded ==
  ASSUME \A k \in Callers : k.offer \/ k.branch = "new"
  PROVE  Spec => []ConnectingWaitsForAck
<1> DEFINE Guarded == InviteInv /\ Waits(tsx, ses)
<1>1. Init => Guarded
  BY InviteInit DEF Init, NoSes, Waits
<1>2. Guarded /\ [Next]_vars => Guarded'
  <2> SUFFICES ASSUME Guarded, [Next]_vars PROVE Guarded'
    OBVIOUS
  <2>1. Moved
    BY InviteStep
  <2>2. Negotiates
    BY DEF InviteInv, Negotiates
  <2> QED
    BY <2>1, <2>2, InviteKept DEF Moved, Waits
<1>3. Guarded => ConnectingWaitsForAck
  BY DEF InviteInv, TsxInv, SesInv, Waits, ConnectingWaitsForAck
<1> QED
  BY <1>1, <1>2, <1>3, PTL DEF Spec

\* Every step of the INVITE session is one of the slot that module Uas counts on, or
\* none that the program can see.
THEOREM InviteImplementsSlot == Spec => Slot!Spec
<1>1. Init => Slot!Init
  BY DEF Init, NoSes, Live, Slot!Init
<1>2. InviteInv /\ [Next]_vars => [Slot!Next]_(Slot!vars)
  <2> SUFFICES ASSUME InviteInv, [Next]_vars PROVE [Slot!Next]_(Slot!vars)
    OBVIOUS
  <2>1. SlotMoves(ses, ses') /\ SesInv(tsx, ses) /\ SesInv(tsx', ses')
    BY InviteStep, InviteKept DEF Moved, Follows, InviteInv
  <2>2. ses.state \notin {"CONNECTING", "CONFIRMED", "DISCONNECTED"} => ses.bye = "none" /\ ~ses.hanging
    BY <2>1 DEF SesInv, SesRecord, SesStates
  <2>3. ses'.state \notin {"CONNECTING", "CONFIRMED", "DISCONNECTED"} => ses'.bye = "none" /\ ~ses'.hanging
    BY <2>1 DEF SesInv, SesRecord, SesStates
  <2>4. CASE ses'.state = ses.state /\ ses'.hanging = ses.hanging /\ (ses'.bye = "none" <=> ses.bye = "none")
    BY <2>4 DEF Live, Slot!vars
  <2>5. CASE ses'.state = "DISCONNECTED"
    <3>1. CASE ses.state \in {"NULL", "DISCONNECTED"}
      BY <2>5, <3>1 DEF Live, Slot!vars
    <3>2. CASE ses.state \notin {"NULL", "DISCONNECTED"}
      BY <2>5, <3>2 DEF Live, Slot!Next, Slot!End
    <3> QED
      BY <3>1, <3>2
  <2>6. CASE ses.state = "NULL" /\ ses'.state = "INCOMING"
    BY <2>6 DEF Live, Slot!Next, Slot!Offer, Slot!Move
  <2>7. CASE ses.state = "INCOMING" /\ ses'.state = "EARLY"
    BY <2>7 DEF Live, Slot!Next, Slot!Ring, Slot!Move
  <2>8. CASE ses.state = "EARLY" /\ ses'.state = "CONNECTING" /\ ~ses'.hanging /\ ses'.bye = "none"
    BY <2>8 DEF Live, Slot!Next, Slot!Answer, Slot!Move
  <2>9. CASE /\ ses.state \in {"CONNECTING", "CONFIRMED"} /\ ses'.state = ses.state
             /\ ~ses.hanging /\ ses'.hanging
             /\ ses'.bye = "none" <=> ses.bye = "none" /\ ses.state # "CONFIRMED"
    BY <2>9 DEF Live, Slot!Next, Slot!Hangup
  <2>10. CASE /\ ses.state = "CONNECTING" /\ ses.bye = "none" /\ ses'.state = "CONFIRMED"
              /\ ses'.hanging = ses.hanging
              /\ ses'.bye = "none" <=> ~ses.hanging
    BY <2>10 DEF Live, Slot!Next, Slot!Ack
  <2>11. CASE /\ ses.state = "CONNECTING" /\ ses.bye = "none" /\ ses'.state = "CONNECTING"
              /\ ses'.bye # "none" /\ ses'.hanging = ses.hanging
    BY <2>11 DEF Live, Slot!Next, Slot!NoAck
  <2> QED
    BY <2>1, <2>4, <2>5, <2>6, <2>7, <2>8, <2>9, <2>10, <2>11 DEF SlotMoves
<1> QED
  BY <1>1, <1>2, InviteInvariant, PTL DEF Spec, Slot!Spec
=============================================================================
