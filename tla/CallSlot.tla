------------------------------- MODULE CallSlot -------------------------------
(***************************************************************************)
(* What pjsua's INVITE session promises the program about one call slot,   *)
(* without messages or transactions: the states a slot of module Uas goes  *)
(* through, and that an answered call does not wait for ever, neither for  *)
(* its ACK nor for the end of its BYE.                                     *)
(***************************************************************************)
VARIABLES
  inv,      \* "NULL", "INCOMING", "EARLY", "CONNECTING" or "CONFIRMED"
  hanging,  \* the program has hung up
  bye       \* a BYE of ours is under way

vars == <<inv, hanging, bye>>

Init == inv = "NULL" /\ hanging = FALSE /\ bye = FALSE

Move(from, to) == inv = from /\ inv' = to /\ UNCHANGED <<hanging, bye>>

Offer  == Move("NULL", "INCOMING")
Ring   == Move("INCOMING", "EARLY")
Answer == Move("EARLY", "CONNECTING")

\* Refused, left by the caller, or a message could not be sent.
End ==
  /\ inv # "NULL"
  /\ inv' = "NULL" /\ hanging' = FALSE /\ bye' = FALSE

\* A BYE of an answered call waits for the ACK.
Hangup ==
  /\ inv \in {"CONNECTING", "CONFIRMED"} /\ ~hanging
  /\ hanging' = TRUE
  /\ bye' = (bye \/ inv = "CONFIRMED")
  /\ UNCHANGED inv

Ack ==
  /\ inv = "CONNECTING" /\ ~bye
  /\ inv' = "CONFIRMED"
  /\ bye' = hanging
  /\ UNCHANGED hanging

NoAck ==
  /\ inv = "CONNECTING" /\ ~bye
  /\ bye' = TRUE
  /\ UNCHANGED <<inv, hanging>>

ByeDone == bye /\ End

Next == Offer \/ Ring \/ Answer \/ End \/ Hangup \/ Ack \/ NoAck

Spec == Init /\ [][Next]_vars

Fairness == WF_vars(Ack \/ NoAck) /\ WF_vars(ByeDone)

FairSpec == Spec /\ Fairness
=============================================================================
