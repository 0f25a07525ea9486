----------------------------- MODULE UasContract -----------------------------
(***************************************************************************)
(* The auto-answerer of uas.c keeps the promise of AutoAnswer.             *)
(***************************************************************************)
EXTENDS Uas

\* The phase of a call as its caller sees it: a call that waits for its ACK is
\* answered, a call whose BYE is under way because of pjsua_call_hangup is
\* ending, and no call survives the process.
Phase(c) ==
  CASE ~Live                 -> "free"
    [] Live /\ hanging[c]    -> "ending"
    [] Live /\ ~hanging[c]   ->
         CASE inv[c] = "NULL"     -> "free"
           [] inv[c] = "INCOMING" -> "offered"
           [] inv[c] = "EARLY"    -> "ringing"
           [] OTHER               -> "talking"

Contract == INSTANCE AutoAnswer WITH
  Numbers <- Numbers \cup {"other"},
  ToneOf  <- [n \in Numbers \cup {"other"} |-> RingModeGet(n)],
  Silence <- "NOT_SET",
  phase   <- [c \in Calls |-> Phase(c)],
  dialled <- number,
  heard   <- [c \in Calls |-> IF Live THEN tone[c] ELSE "NOT_SET"]

\* Every step of the callbacks is a step a caller is promised, or none that a
\* caller can see: a call rings before it is answered, rings only for a number
\* with a tone, hears that number's tone only while it is answered, and is
\* hung up only after it was answered.
ImplementsContract == Contract!Spec
=============================================================================
