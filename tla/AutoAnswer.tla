------------------------------ MODULE AutoAnswer ------------------------------
(***************************************************************************)
(* What the auto-answerer promises a caller, without cells, timers or      *)
(* callbacks: a call to a number that has a tone rings, is then answered   *)
(* and hears that tone and no other, and only an answered call is hung up; *)
(* any other number is refused without ringing.                            *)
(***************************************************************************)
CONSTANTS
  Calls,    \* calls that can exist at once
  Numbers,  \* numbers a caller may dial
  ToneOf,   \* number -> the tone it plays, or Silence
  Silence   \* nothing is heard

VARIABLES
  phase,    \* call -> "free", "offered", "ringing", "talking" or "ending"
  dialled,  \* call -> the number its caller dialled
  heard     \* call -> the tone its caller hears

vars == <<phase, dialled, heard>>

Init ==
  /\ phase = [c \in Calls |-> "free"]
  /\ dialled \in [Calls -> Numbers]
  /\ heard = [c \in Calls |-> Silence]

Move(c, from, to) == phase[c] = from /\ phase' = [phase EXCEPT ![c] = to]
Hear(c, what) == heard' = [heard EXCEPT ![c] = what]
Choice(c) == {Silence, ToneOf[dialled[c]]}

Offer(c, n) ==
  /\ Move(c, "free", "offered")
  /\ dialled' = [dialled EXCEPT ![c] = n]
  /\ UNCHANGED heard

Ring(c) ==
  /\ Move(c, "offered", "ringing")
  /\ ToneOf[dialled[c]] # Silence
  /\ UNCHANGED <<dialled, heard>>

Answer(c) ==
  /\ Move(c, "ringing", "talking")
  /\ \E what \in Choice(c) : Hear(c, what)
  /\ UNCHANGED dialled

Retune(c) ==
  /\ phase[c] = "talking"
  /\ \E what \in Choice(c) : Hear(c, what)
  /\ UNCHANGED <<phase, dialled>>

HangUp(c) ==
  /\ Move(c, "talking", "ending")
  /\ Hear(c, Silence)
  /\ UNCHANGED dialled

\* The call is refused, left by its caller, or its hangup is complete.
End(c) ==
  /\ phase[c] # "free"
  /\ phase' = [phase EXCEPT ![c] = "free"]
  /\ Hear(c, Silence)
  /\ UNCHANGED dialled

\* The process dies, and every call with it.
Die ==
  /\ phase' = [c \in Calls |-> "free"]
  /\ heard' = [c \in Calls |-> Silence]
  /\ UNCHANGED dialled

Next ==
  \/ Die
  \/ \E c \in Calls :
       \/ \E n \in Numbers : Offer(c, n)
       \/ Ring(c) \/ Answer(c) \/ Retune(c) \/ HangUp(c) \/ End(c)

Spec == Init /\ [][Next]_vars
=============================================================================
