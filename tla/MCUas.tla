-------------------------------- MODULE MCUas --------------------------------
(***************************************************************************)
(* Instances of the auto-answerer, and what its comments and the comments  *)
(* of the libraries it calls say of it but the code does not keep.         *)
(***************************************************************************)
EXTENDS UasContract

\* sip_endpoint.h documents the entry given to pjsip_endpt_cancel_timer as
\* "the timer entry previously registered".
CancelsOnlyRegistered == crashed # "bad_cancel"

\* on_incoming_call refuses with 600 when "all call slots are busy": then
\* every slot of pjsua but the new call's own must be in use.
BusyOnlyWhenFull ==
  pc = "claim" /\ FreeCell = NoCell => \A c \in Calls \ {cur} : Alive(c)
=============================================================================
