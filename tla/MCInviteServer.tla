---------------------------- MODULE MCInviteServer ----------------------------
(***************************************************************************)
(* Instances of one incoming call, and what the comments of sip_inv.c say  *)
(* of it but the code does not keep.                                       *)
(***************************************************************************)
EXTENDS InviteServer

\* Callers whose answer inv_set_state either finds or does not look for.
Negotiating == [offer: BOOLEAN, branch: {"new", "same"}] \ {[offer |-> FALSE, branch |-> "same"]}

\* A caller that leaves the offer to us and acknowledges within the transaction.
OfferlessSameBranch == {[offer |-> FALSE, branch |-> "same"]}

AllMishaps == {"transport", "resolve", "failed"}

\* The program hangs up.
HangingUp == FairSpec /\ WF_vars(Hangup)

\* inv_set_state: "If state is confirmed, check that SDP negotiation is done,
\* otherwise disconnect the session."
IncompleteIsDisconnected ==
  tsx.state = "CONFIRMED" /\ 200 \in tsx.wire /\ ~ses.sdp_done ~> ses.state = "DISCONNECTED"
=============================================================================
