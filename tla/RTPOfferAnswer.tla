--------------------------- MODULE RTPOfferAnswer ---------------------------
(***************************************************************************)
(* The promise of an RTPProxySession to its manager: the state follows the *)
(* offers and answers of the call, and only a handled answer is persisted. *)
(* RTPProxySession implements it; RTPProxyManager relies on it.            *)
(***************************************************************************)
EXTENDS RTPSessionTypes

VARIABLES
  state,    \* _state
  saved     \* the state the last handleSDP wrote to the state file, if any

Init == state = "IDLE" /\ saved = {}

HandleSDP(rt) == \E o \in Outcomes(state, rt) :
                   state' = o.state /\ saved' = o.saved

Spec == Init /\ [][\E rt \in RequestTypes : HandleSDP(rt)]_<<state, saved>>
=============================================================================
