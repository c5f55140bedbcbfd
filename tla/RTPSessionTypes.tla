-------------------------- MODULE RTPSessionTypes --------------------------
(***************************************************************************)
(* What the media relay's session tells the rest of the system: its states,*)
(* which request types carry an offer or an answer in each of them, and    *)
(* what one call of RTPProxySession::handleSDP may lead to.                *)
(***************************************************************************)
CONSTANT RequestTypes   \* the request types the callers of handleSDP pass

ASSUME RequestTypesAssumption ==
  RequestTypes \subseteq {"INVITE", "INVITE_RESPONSE", "INVITE_ACK", "UPDATE",
                         "UPDATE_RESPONSE", "PRACK", "PRACK_RESPONSE"}

States == {"IDLE", "INVITE_WAITING_ANSWER_RESPONSE",
           "INVITE_WAITING_ANSWER_ACK_OR_PRACK", "PRACK_WAITING_ANSWER",
           "NEGOTIATED"}

Offers(st) == CASE st = "IDLE" -> {"INVITE", "INVITE_RESPONSE"}
                [] st = "NEGOTIATED" -> {"INVITE", "INVITE_RESPONSE", "PRACK"}
                [] OTHER -> {}
Answers(st) ==
  CASE st = "INVITE_WAITING_ANSWER_RESPONSE" -> {"INVITE_RESPONSE"}
    [] st = "INVITE_WAITING_ANSWER_ACK_OR_PRACK" -> {"INVITE_ACK", "PRACK"}
    [] st = "PRACK_WAITING_ANSWER" -> {"PRACK_RESPONSE"}
    [] OTHER -> {}

\* The state in which the answer to an offer is awaited.
Waiting(rt) == CASE rt = "INVITE" -> "INVITE_WAITING_ANSWER_RESPONSE"
                 [] rt = "INVITE_RESPONSE" ->
                      "INVITE_WAITING_ANSWER_ACK_OR_PRACK"
                 [] rt = "PRACK" -> "PRACK_WAITING_ANSWER"

\* What handleSDP may leave in state st: an ignored type or an exception
\* leaves the state alone; an answer that is relayed writes the state file,
\* and does so before the state moves on (saved holds the state written).
Outcomes(st, rt) ==
  {[state |-> st, saved |-> {}]}
  \cup {[state |-> Waiting(rt), saved |-> {}] : x \in {rt} \cap Offers(st)}
  \cup {[state |-> "NEGOTIATED", saved |-> f] :
          f \in IF rt \in Answers(st) THEN {{}, {st}} ELSE {}}
=============================================================================
