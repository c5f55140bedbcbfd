----------------------------- MODULE SIPClients -----------------------------
(***************************************************************************)
(* The client transactions side by side: SIPFSMDispatch looks at the start *)
(* line of the request and takes a transaction from the ICT pool for an    *)
(* INVITE, from the NICT pool for everything else.  What the user of a     *)
(* request relies on holds for both kinds.                                 *)
(***************************************************************************)
EXTENDS SIPIct, SIPNict

VARIABLE
  isInvite   \* the start line of the request says INVITE

(* SIPFSMDispatch::createClientTransaction().                              *)
Init == isInvite \in BOOLEAN /\ ClientInit

RunHandler(t, x) ==
  \/ isInvite /\ IctRunHandler(t, x)
  \/ ~isInvite /\ NictRunHandler(t, x)

Next ==
  /\ \/ isInvite /\ IctNext
     \/ ~isInvite /\ NictNext
  /\ UNCHANGED isInvite

Spec == Init /\ [][Next]_<<vars, isInvite>>

(* Deadlines pass and the io_service runs what is queued; nothing is       *)
(* assumed of the peer, of the TU or of stop().                            *)
Fairness ==
  \A t \in Trn, x \in Timers : WF_vars(Expire(t, x)) /\ WF_vars(RunHandler(t, x))

FairSpec == Spec /\ Fairness
-----------------------------------------------------------------------------
(* A request that is not an INVITE is TERMINATED only together with its    *)
(* entry in the pool.  A response for a new To-tag sets the state of the   *)
(* parent to COMPLETED, and setState() throws on a TERMINATED one.         *)
PooledIsLive == ~isInvite /\ inPool => state[Parent] # TRN_STATE_TERMINATED

(* SIPNict::handleRequestTimeout() tests the state: while at most one      *)
(* branch has answered, no 408 follows a final response.                   *)
NoTimeoutAfterFinal ==
  [][/\ ~isInvite
     /\ Cardinality(branches') <= 1
     /\ \E t \in Trn : finals[t] > 0
     => \A t \in Trn : <<t, "408">> \notin told']_vars

(* A response the parent has taken note of stops the retransmission of the *)
(* request: any response that of an INVITE (Timer A), a final one that of  *)
(* the others (Timer E), also when the handler of the timer was queued.    *)
NoResendAfterResponse ==
  [][started /\ state[Parent] > (IF isInvite THEN TRYING ELSE PROCEEDING)
     => sent' \cap {"INVITE", "request"} = {}]_vars
=============================================================================
