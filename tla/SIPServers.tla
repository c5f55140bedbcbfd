----------------------------- MODULE SIPServers -----------------------------
(***************************************************************************)
(* The server transactions side by side: SIPFSMDispatch takes one from the *)
(* IST pool for an INVITE, from the NIST pool for everything else.         *)
(***************************************************************************)
EXTENDS SIPIst, SIPNist

VARIABLE isInvite   \* the request is an INVITE

vars == <<trnVars, serverVars, istVars, isInvite>>

Init == isInvite \in BOOLEAN /\ IstInit

Next ==
  /\ \/ isInvite /\ IstNext
     \/ ~isInvite /\ NistNext /\ UNCHANGED istVars
  /\ UNCHANGED isInvite

Spec == Init /\ [][Next]_vars

(* The deadline of timer x passes or the io_service runs its handler.      *)
TimerStep(t, x) ==
  /\ x \in armed[t] \cup queued[t]
  /\ \/ isInvite /\ (IstExpire(t, x) \/ IstRunHandler(t, x))
     \/ ~isInvite /\ (NistExpire(t, x) \/ NistRunHandler(t, x)) /\ UNCHANGED istVars
  /\ UNCHANGED isInvite

(* Deadlines pass and the io_service runs what is queued, for the timers   *)
(* that matter here; nothing is assumed of the peer, the TU or stop().     *)
Fairness ==
  /\ \A t \in Trn, x \in {"G", "H"} : WF_vars(TimerStep(t, x))
  /\ WF_vars(TimerStep(Parent, "MaxLifetime"))

FairSpec == Spec /\ Fairness
-----------------------------------------------------------------------------
(* The types of either transaction, with its own numbering of the states.  *)
TypeOK == IF isInvite THEN IstTypeOK ELSE NistTypeOK

(* An INVITE server transaction that has left the pool by terminate() has  *)
(* blocked its id before: a late retransmission is not a new call.         *)
GoneIsBlocked == isInvite /\ ~inPool /\ ~stopped => blocked

(* While the transaction is in the pool, an ACK that one of its state      *)
(* machines waits for is given to that state machine: the dispatcher does  *)
(* not take it for the ACK of a 2xx, though the TU may have sent errors    *)
(* and a 2xx with different tags, in any order and more than one a tag.    *)
(* The core is handed the ACKs of 2xx only, and Timer G does not go on     *)
(* retransmitting what has been acknowledged.                              *)
AwaitedAckIsKept ==
  [][isInvite /\ inPool => \A t \in core' : state[t] # IstCOMPLETED]_vars

(* COMPLETED is left by a timer alone, so whoever is COMPLETED has it      *)
(* running or about to be handled: Timer H of an INVITE, Timer J of the    *)
(* others, in the parent and in every branch, a branch created by a        *)
(* response the TU sent after the parent had ended included.               *)
CompletedIsTimed ==
  \A t \in Set(branches) \ destroyed :
    IF isInvite
      THEN state[t] = IstCOMPLETED => "H" \in armed[t] \cup queued[t]
      ELSE state[t] = NistCOMPLETED => "J" \in armed[t] \cup queued[t]

(* INVITE error responses are retransmitted for a limited time only:       *)
(* Timer H ends the wait for an ACK that never comes, in the parent and in *)
(* every branch, so that in the end no state machine retransmits.          *)
RetransmissionEnds ==
  (\E t \in Trn : "G" \in armed[t]) ~> (\A t \in Trn : "G" \notin armed[t] \cup queued[t])

(* A server transaction leaves the pool, whatever the TU does: the TU may  *)
(* never respond, and the throttle handler may delay for ever.             *)
EventuallyGone == state[Parent] # TRN_STATE_IDLE ~> ~inPool
=============================================================================
