------------------------------- MODULE SIPIst -------------------------------
(***************************************************************************)
(* The INVITE server transaction: src/sipfsm/SIPIst.cpp, with the part of  *)
(* SIPFSMDispatch that gives it INVITEs and ACKs.                          *)
(*                                                                         *)
(* A response with a To-tag is sent by the branch of that tag, which is    *)
(* created for it.  The parent stays in PROCEEDING then and absorbs        *)
(* retransmissions of the INVITE.                                          *)
(***************************************************************************)
EXTENDS SIPServer

VARIABLES
  sent2xx,    \* the transactions whose _hasSent2xx is set
  received,   \* the state machines that know their _transactionId
  blocked,    \* the IST blocker has the transaction id
  core        \* the last step gave an ACK to the ackOr2xxTransactionHandler: its tag

istVars == <<sent2xx, received, blocked, core>>

IstPROCEEDING == 2
IstCOMPLETED == 3
CONFIRMED == 4
IstStates ==
  {TRN_STATE_IDLE, QUEUED, IstPROCEEDING, IstCOMPLETED, CONFIRMED, TRN_STATE_TERMINATED}

IstInit ==
  /\ ServerInit
  /\ sent2xx = {}
  /\ received = {}
  /\ blocked = FALSE
  /\ core = {}

(* Mutant: the empty SIPFsm::onTerminate() runs.                           *)
End_NoBlock(K, st, arm) == Terminate(K, st, arm) /\ UNCHANGED blocked

(* terminate() with SIPIst::onTerminate(): the id is blocked by a state    *)
(* machine that has received a message.                                    *)
End(K, st, arm) ==
  /\ Terminate(K, st, arm)
  /\ blocked' = (blocked \/ (K \ hasTerminated) \cap received' # {})

(* Mutant: Timer H is started with Timer G only.                           *)
FinalTimers_GOnly(rel) == IF rel THEN {} ELSE {"G"}

(* The timers an error response starts.                                    *)
FinalTimers(rel) == {"H"} \cup (IF rel THEN {} ELSE {"G"})

(* Mutant: the second final response of a branch restarts Timer G.         *)
IstSend_AnyState(t, c, ok, for, st, arm) ==
  LET error == c = "err" /\ ~Lost(ok)
      over == Lost(ok) \/ c = "2xx"
  IN /\ End(IF over THEN TerminateSet(t, branches') ELSE {},
            IF error THEN [st EXCEPT ![t] = IstCOMPLETED] ELSE st,
            IF error THEN [arm EXCEPT ![t] = @ \cup FinalTimers(reliable)] ELSE arm)
     /\ sent2xx' = IF c = "2xx" /\ ~Lost(ok) THEN sent2xx \cup {t} ELSE sent2xx
     /\ Write(t, ok, for)

(* sendResponse() and SIPIst::onSendMessage() in transaction t, from       *)
(* states st and running timers arm: a 2xx is the end of t, an error makes *)
(* it wait for the ACK, and a response that cannot be written ends it.     *)
IstSend(t, c, ok, for, st, arm) ==
  LET first == st[t] <= IstPROCEEDING /\ ~Lost(ok)
      error == first /\ c = "err"
      over == Lost(ok) \/ (first /\ c = "2xx")
  IN /\ End(IF over THEN TerminateSet(t, branches') ELSE {},
            IF error THEN [st EXCEPT ![t] = IstCOMPLETED] ELSE st,
            IF error THEN [arm EXCEPT ![t] = @ \cup FinalTimers(reliable)] ELSE arm)
     /\ sent2xx' = IF first /\ c = "2xx" THEN sent2xx \cup {t} ELSE sent2xx
     /\ Write(t, ok, for)

(* The TU responds, with To-tag t.                                         *)
IstSendResponse(t, c, ok) ==
  /\ HandedOver /\ Parent \notin destroyed
  /\ ok \/ reliable
  /\ branches' = FindBranch(t)
  /\ UNCHANGED <<queued, stopped, toTag, reliable, counter, requests, received>>
  /\ IstSend(t, c, ok, "TU", state, armed)
  /\ core' = {}

-----------------------------------------------------------------------------
(* SIPIst::onReceivedMessage() in the state machine of t.                  *)

(* The timers that run once t has its request.                             *)
IstWithLifetime(t) ==
  IF state[t] = TRN_STATE_IDLE THEN [armed EXCEPT ![t] = @ \cup {"MaxLifetime"}] ELSE armed

(* The throttle handler asks for a delay.  The first time a 100 is sent,   *)
(* and if that fails the transaction ends: the throttle timer, started all *)
(* the same, would find it TERMINATED and is left out.                     *)
IstDelay(t, ok) ==
  LET arm == [IstWithLifetime(t) EXCEPT ![t] = @ \cup {"RequestThrottle"}]
  IN IF state[t] = TRN_STATE_IDLE
       THEN /\ branches' = FindBranch(t) \cup FindBranch(ResponseTag(t))
            /\ IstSend(ResponseTag(t), "1xx", ok, "queue", [state EXCEPT ![t] = QUEUED], arm)
       ELSE /\ branches' = FindBranch(t)
            /\ End({}, state, arm)
            /\ WriteNothing /\ UNCHANGED sent2xx

(* Mutant: the state is left as it is when the request is dispatched.      *)
IstDispatch_NoState(t) ==
  /\ requests' = [requests EXCEPT ![t] = @ + 1]
  /\ branches' = FindBranch(t)
  /\ End({}, state, IstWithLifetime(t))
  /\ WriteNothing
  /\ UNCHANGED sent2xx

(* The request goes to the TU.                                             *)
IstDispatch(t) ==
  /\ requests' = [requests EXCEPT ![t] = @ + 1]
  /\ branches' = FindBranch(t)
  /\ End({}, [state EXCEPT ![t] = IstPROCEEDING], IstWithLifetime(t))
  /\ WriteNothing
  /\ UNCHANGED sent2xx

IstOnRequest(t, ok) ==
  \/ IstDispatch(t)
  \/ IstDelay(t, ok) /\ UNCHANGED requests

OnAck(t) ==
  /\ branches' = FindBranch(t)
  /\ IF reliable
       THEN End(TerminateSet(t, branches'), [state EXCEPT ![t] = TRN_STATE_TERMINATED], armed)
       ELSE End({}, [state EXCEPT ![t] = CONFIRMED],
                [armed EXCEPT ![t] = (@ \ {"G", "H"}) \cup {"I"}])
  /\ WriteNothing
  /\ UNCHANGED <<requests, sent2xx>>

Ignore(t) ==
  /\ branches' = FindBranch(t)
  /\ End({}, state, armed)
  /\ UNCHANGED <<requests, sent2xx>>

(* The INVITE, or a retransmission of it.                                  *)
ReceiveInvite(ok) ==
  /\ inPool /\ ~blocked
  /\ ok \/ reliable
  /\ received' = received \cup {Parent}
  /\ \/ state[Parent] = TRN_STATE_IDLE /\ IstOnRequest(Parent, ok)
     \/ state[Parent] = IstCOMPLETED /\ Ignore(Parent) /\ Resend(Parent, "peer")
     \/ state[Parent] \notin {TRN_STATE_IDLE, IstCOMPLETED} /\ Ignore(Parent) /\ WriteNothing
  /\ core' = {}
  /\ UNCHANGED <<queued, stopped, toTag, reliable, counter>>

(* Mutant: a 2xx of any branch makes every ACK one for a 2xx.              *)
IsAckFor2xx_AnyBranch(t) ==
  sent2xx # {} \/ state[Parent] = TRN_STATE_TERMINATED

(* SIPFSMDispatch: an ACK of a transaction that has sent a 2xx.            *)
IsAckFor2xx(t) ==
  \E x \in {t, Parent} : x \in sent2xx \/ state[x] = TRN_STATE_TERMINATED

(* An ACK with To-tag t.  One for a tag that was never sent finds a new    *)
(* branch, in IDLE, which takes it for a request.                          *)
ReceiveAck(t, ok) ==
  /\ received # {}
  /\ ok \/ reliable
  /\ \/ /\ inPool /\ ~IsAckFor2xx(t)
        /\ received' = received \cup {t}
        /\ \/ state[t] = TRN_STATE_IDLE /\ IstOnRequest(t, ok)
           \/ state[t] = IstCOMPLETED /\ OnAck(t)
           \/ state[t] \notin {TRN_STATE_IDLE, IstCOMPLETED} /\ Ignore(t) /\ WriteNothing
        /\ core' = {}
     \/ /\ inPool /\ IsAckFor2xx(t)
        /\ UNCHANGED received
        /\ Ignore(t) /\ WriteNothing
        /\ core' = {t}
     \/ /\ ~inPool
        /\ core' = {t}
        /\ sent' = {}
        /\ UNCHANGED <<branches, state, hasTerminated, armed, inPool, released, destroyed, response,
                       requests, sent2xx, received, blocked>>
  /\ UNCHANGED <<queued, stopped, toTag, reliable, counter>>

-----------------------------------------------------------------------------
(* The timer handlers.                                                     *)

(* The throttle timer: the queued request is received again.  The parent   *)
(* has queued the INVITE; a branch has queued the ACK that created it,     *)
(* which is taken for the ACK of an error the TU has sent since.           *)
IstHandleDelayedDispatch(t, ok) ==
  LET rejected == counter[t] + 1 > QUEUE_RETRY_MAX
  IN /\ Dequeue(t, "RequestThrottle")
     /\ ok \/ reliable
     /\ received' = received \cup {t}
     /\ counter' = IF state[t] = QUEUED THEN [counter EXCEPT ![t] = @ + 1] ELSE counter
     /\ \/ /\ state[t] = QUEUED /\ rejected
           /\ branches' = FindBranch(ResponseTag(t))
           /\ IstSend(ResponseTag(t), "err", ok, "queue", state, armed)
           /\ UNCHANGED requests
        \/ state[t] = QUEUED /\ ~rejected /\ IstOnRequest(t, ok)
        \/ state[t] = IstCOMPLETED /\ t = Parent /\ Ignore(t) /\ Resend(t, "timer")
        \/ state[t] = IstCOMPLETED /\ t # Parent /\ OnAck(t)
        \/ state[t] \notin {QUEUED, IstCOMPLETED} /\ Ignore(t) /\ WriteNothing
     /\ core' = {}
     /\ UNCHANGED <<stopped, toTag, reliable>>

Handler(t, x) ==
  /\ Dequeue(t, x)
  /\ core' = {}
  /\ UNCHANGED <<branches, stopped, toTag, reliable, counter, requests, sent2xx, received>>

(* Timer G: retransmit the response and start the timer again.             *)
HandleRetransmitResponse(t) ==
  /\ Handler(t, "G")
  /\ IF state[t] = IstCOMPLETED
       THEN End({}, state, [armed EXCEPT ![t] = @ \cup {"G"}]) /\ Resend(t, "timer")
       ELSE End({}, state, armed) /\ WriteNothing

(* Timer H: no ACK has come.                                               *)
HandleACKTimeout(t) ==
  /\ Handler(t, "H")
  /\ End(TerminateSet(t, branches), state, armed)
  /\ WriteNothing

(* Timer I and the maximum lifetime.                                       *)
IstHandleDelayedTerminate(t, x) ==
  /\ x \in {"I", "MaxLifetime"}
  /\ Handler(t, x)
  /\ End(TerminateWithParent(t, [state EXCEPT ![t] = TRN_STATE_TERMINATED], branches),
         state, armed)
  /\ WriteNothing

(* A step that neither the TU nor the network sees.                        *)
IstInvisible ==
  /\ sent' = {} /\ core' = {}
  /\ UNCHANGED <<toTag, reliable, counter, response, requests, sent2xx, received, blocked>>

IstExpire(t, x) == TimerExpires(t, x) /\ IstInvisible
IstDropLast(t) == Destroy(t) /\ IstInvisible
IstStop == PoolStop /\ IstInvisible

IstRunHandler(t, x) ==
  \/ x = "RequestThrottle" /\ \E ok \in BOOLEAN : IstHandleDelayedDispatch(t, ok)
  \/ x = "G" /\ HandleRetransmitResponse(t)
  \/ x = "H" /\ HandleACKTimeout(t)
  \/ IstHandleDelayedTerminate(t, x)

IstNext ==
  \/ \E ok \in BOOLEAN :
       \/ ReceiveInvite(ok)
       \/ \E t \in Trn : ReceiveAck(t, ok)
       \/ \E t \in Trn, c \in Classes : IstSendResponse(t, c, ok)
  \/ \E t \in Trn, x \in Timers : IstExpire(t, x) \/ IstRunHandler(t, x)
  \/ \E t \in Trn : IstDropLast(t)
  \/ IstStop

-----------------------------------------------------------------------------
(* The types of the shared state and of the IST's own.                     *)
IstTypeOK ==
  /\ TrnTypeOK(IstStates)
  /\ ServerTypeOK
  /\ sent2xx \subseteq Trn
  /\ received \subseteq Trn
  /\ blocked \in BOOLEAN
  /\ core \subseteq Trn
=============================================================================
