------------------------------ MODULE SIPNist -------------------------------
(***************************************************************************)
(* The server transaction of every other request: src/sipfsm/SIPNist.cpp.  *)
(* It answers a retransmission with the last response of its own state     *)
(* machine: the parent's, which a response with a To-tag does not pass.    *)
(***************************************************************************)
EXTENDS SIPServer

TRYING == 2
NistPROCEEDING == 3
NistCOMPLETED == 4
NistStates ==
  {TRN_STATE_IDLE, QUEUED, TRYING, NistPROCEEDING, NistCOMPLETED, TRN_STATE_TERMINATED}

(* Mutant: the transaction on a stream waits for Timer J too, which only   *)
(* the other branch starts.                                                *)
NistSend_StreamStays(t, c, ok, for) ==
  LET first == state[t] <= NistPROCEEDING /\ ~Lost(ok)
      st == IF c = "1xx" THEN NistPROCEEDING ELSE NistCOMPLETED
  IN /\ Terminate(IF Lost(ok) THEN TerminateSet(t, branches') ELSE {},
                  IF first THEN [state EXCEPT ![t] = st] ELSE state,
                  IF first /\ c # "1xx" /\ ~reliable THEN [armed EXCEPT ![t] = @ \cup {"J"}]
                                                     ELSE armed)
     /\ Write(t, ok, for)

(* sendResponse() and SIPNist::onSendMessage() in transaction t: a final   *)
(* response ends t over a stream, and over UDP it starts Timer J.          *)
NistSend(t, c, ok, for) ==
  LET first == state[t] <= NistPROCEEDING /\ ~Lost(ok)
      final == c # "1xx"
      over == Lost(ok) \/ (first /\ final /\ reliable)
      st == IF final THEN NistCOMPLETED ELSE NistPROCEEDING
  IN /\ IF over
          THEN Terminate(TerminateSet(t, branches'), state, armed)
          ELSE Continue(IF first THEN [state EXCEPT ![t] = st] ELSE state,
                        IF first /\ final THEN [armed EXCEPT ![t] = @ \cup {"J"}] ELSE armed)
     /\ Write(t, ok, for)

(* The TU responds, with To-tag t.                                         *)
NistSendResponse(t, c, ok) ==
  /\ HandedOver /\ Parent \notin destroyed
  /\ ok \/ reliable
  /\ branches' = FindBranch(t)
  /\ NistSend(t, c, ok, "TU")
  /\ UNCHANGED <<queued, stopped, toTag, reliable, counter, requests>>

-----------------------------------------------------------------------------
(* SIPNist::onReceivedMessage(), which only ever runs in the parent.       *)

(* Mutant: the maximum lifetime is not started.                            *)
NistWithLifetime_None == armed

(* The timers that run once the parent has its request.                    *)
NistWithLifetime ==
  IF state[Parent] = TRN_STATE_IDLE
    THEN [armed EXCEPT ![Parent] = @ \cup {"MaxLifetime"}] ELSE armed

(* The throttle handler asks for a delay.                                  *)
NistDelay ==
  /\ Continue([state EXCEPT ![Parent] = QUEUED],
              [NistWithLifetime EXCEPT ![Parent] = @ \cup {"RequestThrottle"}])
  /\ UNCHANGED requests

(* The request goes to the TU.                                             *)
NistDispatch ==
  /\ requests' = [requests EXCEPT ![Parent] = @ + 1]
  /\ Continue([state EXCEPT ![Parent] = TRYING], NistWithLifetime)

NistOnRequest ==
  /\ NistDelay \/ NistDispatch
  /\ WriteNothing
  /\ UNCHANGED branches

(* The request, or a retransmission of it.                                 *)
ReceiveRequest ==
  /\ inPool
  /\ \/ state[Parent] = TRN_STATE_IDLE /\ NistOnRequest
     \/ /\ state[Parent] = QUEUED
        /\ Continue(state, armed) /\ WriteNothing
        /\ UNCHANGED <<branches, requests>>
     \/ /\ state[Parent] > QUEUED
        /\ Continue(state, armed) /\ Resend(Parent, "peer")
        /\ UNCHANGED <<branches, requests>>
  /\ UNCHANGED <<queued, stopped, toTag, reliable, counter>>

(* Mutant: the early return after the 503 is missing.                      *)
NistHandleDelayedDispatch_NoReturn(ok) ==
  /\ Dequeue(Parent, "RequestThrottle")
  /\ ok \/ reliable
  /\ state[Parent] = QUEUED
  /\ counter' = [counter EXCEPT ![Parent] = IF @ > QUEUE_RETRY_MAX THEN @ ELSE @ + 1]
  /\ NistOnRequest
  /\ UNCHANGED <<stopped, toTag, reliable>>

(* The throttle timer: the queued request is received again.               *)
NistHandleDelayedDispatch(ok) ==
  LET rejected == counter[Parent] + 1 > QUEUE_RETRY_MAX
  IN /\ Dequeue(Parent, "RequestThrottle")
     /\ ok \/ reliable
     /\ counter' = IF state[Parent] = QUEUED THEN [counter EXCEPT ![Parent] = @ + 1]
                                             ELSE counter
     /\ \/ /\ state[Parent] = QUEUED /\ rejected
           /\ branches' = FindBranch(toTag)
           /\ NistSend(toTag, "err", ok, "queue")
           /\ UNCHANGED requests
        \/ state[Parent] = QUEUED /\ ~rejected /\ NistOnRequest
        \/ /\ state[Parent] # QUEUED
           /\ Continue(state, armed) /\ Resend(Parent, "timer")
           /\ UNCHANGED <<branches, requests>>
     /\ UNCHANGED <<stopped, toTag, reliable>>

(* Timer J and the maximum lifetime.                                       *)
NistHandleDelayedTerminate(t, x) ==
  /\ x \in {"J", "MaxLifetime"}
  /\ Dequeue(t, x)
  /\ Terminate(TerminateWithParent(t, [state EXCEPT ![t] = TRN_STATE_TERMINATED], branches),
               state, armed)
  /\ WriteNothing
  /\ UNCHANGED <<branches, stopped, toTag, reliable, counter, requests>>

(* A step that neither the TU nor the network sees.                        *)
NistInvisible == sent' = {} /\ UNCHANGED <<toTag, reliable, counter, response, requests>>

NistExpire(t, x) == TimerExpires(t, x) /\ NistInvisible
NistDropLast(t) == Destroy(t) /\ NistInvisible
NistStop == PoolStop /\ NistInvisible

NistRunHandler(t, x) ==
  \/ t = Parent /\ x = "RequestThrottle" /\ \E ok \in BOOLEAN : NistHandleDelayedDispatch(ok)
  \/ NistHandleDelayedTerminate(t, x)

NistNext ==
  \/ ReceiveRequest
  \/ \E t \in Trn, c \in Classes, ok \in BOOLEAN : NistSendResponse(t, c, ok)
  \/ \E t \in Trn, x \in Timers : NistExpire(t, x) \/ NistRunHandler(t, x)
  \/ \E t \in Trn : NistDropLast(t)
  \/ NistStop

-----------------------------------------------------------------------------
(* The types of the shared state.                                          *)
NistTypeOK == TrnTypeOK(NistStates) /\ ServerTypeOK
=============================================================================
