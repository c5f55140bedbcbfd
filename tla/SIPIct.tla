------------------------------- MODULE SIPIct -------------------------------
(***************************************************************************)
(* The INVITE client transaction: src/sipfsm/SIPIct.cpp on top of          *)
(* SIPTransaction.cpp.                                                     *)
(***************************************************************************)
EXTENDS SIPClient

(* Mutant: startTimerMaxLifetime is missing.                               *)
IctStartedTimers_NoMaxLifetime(rel, expires) ==
  {"B"} \cup (IF rel THEN {} ELSE {"A"}) \cup (IF expires THEN {"ClientExpires"} ELSE {})

(* SIPIct::onSendMessage(): the timers it starts.                          *)
IctStartedTimers(rel, expires) ==
  {"MaxLifetime", "B"} \cup (IF rel THEN {} ELSE {"A"})
                       \cup (IF expires THEN {"ClientExpires"} ELSE {})

(* SIPTransaction::sendRequest() on a transport, which writes the INVITE.  *)
(* A transaction the pool has stopped before is past IDLE: it is written   *)
(* all the same, with no timer running.                                    *)
IctSendRequest(rel, expires) ==
  /\ ~started /\ Parent \notin destroyed
  /\ started' = TRUE
  /\ reliable' = rel
  /\ sent' = {"INVITE"}
  /\ last' = Nothing
  /\ IF state[Parent] = TRN_STATE_IDLE
       THEN Continue([state EXCEPT ![Parent] = TRYING],
                     [armed EXCEPT ![Parent] = IctStartedTimers(rel, expires)])
       ELSE Continue(state, armed)
  /\ TellNothing
  /\ UNCHANGED <<branches, queued, stopped, connStopped>>

(* The timers that a response of class c cancels, in the FSM of t and in   *)
(* that of its parent.                                                     *)
CancelledBy(c, s) ==
  (IF s <= TRYING THEN {"A", "B"} ELSE {})
    \cup (IF s <= PROCEEDING /\ c \in Final THEN {"ClientExpires"} ELSE {})

RunningAfter(t, c) ==
  [x \in Trn |-> IF x \in {t, Parent} THEN armed[x] \ CancelledBy(c, state[t])
                                      ELSE armed[x]]

(* Mutant: the parent is set to PROCEEDING whatever its state.             *)
IctOnProvisional_AnyParent(t) ==
  /\ state[t] <= PROCEEDING
  /\ Continue([x \in Trn |-> IF x \in {t, Parent} THEN PROCEEDING ELSE state[x]],
              RunningAfter(t, "1xx"))
  /\ Tell(t, "1xx")
  /\ sent' = {}

(* A provisional response.                                                 *)
IctOnProvisional(t) ==
  /\ state[t] <= PROCEEDING
  /\ Continue(
       IF state[t] = PROCEEDING THEN state
       ELSE [x \in Trn |-> IF x = t \/ (x = Parent /\ state[Parent] < PROCEEDING)
                             THEN PROCEEDING ELSE state[x]],
       RunningAfter(t, "1xx"))
  /\ Tell(t, "1xx")
  /\ sent' = {}

(* A 2xx: the first one sets the state of the transaction-set to           *)
(* TERMINATED; the parent terminates with the last active branch.          *)
On2xx(t) ==
  LET st == [x \in Trn |-> IF x \in {t, Parent} THEN TRN_STATE_TERMINATED ELSE state[x]]
  IN /\ state[t] <= PROCEEDING
     /\ Terminate(TerminateWithParent(t, st, FindBranch(t)), st, RunningAfter(t, "2xx"))
     /\ Tell(t, "2xx")
     /\ sent' = {}

(* Mutant: the state is not set to COMPLETED.                              *)
OnError_NotCompleted(t) ==
  /\ state[t] <= PROCEEDING
  /\ Continue(state, [RunningAfter(t, "err") EXCEPT ![t] = @ \cup {"D"}])
  /\ Tell(t, "err")
  /\ sent' = {"ACK"}

(* An error response and handleSendAck(): over a stream the ACK ends the   *)
(* transaction, over UDP Timer D keeps it to absorb retransmissions.       *)
OnError(t) ==
  LET over == [state EXCEPT ![t] = TRN_STATE_TERMINATED]
      run == RunningAfter(t, "err")
  IN /\ state[t] <= PROCEEDING
     /\ IF reliable
          THEN Terminate(TerminateWithParent(t, over, FindBranch(t)), over, run)
          ELSE Continue([state EXCEPT ![t] = COMPLETED], [run EXCEPT ![t] = @ \cup {"D"}])
     /\ Tell(t, "err")
     /\ sent' = {"ACK"}

(* A response in COMPLETED or TERMINATED.  handleSendAck(.., false) writes *)
(* to a UDP transport only when it also starts Timer D, and a transaction  *)
(* on a stream is never left in COMPLETED.                                 *)
IctOnLateResponse(t) ==
  /\ state[t] > PROCEEDING
  /\ Continue(state, armed)
  /\ TellNothing
  /\ sent' = {}

(* SIPFSMDispatch finds the transaction in the pool, the parent picks the  *)
(* branch (or creates it) and SIPIct::onReceivedMessage() runs in it.      *)
IctReceiveResponse(t, c) ==
  /\ started
  /\ inPool
  /\ branches' = FindBranch(t)
  /\ last' = <<t, c>>
  /\ \/ c = "1xx" /\ IctOnProvisional(t)
     \/ c = "2xx" /\ On2xx(t)
     \/ c = "err" /\ OnError(t)
     \/ IctOnLateResponse(t)
  /\ UNCHANGED <<queued, stopped, started, reliable, connStopped>>

-----------------------------------------------------------------------------
(* The timer handlers.                                                     *)

(* Timer A: retransmit the INVITE and start the timer again.               *)
HandleRetransmitInvite(t) ==
  /\ Dequeue(t, "A")
  /\ IF state[t] = TRYING
       THEN /\ sent' = {"INVITE"}
            /\ Continue(state, [armed EXCEPT ![t] = @ \cup {"A"}])
       ELSE /\ sent' = {}
            /\ Continue(state, armed)
  /\ TellNothing
  /\ last' = Nothing
  /\ UNCHANGED <<branches, stopped, started, reliable, connStopped>>

(* Mutant: handleTimeoutICT() does not test for TERMINATED.                *)
HandleInviteTimeout_AnyState(t) ==
  /\ Dequeue(t, "B")
  /\ Tell(t, "408")
  /\ connStopped' = (connStopped \/ reliable)
  /\ Terminate(TerminateSet(t, branches), state,
               [armed EXCEPT ![t] = @ \ {"A", "ClientExpires"}])
  /\ sent' = {}
  /\ last' = Nothing
  /\ UNCHANGED <<branches, stopped, started, reliable>>

(* Timer B: report a 408, stop a stream connection, terminate.  There is   *)
(* no test of the state beyond the one for TERMINATED in handleTimeoutICT. *)
HandleInviteTimeout(t) ==
  /\ Dequeue(t, "B")
  /\ IF state[t] # TRN_STATE_TERMINATED THEN Tell(t, "408") ELSE TellNothing
  /\ connStopped' = (connStopped \/ reliable)
  /\ Terminate(TerminateSet(t, branches), state,
               [armed EXCEPT ![t] = @ \ {"A", "ClientExpires"}])
  /\ sent' = {}
  /\ last' = Nothing
  /\ UNCHANGED <<branches, stopped, started, reliable>>

(* The Expires header of the INVITE: send a CANCEL, change nothing else.   *)
HandleExpiresTimeout(t) ==
  /\ Dequeue(t, "ClientExpires")
  /\ sent' = {"CANCEL"}
  /\ Continue(state, armed)
  /\ TellNothing
  /\ last' = Nothing
  /\ UNCHANGED <<branches, stopped, started, reliable, connStopped>>

(* Timer D and the maximum lifetime.                                       *)
IctHandleDelayedTerminate(t, x) ==
  /\ x \in {"D", "MaxLifetime"}
  /\ DelayedTerminate(t, x)

IctRunHandler(t, x) ==
  \/ x = "A" /\ HandleRetransmitInvite(t)
  \/ x = "B" /\ HandleInviteTimeout(t)
  \/ x = "ClientExpires" /\ HandleExpiresTimeout(t)
  \/ IctHandleDelayedTerminate(t, x)

IctNext ==
  \/ SendRequestNoTransport
  \/ \E rel, expires \in BOOLEAN : IctSendRequest(rel, expires)
  \/ \E t \in Trn, c \in Responses : IctReceiveResponse(t, c)
  \/ \E t \in Trn, x \in Timers : Expire(t, x) \/ IctRunHandler(t, x)
  \/ \E t \in Trn : DropLast(t)
  \/ Stop

IctSpec == ClientInit /\ [][IctNext]_vars
-----------------------------------------------------------------------------
(* Statements of the sources that the code does not keep.                  *)

(* SIPTransactionPool.cpp, lines 37 to 40: timers share the io_service of  *)
(* the transport so that a received message and a timer expiration do not  *)
(* race.  Then no timeout is reported once a response has been reported.   *)
NoTimeoutAfterResponse ==
  [][heard => \A t \in Trn : <<t, "408">> \notin told']_vars

(* SIPIct.cpp, line 191: "Resend ACK but don't start timer".  Then an      *)
(* error response received in COMPLETED is answered by an ACK.             *)
RetransmittedErrorIsAcked ==
  \A t \in Trn : last = <<t, "err">> /\ state[t] = COMPLETED => "ACK" \in sent

(* SIPFsm.cpp, line 287: handleDelayedTerminate() asserts of a transaction *)
(* without a parent that it is one.  Then no handler of a branch that is   *)
(* still held is in the queue when the parent is destroyed.                *)
BranchTimerHasParent ==
  \A t \in branches : queued[t] \cap {"D", "MaxLifetime"} # {} => Parent \notin destroyed
=============================================================================
