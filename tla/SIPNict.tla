------------------------------ MODULE SIPNict -------------------------------
(***************************************************************************)
(* The client transaction of every other request: src/sipfsm/SIPNict.cpp   *)
(* on top of SIPTransaction.cpp.                                           *)
(***************************************************************************)
EXTENDS SIPClient

(* Mutant: startTimerMaxLifetime is missing.                               *)
NictStartedTimers_NoMaxLifetime(rel) == {"F"} \cup (IF rel THEN {} ELSE {"E"})

(* SIPNict::onSendMessage(): the timers it starts.                         *)
NictStartedTimers(rel) == {"MaxLifetime", "F"} \cup (IF rel THEN {} ELSE {"E"})

(* SIPTransaction::sendRequest() on a transport.  A transaction the pool   *)
(* has stopped before is past IDLE: nothing is written, onSendMessage()    *)
(* returns false and the transaction terminates.                           *)
NictSendRequest(rel) ==
  /\ ~started /\ Parent \notin destroyed
  /\ started' = TRUE
  /\ reliable' = rel
  /\ last' = Nothing
  /\ IF state[Parent] = TRN_STATE_IDLE
       THEN /\ sent' = {"request"}
            /\ Continue([state EXCEPT ![Parent] = TRYING],
                        [armed EXCEPT ![Parent] = NictStartedTimers(rel)])
       ELSE /\ sent' = {}
            /\ Terminate(TerminateSet(Parent, branches), state, armed)
  /\ TellNothing
  /\ UNCHANGED <<branches, queued, stopped, connStopped>>

(* A provisional response: Timers E and F go on.                           *)
NictOnProvisional(t) ==
  /\ state[t] <= PROCEEDING
  /\ Continue([x \in Trn |-> IF x = t \/ (x = Parent /\ state[Parent] < PROCEEDING)
                               THEN PROCEEDING ELSE state[x]],
              armed)
  /\ Tell(t, "1xx")

(* Mutant: the error of a branch never completes the parent.               *)
CompletesParent_Only2xx(t, c) == t # Parent /\ c = "2xx"

(* The final response of a branch also completes its parent, if it is a    *)
(* 2xx or the branch is the only one.                                      *)
CompletesParent(t, c) ==
  t # Parent /\ (c = "2xx" \/ Cardinality(FindBranch(t)) = 1)

(* The transactions whose Timers E and F a final response cancels.         *)
Quietened(t, c) ==
  (IF t = Parent /\ c = "2xx" THEN {} ELSE {t})
    \cup (IF CompletesParent(t, c) THEN {Parent} ELSE {})

(* Mutant: over a stream terminate() is called on the branch only.         *)
OnFinal_BranchOnly(t, c) ==
  LET st == [x \in Trn |-> IF x \in {t, Parent} THEN TRN_STATE_TERMINATED ELSE state[x]]
  IN /\ state[t] <= PROCEEDING
     /\ Terminate(IF reliable THEN {t} ELSE {}, st, [armed EXCEPT ![t] = @ \cup {"K"}])
     /\ Tell(t, c)

(* A final response.  Over a stream it is the end of the transaction-set:  *)
(* allBranchesCompleted() is asked of the transaction itself, and a branch *)
(* has no branches.  Over UDP Timer K absorbs retransmissions.             *)
OnFinal(t, c) ==
  LET st == [x \in Trn |-> IF x = t \/ (x = Parent /\ CompletesParent(t, c))
                             THEN COMPLETED ELSE state[x]]
      run == [x \in Trn |-> IF x \in Quietened(t, c) THEN armed[x] \ {"E", "F"} ELSE armed[x]]
  IN /\ state[t] <= PROCEEDING
     /\ IF reliable
          THEN Terminate(Set(FindBranch(t)), st, run)
          ELSE Continue(st, [run EXCEPT ![t] = @ \cup {"K"}])
     /\ Tell(t, c)

(* A response in COMPLETED or TERMINATED is dropped.                       *)
NictOnLateResponse(t) ==
  /\ state[t] > PROCEEDING
  /\ Continue(state, armed)
  /\ TellNothing

(* SIPFSMDispatch finds the transaction in the pool, the parent picks the  *)
(* branch (or creates it) and SIPNict::onReceivedMessage() runs in it.     *)
NictReceiveResponse(t, c) ==
  /\ started
  /\ inPool
  /\ branches' = FindBranch(t)
  /\ last' = <<t, c>>
  /\ sent' = {}
  /\ \/ c = "1xx" /\ NictOnProvisional(t)
     \/ c \in Final /\ OnFinal(t, c)
     \/ NictOnLateResponse(t)
  /\ UNCHANGED <<queued, stopped, started, reliable, connStopped>>

-----------------------------------------------------------------------------
(* Mutant: the request is retransmitted in every state but TERMINATED.     *)
HandleRetransmitRequest_Completed(t) ==
  /\ Dequeue(t, "E")
  /\ IF state[t] # TRN_STATE_TERMINATED
       THEN sent' = {"request"} /\ Continue(state, [armed EXCEPT ![t] = @ \cup {"E"}])
       ELSE sent' = {} /\ Continue(state, armed)
  /\ TellNothing
  /\ last' = Nothing
  /\ UNCHANGED <<branches, stopped, started, reliable, connStopped>>

(* Timer E: retransmit the request and start the timer again.              *)
HandleRetransmitRequest(t) ==
  /\ Dequeue(t, "E")
  /\ IF state[t] <= PROCEEDING
       THEN sent' = {"request"} /\ Continue(state, [armed EXCEPT ![t] = @ \cup {"E"}])
       ELSE sent' = {} /\ Continue(state, armed)
  /\ TellNothing
  /\ last' = Nothing
  /\ UNCHANGED <<branches, stopped, started, reliable, connStopped>>

(* Timer F: report a 408, stop a stream connection, terminate.             *)
HandleRequestTimeout(t) ==
  /\ Dequeue(t, "F")
  /\ IF state[t] \in {COMPLETED, TRN_STATE_TERMINATED}
       THEN TellNothing /\ Continue(state, armed) /\ UNCHANGED connStopped
       ELSE /\ Tell(t, "408")
            /\ connStopped' = (connStopped \/ reliable)
            /\ Terminate(TerminateSet(t, branches), state, armed)
  /\ sent' = {}
  /\ last' = Nothing
  /\ UNCHANGED <<branches, stopped, started, reliable>>

(* Timer K and the maximum lifetime.                                       *)
NictHandleDelayedTerminate(t, x) ==
  /\ x \in {"K", "MaxLifetime"}
  /\ DelayedTerminate(t, x)

NictRunHandler(t, x) ==
  \/ x = "E" /\ HandleRetransmitRequest(t)
  \/ x = "F" /\ HandleRequestTimeout(t)
  \/ NictHandleDelayedTerminate(t, x)

NictNext ==
  \/ SendRequestNoTransport
  \/ \E rel \in BOOLEAN : NictSendRequest(rel)
  \/ \E t \in Trn, c \in Responses : NictReceiveResponse(t, c)
  \/ \E t \in Trn, x \in Timers : Expire(t, x) \/ NictRunHandler(t, x)
  \/ \E t \in Trn : DropLast(t)
  \/ Stop
=============================================================================
