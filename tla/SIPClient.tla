----------------------------- MODULE SIPClient ------------------------------
(***************************************************************************)
(* What the two client transactions (SIPIct, SIPNict) share: the request   *)
(* is sent with SIPTransaction::sendRequest() and the answers go to the    *)
(* transaction user (TU).  The TU is whoever passed the response callback  *)
(* and the terminate callback; in this repository that is a B2B            *)
(* transaction, which deletes itself when it is released.                  *)
(***************************************************************************)
EXTENDS SIPTransaction

VARIABLES
  started,      \* sendRequest() has been called
  reliable,     \* the transport is a stream
  connStopped,  \* handleTimeoutICT/NICT() stopped the connection
  told,         \* what the last step passed to _responseTU
  sent,         \* what the last step wrote to the network
  last,         \* the response the last step received, if any
  finals,       \* final responses passed to the TU, for each transaction
  heard         \* some response has reached the TU

clientVars == <<started, reliable, connStopped, told, sent, last, finals, heard>>
vars == <<trnVars, clientVars>>

(* The states both client transactions number alike.                       *)
TRYING == 1
PROCEEDING == 2
COMPLETED == 3
States == {TRN_STATE_IDLE, TRYING, PROCEEDING, COMPLETED, TRN_STATE_TERMINATED}

Final == {"2xx", "err"}
Responses == {"1xx"} \cup Final
Nothing == <<>>

(* What a client transaction writes; "request" is any but the named ones.  *)
Requests == {"INVITE", "ACK", "CANCEL", "request"}

ClientInit ==
  /\ TrnInit
  /\ started = FALSE
  /\ reliable = FALSE
  /\ connStopped = FALSE
  /\ told = {}
  /\ sent = {}
  /\ last = Nothing
  /\ finals = [t \in Trn |-> 0]
  /\ heard = FALSE

(* informTU and the direct calls of _responseTU: c is a response class, or *)
(* "408" for the response the stack makes up itself.                       *)
Tell(t, c) ==
  /\ told' = {<<t, c>>}
  /\ heard' = TRUE
  /\ finals' = IF c \in Final THEN [finals EXCEPT ![t] = @ + 1] ELSE finals

TellNothing ==
  /\ told' = {}
  /\ UNCHANGED <<finals, heard>>

(* A step that neither the TU nor the network sees.                        *)
Invisible ==
  /\ TellNothing
  /\ sent' = {}
  /\ last' = Nothing
  /\ UNCHANGED <<started, reliable, connStopped>>

(* SIPTransaction::sendRequest() when no transport can be created.  Its two *)
(* exceptions do not happen: its only caller, SIPFSMDispatch::sendRequest(), *)
(* has refused what is no request and has set the transport service.         *)
SendRequestNoTransport ==
  /\ ~started /\ Parent \notin destroyed
  /\ started' = TRUE
  /\ Tell(Parent, "408")
  /\ Terminate(TerminateSet(Parent, branches), state, armed)
  /\ sent' = {}
  /\ last' = Nothing
  /\ UNCHANGED <<branches, queued, stopped, reliable, connStopped>>

Expire(t, x) == TimerExpires(t, x) /\ Invisible

DropLast(t) == Destroy(t) /\ Invisible

Stop == PoolStop /\ Invisible

(* SIPFsm::handleDelayedTerminate.                                         *)
DelayedTerminate(t, x) ==
  /\ Dequeue(t, x)
  /\ Terminate(TerminateWithParent(t, [state EXCEPT ![t] = TRN_STATE_TERMINATED], branches),
               state, armed)
  /\ Invisible
  /\ UNCHANGED <<branches, stopped>>

-----------------------------------------------------------------------------
ClientTypeOK ==
  /\ started \in BOOLEAN
  /\ reliable \in BOOLEAN
  /\ connStopped \in BOOLEAN
  /\ told \subseteq Trn \X (Responses \cup {"408"})
  /\ sent \subseteq Requests
  /\ last \in {Nothing} \cup (Trn \X Responses)
  /\ finals \in [Trn -> Nat]
  /\ heard \in BOOLEAN

(* The types of the transaction-set and of what the TU and the network see *)
(* of it.                                                                  *)
TypeOK == TrnTypeOK(States) /\ ClientTypeOK

(* Once _terminateCallback has run the TU is never called again.  The      *)
(* callback is bound to the raw pointer of a B2B transaction that deletes  *)
(* itself in releaseInternalRef(), so a later call would use freed memory. *)
SilentAfterRelease == [][released > 0 => told' = {}]_vars

(* What was started and is still in the pool has its last resort running:  *)
(* no handler cancels the timer of startTimerMaxLifetime() and leaves the  *)
(* transaction behind, in whatever state the responses put it.             *)
AlwaysReaped ==
  started /\ inPool => "MaxLifetime" \in armed[Parent] \cup queued[Parent]

(* A request that was sent is over in the end, in whatever state the peer  *)
(* leaves it: for some states the five minutes of startTimerMaxLifetime    *)
(* are the only timer left.                                                *)
EventuallyReleased == started ~> (released = 1 \/ stopped)

(* Either client transaction implements the promise made to its user: the  *)
(* callbacks and the release come in the order of SIPClientUser.           *)
User == INSTANCE SIPClientUser WITH answered <- {t \in Trn : finals[t] > 0}
KeepsUserPromise == User!Spec
=============================================================================
