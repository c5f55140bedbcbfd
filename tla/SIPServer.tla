----------------------------- MODULE SIPServer ------------------------------
(***************************************************************************)
(* What the two server transactions (SIPIst, SIPNist) share: the request   *)
(* that waits for the throttle handler, the call of the request handler    *)
(* (the TU), and SIPTransaction::sendResponse(), which the TU calls from   *)
(* threads of its own.                                                     *)
(***************************************************************************)
EXTENDS SIPTransaction

CONSTANTS
  QUEUE_RETRY_MAX   \* how often a request is queued again; the code has 3

ASSUME RetryMaxIsNatural == QUEUE_RETRY_MAX \in Nat

VARIABLES
  toTag,      \* the To-tag of the request, Parent for none
  reliable,   \* the transport is a stream
  counter,    \* _queuedRequestCounter of each state machine
  response,   \* the state machines that have a _pResponse
  requests,   \* calls of the request handler by each state machine
  sent        \* what the last step wrote: <<transaction, on whose behalf>>

serverVars == <<toTag, reliable, counter, response, requests, sent>>

QUEUED == 1

Classes == {"1xx", "2xx", "err"}

(* The pool has created the transaction for a request.                     *)
ServerInit ==
  /\ TrnInit
  /\ toTag \in Trn
  /\ reliable \in BOOLEAN
  /\ counter = [t \in Trn |-> 0]
  /\ response = {}
  /\ requests = [t \in Trn |-> 0]
  /\ sent = {}

(* A response carries the To-tag of its request, so a response the state   *)
(* machine of the parent makes up is sent by the branch of that tag.       *)
ResponseTag(t) == IF t = Parent THEN toTag ELSE t

(* sendResponse() on a stream: neither the connection nor a new one to the *)
(* address in the Via takes the response.                                  *)
Lost(ok) == reliable /\ ~ok

(* onSendMessage() keeps the response; then it is written.                 *)
Write(t, ok, for) ==
  IF Lost(ok)
    THEN sent' = {} /\ UNCHANGED response
    ELSE sent' = {<<t, for>>} /\ response' = response \cup {t}

WriteNothing == sent' = {} /\ UNCHANGED response

(* The response kept by the state machine of t is written once more.       *)
Resend(t, for) ==
  /\ sent' = ({t} \cap response) \X {for}
  /\ UNCHANGED response

(* The TU has been handed the transaction and may respond.                 *)
HandedOver == \E t \in Trn : requests[t] > 0

-----------------------------------------------------------------------------
ServerTypeOK ==
  /\ toTag \in Trn
  /\ reliable \in BOOLEAN
  /\ counter \in [Trn -> 0 .. QUEUE_RETRY_MAX + 1]
  /\ response \subseteq Trn
  /\ requests \in [Trn -> Nat]
  /\ sent \subseteq Trn \X {"TU", "queue", "timer", "peer"}

(* A state machine hands its request to the TU at most once, however often *)
(* the request is retransmitted while it is queued or after that.          *)
DispatchedOnce == \A t \in Trn : requests[t] <= 1

(* A request the queue has rejected with a 503 is never handed to the TU,  *)
(* also not by a throttle timer that was running.                          *)
RejectedIsNotDispatched ==
  \A t \in Trn : counter[t] > QUEUE_RETRY_MAX => requests[t] = 0
=============================================================================
