--------------------------- MODULE SIPTransaction ---------------------------
(***************************************************************************)
(* The part of a SIP transaction that the four state machines (ICT, NICT,  *)
(* IST, NIST) share: src/sipfsm/SIPTransaction.cpp, the timers of          *)
(* SIPFsm.cpp and the entry in SIPTransactionPool.cpp.                     *)
(*                                                                         *)
(* One transaction-set is modelled: the parent transaction, which the pool *)
(* owns, and its branches, one for each To-tag seen (findBranch).  A       *)
(* message without a To-tag is handled by the parent's own state machine,  *)
(* so Parent also stands for the empty tag.                                *)
(*                                                                         *)
(* Timers, received messages and timer handlers run one at a time on the   *)
(* thread of the io_service, so a handler is one step.  A timer that has   *)
(* expired is no longer armed: its handler is queued with a success code   *)
(* and cancel() does not take it back.                                     *)
(***************************************************************************)
EXTENDS Integers, FiniteSets

CONSTANTS
  Tags,    \* the To-tags peers may answer with
  Parent   \* the parent transaction

ASSUME ParentIsNotATag == Parent \notin Tags

VARIABLES
  branches,       \* _branches: the tags a branch exists for
  state,          \* _state of the parent and of each branch
  hasTerminated,  \* the transactions whose _hasTerminated is set
  armed,          \* for each transaction, its running timers
  queued,         \* for each transaction, expired timers whose handler has yet to run
  inPool,         \* SIPTransactionPool holds the parent
  released,       \* how often terminate() has called _terminateCallback
  stopped,        \* SIPTransactionPool::stop() has run
  destroyed       \* the transactions nobody holds a shared pointer to any more

trnVars ==
  <<branches, state, hasTerminated, armed, queued, inPool, released, stopped,
    destroyed>>

TRN_STATE_IDLE == 0
TRN_STATE_TERMINATED == 255

(* The timers every SIPFsm has; each state machine starts some of them.    *)
Timers ==
  {"A", "B", "D", "E", "F", "G", "H", "I", "J", "K",
   "MaxLifetime", "ClientExpires", "RequestThrottle"}

Trn == Tags \cup {Parent}
Set(br) == br \cup {Parent}

TrnInit ==
  /\ branches = {}
  /\ state = [t \in Trn |-> TRN_STATE_IDLE]
  /\ hasTerminated = {}
  /\ armed = [t \in Trn |-> {}]
  /\ queued = [t \in Trn |-> {}]
  /\ inPool = TRUE
  /\ released = 0
  /\ stopped = FALSE
  /\ destroyed = {}

(* Mutant: a message without a To-tag creates a branch too.                *)
FindBranch_EmptyTag(t) == branches \cup {t}

(* findBranch: the branches once a message for t has been looked up.       *)
FindBranch(t) == branches \cup ({t} \ {Parent})

(* getActiveBranchCount() == 0, for states st and branches br.             *)
NoActiveBranch(st, br) == \A b \in br : st[b] = TRN_STATE_TERMINATED

(* Mutant: the loop over _branches is missing from terminate().            *)
TerminateSet_NoBranches(t, br) == {t}

(* The transactions on which terminate() runs when it is called on t: a    *)
(* parent terminates its branches too.                                     *)
TerminateSet(t, br) == IF t = Parent THEN Set(br) ELSE {t}

(* The transactions on which terminate() runs when t, now in a TERMINATED  *)
(* state in st, terminates itself and then its parent if that leaves no    *)
(* branch active.  A parent that is destroyed is not reached.              *)
TerminateWithParent(t, st, br) ==
  TerminateSet(IF NoActiveBranch(st, br) /\ Parent \notin destroyed THEN Parent ELSE t, br)

(* Mutant: terminate() does not test _hasTerminated.                       *)
Terminate_Again(K, st, arm) ==
  /\ state' = [t \in Trn |-> IF t \in K THEN TRN_STATE_TERMINATED ELSE st[t]]
  /\ armed' = [t \in Trn |-> IF t \in K THEN {} ELSE arm[t]]
  /\ hasTerminated' = hasTerminated \cup K
  /\ released' = IF Parent \in K THEN released + 1 ELSE released
  /\ inPool' = (inPool /\ Parent \notin K)
  /\ UNCHANGED destroyed

(* A step that leaves the states st and the running timers arm, and calls  *)
(* terminate() on every transaction of K.  The call returns early on a     *)
(* transaction that has terminated before.                                 *)
Terminate(K, st, arm) ==
  LET fresh == K \ hasTerminated IN
  /\ state' = [t \in Trn |-> IF t \in fresh THEN TRN_STATE_TERMINATED ELSE st[t]]
  /\ armed' = [t \in Trn |-> IF t \in fresh THEN {} ELSE arm[t]]
  /\ hasTerminated' = hasTerminated \cup K
  /\ released' = IF Parent \in fresh THEN released + 1 ELSE released
  /\ inPool' = (inPool /\ Parent \notin fresh)
  /\ UNCHANGED destroyed

(* A step in which no transaction terminates.                              *)
Continue(st, arm) == Terminate({}, st, arm)

(* The deadline of timer x passes: the io_service queues its handler.      *)
TimerExpires(t, x) ==
  /\ x \in armed[t]
  /\ armed' = [armed EXCEPT ![t] = @ \ {x}]
  /\ queued' = [queued EXCEPT ![t] = @ \cup {x}]
  /\ UNCHANGED <<branches, state, hasTerminated, inPool, released, stopped, destroyed>>

(* The handler of timer x leaves the queue of the io_service.              *)
Dequeue(t, x) ==
  /\ x \in queued[t]
  /\ queued' = [queued EXCEPT ![t] = @ \ {x}]

(* The last shared pointer to t is dropped, once the pool has dropped its  *)
(* own: a branch is also held by its parent.  Whoever was passed a branch, *)
(* as the TU is with a response, may hold it when the parent is gone.      *)
(* Handlers that are queued no longer lock the weak pointer of the state   *)
(* machine: they do nothing.                                               *)
Destroy(t) ==
  /\ ~inPool
  /\ t \in Set(branches) \ destroyed
  /\ t = Parent \/ Parent \in destroyed
  /\ destroyed' = destroyed \cup {t}
  /\ armed' = [armed EXCEPT ![t] = {}]
  /\ queued' = [queued EXCEPT ![t] = {}]
  /\ UNCHANGED <<branches, state, hasTerminated, inPool, released, stopped>>

(* SIPTransactionPool::stop(): it sets the state of the parent, cancels    *)
(* the timers of the parent and drops it; branches are not visited and     *)
(* terminate() is not called.                                              *)
PoolStop ==
  /\ inPool
  /\ inPool' = FALSE
  /\ stopped' = TRUE
  /\ state' = [state EXCEPT ![Parent] = TRN_STATE_TERMINATED]
  /\ armed' = [armed EXCEPT ![Parent] = {}]
  /\ UNCHANGED <<branches, hasTerminated, queued, released, destroyed>>

-----------------------------------------------------------------------------
TrnTypeOK(States) ==
  /\ branches \subseteq Tags
  /\ state \in [Trn -> States]
  /\ hasTerminated \subseteq Trn
  /\ armed \in [Trn -> SUBSET Timers]
  /\ queued \in [Trn -> SUBSET Timers]
  /\ inPool \in BOOLEAN
  /\ released \in Nat
  /\ stopped \in BOOLEAN
  /\ destroyed \subseteq Trn

(* A transaction is in the pool until it is released, and it is released   *)
(* exactly once: the _hasTerminated flag of terminate() makes the          *)
(* callback, and with it the delete of its owner, run a single time.       *)
ReleasedOnce ==
  /\ released = IF Parent \in hasTerminated THEN 1 ELSE 0
  /\ inPool <=> Parent \notin hasTerminated /\ ~stopped

(* No branch outlives its parent, and a terminated transaction has no      *)
(* running timer: what terminate() does to the branches under              *)
(* _branchesMutex and cancelAllTimers() reach all of them.                 *)
NothingOutlivesParent ==
  /\ Parent \in hasTerminated => branches \subseteq hasTerminated
  /\ \A t \in hasTerminated : state[t] = TRN_STATE_TERMINATED /\ armed[t] = {}

(* The states are numbered in the order they are passed, and the guards of *)
(* the handlers compare them with <=: no response, timer or retransmission *)
(* takes a transaction back to an earlier one.                             *)
NeverGoesBack == [][\A t \in Trn : state'[t] >= state[t]]_trnVars

(* TERMINATED is final: the promise of setState() and getState() in        *)
(* SIPTransaction.h, for the parent and for every branch.                  *)
TerminatedIsFinal ==
  [][\A t \in Trn : state[t] = TRN_STATE_TERMINATED => state'[t] = TRN_STATE_TERMINATED]_trnVars
=============================================================================
