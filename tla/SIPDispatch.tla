----------------------------- MODULE SIPDispatch ----------------------------
(***************************************************************************)
(* INVITEs of one transaction id on their way through SIPFSMDispatch and   *)
(* SIPIstPool, with the locks as the unit of a step.                       *)
(*                                                                         *)
(* Three threads meet here: the io_service thread, which receives the      *)
(* INVITEs and runs the timers; a thread of the TU, which responds; and    *)
(* the thread of the application that calls stop().  The transactions the  *)
(* pool creates for the id are numbered; each is a parent with no branch,  *)
(* which is what a response without a To-tag meets.                        *)
(***************************************************************************)
EXTENDS Integers

CONSTANTS
  MaxInvites   \* bound: copies of the INVITE that arrive

ASSUME SomeInvite == MaxInvites \in Nat \ {0}

VARIABLES
  thread,         \* where each thread is, and the transaction it works on
  holder,         \* who holds _mutex of each transaction
  state,          \* _state of each transaction
  hasTerminated,  \* the transactions whose _hasTerminated is set
  timed,          \* the transactions whose MaxLifetime handler has yet to run
  entry,          \* the transaction under the id in _transactionPool, None if there is none
  created,        \* how many transactions findTransaction() has created
  invites,        \* how many INVITEs have arrived
  handled,        \* the transactions the request handler was called with
  blocked,        \* _istBlocker has the id
  stopped,        \* SIPTransactionPool::stop() has run
  threw           \* the threads in which setState() has thrown

vars == <<thread, holder, state, hasTerminated, timed, entry, created, invites,
          handled, blocked, stopped, threw>>

IDLE == 0
PROCEEDING == 2
COMPLETED == 3
TERMINATED == 255

None == 0
TrnIds == 1 .. MaxInvites
Threads == {"io", "TU"}
Responses == {"2xx", "err", "lost"}
Steps == {"idle", "find", "deliver", "dispatch", "error", "terminate", "block", "remove"}
At(p, step, i) == thread[p] = [at |-> step, trn |-> i]
Goto(p, step, i) == thread' = [thread EXCEPT ![p] = [at |-> step, trn |-> i]]

Lock(p, i) == holder[i] = "none" /\ holder' = [holder EXCEPT ![i] = p]

(* The scope of the lock ends and the thread is done with its task.        *)
Finish(p, i) ==
  /\ Goto(p, "idle", None)
  /\ holder' = IF i # None /\ holder[i] = p THEN [holder EXCEPT ![i] = "none"] ELSE holder

Init ==
  /\ thread = [p \in Threads |-> [at |-> "idle", trn |-> None]]
  /\ holder = [i \in TrnIds |-> "none"]
  /\ state = [i \in TrnIds |-> IDLE]
  /\ hasTerminated = {}
  /\ timed = {}
  /\ entry = None
  /\ created = 0
  /\ invites = 0
  /\ handled = {}
  /\ blocked = FALSE
  /\ stopped = FALSE
  /\ threw = {}

(* setState() by the thread p, which then leaves the task: an exception    *)
(* unlocks what the thread holds.                                          *)
SetStateAndFinish(p, i, st) ==
  /\ Finish(p, i)
  /\ IF state[i] = TERMINATED
       THEN threw' = threw \cup {p} /\ UNCHANGED state
       ELSE state' = [state EXCEPT ![i] = st] /\ UNCHANGED threw

-----------------------------------------------------------------------------
(* The io_service thread.                                                  *)

(* An INVITE arrives and is looked up in the IST blocker.                  *)
ReceiveInvite ==
  /\ At("io", "idle", None)
  /\ invites < MaxInvites
  /\ invites' = invites + 1
  /\ IF blocked THEN UNCHANGED thread ELSE Goto("io", "find", None)
  /\ UNCHANGED <<holder, state, hasTerminated, timed, entry, created, handled,
                 blocked, stopped, threw>>

(* Mutant: a transaction is made before the lookup, and another when the   *)
(* lookup fails.                                                           *)
FindTransaction_Eager ==
  /\ At("io", "find", None)
  /\ entry' = IF entry = None THEN created + 2 ELSE entry
  /\ created' = IF entry = None THEN created + 2 ELSE created + 1
  /\ Goto("io", "deliver", entry')
  /\ UNCHANGED <<holder, state, hasTerminated, timed, invites, handled, blocked,
                 stopped, threw>>

(* findTransaction() under the mutex of the pool.                          *)
FindTransaction ==
  /\ At("io", "find", None)
  /\ entry' = IF entry = None THEN created + 1 ELSE entry
  /\ created' = IF entry = None THEN created + 1 ELSE created
  /\ Goto("io", "deliver", entry')
  /\ UNCHANGED <<holder, state, hasTerminated, timed, invites, handled, blocked,
                 stopped, threw>>

(* SIPTransaction::onReceivedMessage() locks _mutex, and the state machine *)
(* reads the state: only in IDLE there is more to do.                      *)
Deliver(i) ==
  /\ At("io", "deliver", i)
  /\ holder[i] = "none"
  /\ IF state[i] = IDLE
       THEN Lock("io", i) /\ Goto("io", "dispatch", i) /\ timed' = timed \cup {i}
       ELSE Finish("io", i) /\ UNCHANGED timed
  /\ UNCHANGED <<state, hasTerminated, entry, created, invites, handled,
                 blocked, stopped, threw>>

(* PROCEEDING, and the request handler is called.                          *)
Dispatch(i) ==
  /\ At("io", "dispatch", i)
  /\ SetStateAndFinish("io", i, PROCEEDING)
  /\ handled' = IF state[i] = TERMINATED THEN handled ELSE handled \cup {i}
  /\ UNCHANGED <<hasTerminated, timed, entry, created, invites, blocked, stopped>>

(* The MaxLifetime handler calls terminate().  A cancelled timer may have  *)
(* been queued, so the handler may run after terminate() or stop() too.    *)
LifetimeExpires(i) ==
  /\ At("io", "idle", None)
  /\ i \in timed
  /\ timed' = timed \ {i}
  /\ Goto("io", "terminate", i)
  /\ UNCHANGED <<holder, state, hasTerminated, entry, created, invites, handled,
                 blocked, stopped, threw>>

-----------------------------------------------------------------------------
(* The thread of the TU.                                                   *)

(* Mutant: writeMessage() does not lock _mutex.                            *)
Respond_NoLock(i, c) ==
  /\ At("TU", "idle", None)
  /\ i \in handled
  /\ state[i] <= PROCEEDING
  /\ c \in {"2xx", "err"}
  /\ Goto("TU", IF c = "2xx" THEN "terminate" ELSE "error", i)
  /\ UNCHANGED <<holder, state, hasTerminated, timed, entry, created, invites, handled,
                 blocked, stopped, threw>>

(* sendResponse().  A response the stream does not take ends the           *)
(* transaction; writeMessage() locks _mutex and onSendMessage() reads the  *)
(* state: a final response in PROCEEDING has more to do, a 2xx to call     *)
(* terminate() and an error to set COMPLETED.  Any other response is just  *)
(* written.                                                                *)
Respond(i, c) ==
  /\ At("TU", "idle", None)
  /\ i \in handled
  /\ \/ c = "lost" /\ Goto("TU", "terminate", i) /\ UNCHANGED holder
     \/ /\ c \in {"2xx", "err"} /\ state[i] <= PROCEEDING
        /\ Lock("TU", i)
        /\ Goto("TU", IF c = "2xx" THEN "terminate" ELSE "error", i)
  /\ UNCHANGED <<state, hasTerminated, timed, entry, created, invites, handled,
                 blocked, stopped, threw>>

(* An error response: COMPLETED.                                           *)
SendError(i) ==
  /\ At("TU", "error", i)
  /\ SetStateAndFinish("TU", i, COMPLETED)
  /\ UNCHANGED <<hasTerminated, timed, entry, created, invites, handled,
                 blocked, stopped>>

-----------------------------------------------------------------------------
(* terminate(), in either thread.                                          *)

(* Mutant: terminate() does not test _hasTerminated.                       *)
Terminate_Again(p, i) ==
  /\ At(p, "terminate", i)
  /\ holder[i] \in {"none", p}
  /\ Goto(p, "block", i)
  /\ holder' = [holder EXCEPT ![i] = p]
  /\ state' = [state EXCEPT ![i] = TERMINATED]
  /\ UNCHANGED <<hasTerminated, timed, entry, created, invites, handled,
                 blocked, stopped, threw>>

(* Mutant: _mutex is not recursive.                                        *)
Terminate_NotRecursive(p, i) ==
  /\ At(p, "terminate", i)
  /\ holder[i] = "none"
  /\ IF i \in hasTerminated
       THEN Finish(p, i) /\ UNCHANGED state
       ELSE /\ Goto(p, "block", i)
            /\ holder' = [holder EXCEPT ![i] = p]
            /\ state' = [state EXCEPT ![i] = TERMINATED]
  /\ UNCHANGED <<hasTerminated, timed, entry, created, invites, handled,
                 blocked, stopped, threw>>

(* It locks _mutex, which is recursive, and sets the state.                *)
Terminate(p, i) ==
  /\ At(p, "terminate", i)
  /\ holder[i] \in {"none", p}
  /\ IF i \in hasTerminated
       THEN Finish(p, i) /\ UNCHANGED state
       ELSE /\ Goto(p, "block", i)
            /\ holder' = [holder EXCEPT ![i] = p]
            /\ state' = [state EXCEPT ![i] = TERMINATED]
  /\ UNCHANGED <<hasTerminated, timed, entry, created, invites, handled,
                 blocked, stopped, threw>>

(* Mutant: the empty SIPFsm::onTerminate() runs.                           *)
Block_Nothing(p, i) ==
  /\ At(p, "block", i)
  /\ hasTerminated' = hasTerminated \cup {i}
  /\ Goto(p, "remove", i)
  /\ UNCHANGED <<holder, state, timed, entry, created, invites, handled, blocked,
                 stopped, threw>>

(* SIPIst::onTerminate(), and _hasTerminated is set.                       *)
Block(p, i) ==
  /\ At(p, "block", i)
  /\ blocked' = TRUE
  /\ hasTerminated' = hasTerminated \cup {i}
  /\ Goto(p, "remove", i)
  /\ UNCHANGED <<holder, state, timed, entry, created, invites, handled, stopped, threw>>

(* removeTransaction() erases what the pool has under the id.              *)
Remove(p, i) ==
  /\ At(p, "remove", i)
  /\ entry' = None
  /\ Finish(p, i)
  /\ UNCHANGED <<state, hasTerminated, timed, created, invites, handled, blocked,
                 stopped, threw>>

-----------------------------------------------------------------------------
(* SIPTransactionPool::stop(), in the thread of the application.           *)
Stop ==
  /\ ~stopped
  /\ stopped' = TRUE
  /\ state' = IF entry = None THEN state ELSE [state EXCEPT ![entry] = TERMINATED]
  /\ entry' = None
  /\ UNCHANGED <<thread, holder, hasTerminated, timed, created, invites, handled,
                 blocked, threw>>

IoStep == ReceiveInvite \/ FindTransaction
              \/ \E i \in TrnIds : Deliver(i) \/ Dispatch(i) \/ LifetimeExpires(i)
TUStep == \E i \in TrnIds : SendError(i) \/ \E c \in Responses : Respond(i, c)
TerminateStep ==
  \E p \in Threads, i \in TrnIds : Terminate(p, i) \/ Block(p, i) \/ Remove(p, i)

(* Nothing catches an exception of the io_service thread: it ends the      *)
(* process.  The TU catches those of its own thread.                       *)
Next ==
  /\ "io" \notin threw
  /\ IoStep \/ TUStep \/ TerminateStep \/ Stop

(* What a thread still does of the task it has begun.                      *)
Proceed(p) ==
  /\ "io" \notin threw
  /\ \/ p = "io" /\ FindTransaction
     \/ \E i \in TrnIds :
          \/ p = "io" /\ (Deliver(i) \/ Dispatch(i))
          \/ p = "TU" /\ SendError(i)
          \/ Terminate(p, i) \/ Block(p, i) \/ Remove(p, i)

(* Threads are scheduled: one that can go on with its task does.  Nobody   *)
(* owes an INVITE, a response, a timer or stop().                          *)
Fairness == \A p \in Threads : WF_vars(Proceed(p))

Spec == Init /\ [][Next]_vars /\ Fairness
-----------------------------------------------------------------------------
(* The types of the variables; a transaction is locked by one thread.      *)
TypeOK ==
  /\ thread \in [Threads -> [at : Steps, trn : TrnIds \cup {None}]]
  /\ holder \in [TrnIds -> Threads \cup {"none"}]
  /\ state \in [TrnIds -> {IDLE, PROCEEDING, COMPLETED, TERMINATED}]
  /\ hasTerminated \subseteq TrnIds
  /\ timed \subseteq TrnIds
  /\ entry \in TrnIds \cup {None}
  /\ created \in 0 .. MaxInvites
  /\ invites \in 0 .. MaxInvites
  /\ handled \subseteq TrnIds
  /\ blocked \in BOOLEAN
  /\ stopped \in BOOLEAN
  /\ threw \subseteq Threads

(* No thread waits forever for _mutex of a transaction, not even for one   *)
(* it holds itself when writeMessage() calls terminate(): whatever it has  *)
(* begun it finishes, or the process ends with an uncaught exception.      *)
TaskEnds ==
  \A p \in Threads :
    thread[p].at # "idle" ~> thread[p].at = "idle" \/ "io" \in threw

(* onTerminate() blocks the id before removeTransaction() drops the        *)
(* transaction, so that in no interleaving an id is neither known to the   *)
(* pool nor blocked.                                                       *)
GoneIsBlocked == created > 0 /\ entry = None /\ ~stopped => blocked

(* Until stop() runs, no thread meets "Invalid Transaction State": whoever *)
(* reads a state and then sets it holds _mutex in between.                 *)
ThrowsOnlyOnStop == threw # {} => stopped

(* removeTransaction() erases by id.  Until stop() runs it erases the      *)
(* transaction that terminates, never a later one under the same id.       *)
RemovesOwnEntry ==
  \A p \in Threads : thread[p].at = "remove" /\ ~stopped => entry = thread[p].trn

(* The reason blockIst() gives for itself: an INVITE that still arrives    *)
(* when its transaction is destroyed is not a new request.                 *)
OneTransactionPerInvite == ~stopped => created <= 1
=============================================================================
