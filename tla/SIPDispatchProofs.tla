------------------------- MODULE SIPDispatchProofs --------------------------
(***************************************************************************)
(* For any number of INVITEs: the id is blocked before its transaction     *)
(* leaves the pool, only the transaction that terminates is removed, and   *)
(* setState() throws only once stop() has run.                             *)
(*                                                                         *)
(* The argument rests on _mutex: a thread between reading a state and      *)
(* setting it, or inside terminate(), holds the lock of its transaction    *)
(* (Locked).  A transaction that has not terminated is therefore the one   *)
(* in the pool (LiveIsEntry), and terminate() finds it there (InTerminate).*)
(***************************************************************************)
EXTENDS SIPDispatch, TLAPS

(* A thread works on a transaction the pool has created.                   *)
Known ==
  /\ entry <= created /\ created <= invites
  /\ timed \cup handled \cup hasTerminated \subseteq 1 .. created
  /\ \A p \in Threads : thread[p].at \notin {"idle", "find"} => thread[p].trn \in 1 .. created

(* The lookup follows the arrival of an INVITE that has no transaction yet.*)
Arrived == thread["io"].at = "find" => created < invites

(* In the critical steps a thread holds _mutex.                            *)
Locked ==
  \A p \in Threads :
    thread[p].at \in {"dispatch", "error", "block", "remove"} => holder[thread[p].trn] = p

(* Until stop() runs, what has not terminated is in the pool.              *)
LiveIsEntry ==
  ~stopped => \A i \in (1 .. created) \ hasTerminated : entry = i

(* Inside terminate() the transaction is still in the pool.                *)
InTerminate ==
  \A p \in Threads :
    /\ thread[p].at \in {"block", "remove"} /\ ~stopped => entry = thread[p].trn
    /\ thread[p].at = "remove" => blocked /\ thread[p].trn \in hasTerminated

(* What a thread read of the state still holds when it sets it.            *)
StateIsCurrent ==
  \A p \in Threads :
    thread[p].at \in {"dispatch", "error"} /\ ~stopped
      => state[thread[p].trn] # TERMINATED

IInv ==
  /\ TypeOK /\ Known /\ Arrived /\ Locked /\ LiveIsEntry /\ InTerminate
  /\ StateIsCurrent /\ GoneIsBlocked /\ ThrowsOnlyOnStop

-----------------------------------------------------------------------------
USE SomeInvite DEF TrnIds, Threads, Responses, None, Steps, At, Goto,
                   IDLE, PROCEEDING, COMPLETED, TERMINATED

(* Finish() keeps the types, and leaves alone what another thread holds.   *)
LEMMA FinishTypes ==
  ASSUME TypeOK, NEW p \in Threads, NEW i \in TrnIds, Finish(p, i)
  PROVE  /\ thread' \in [Threads -> [at : Steps, trn : TrnIds \cup {None}]]
         /\ holder' \in [TrnIds -> Threads \cup {"none"}]
         /\ thread'[p] = [at |-> "idle", trn |-> None]
         /\ \A q \in Threads : q # p => thread'[q] = thread[q]
         /\ \A j \in TrnIds : holder[j] # p => holder'[j] = holder[j]
BY DEF TypeOK, Finish

(* One lemma for each action of Next: it preserves the invariant.          *)
LEMMA ReceiveInviteSafe ==
  ASSUME IInv, ReceiveInvite
  PROVE  IInv'
<1>1. TypeOK'
  BY DEF IInv, TypeOK, ReceiveInvite
<1>2. Known'
  BY DEF IInv, TypeOK, Known, Arrived, ReceiveInvite
<1>3. Arrived'
  BY DEF IInv, TypeOK, Known, Arrived, ReceiveInvite
<1>4. Locked'
  BY DEF IInv, TypeOK, Known, Locked, ReceiveInvite
<1>5. LiveIsEntry'
  BY DEF IInv, TypeOK, Known, LiveIsEntry, ReceiveInvite
<1>6. InTerminate'
  BY DEF IInv, TypeOK, Known, Locked, LiveIsEntry, InTerminate, ReceiveInvite
<1>7. StateIsCurrent'
  BY DEF IInv, TypeOK, Known, Locked, StateIsCurrent, ReceiveInvite
<1>8. GoneIsBlocked'
  BY DEF IInv, TypeOK, Known, InTerminate, GoneIsBlocked, ReceiveInvite
<1>9. ThrowsOnlyOnStop'
  BY DEF IInv, TypeOK, StateIsCurrent, ThrowsOnlyOnStop, ReceiveInvite
<1> QED
  BY <1>1, <1>2, <1>3, <1>4, <1>5, <1>6, <1>7, <1>8, <1>9 DEF IInv

(* findTransaction() returns the entry of the pool, or makes it.           *)
LEMMA FindTransactionSafe ==
  ASSUME IInv, FindTransaction
  PROVE  IInv'
<1>1. TypeOK'
  BY DEF IInv, TypeOK, Known, Arrived, FindTransaction
<1>2. Known'
  BY DEF IInv, TypeOK, Known, Arrived, FindTransaction
<1>3. Arrived'
  BY DEF IInv, TypeOK, Known, Arrived, FindTransaction
<1>4. Locked'
  BY DEF IInv, TypeOK, Known, Locked, FindTransaction
<1>5. LiveIsEntry'
  BY DEF IInv, TypeOK, Known, LiveIsEntry, FindTransaction
<1>6. InTerminate'
  BY DEF IInv, TypeOK, Known, Locked, LiveIsEntry, InTerminate, FindTransaction
<1>7. StateIsCurrent'
  BY DEF IInv, TypeOK, Known, Locked, StateIsCurrent, FindTransaction
<1>8. GoneIsBlocked'
  BY DEF IInv, TypeOK, Known, InTerminate, GoneIsBlocked, FindTransaction
<1>9. ThrowsOnlyOnStop'
  BY DEF IInv, TypeOK, StateIsCurrent, ThrowsOnlyOnStop, FindTransaction
<1> QED
  BY <1>1, <1>2, <1>3, <1>4, <1>5, <1>6, <1>7, <1>8, <1>9 DEF IInv

(* onReceivedMessage() takes the mutex of the transaction it found.        *)
LEMMA DeliverSafe ==
  ASSUME IInv, NEW i \in TrnIds, Deliver(i)
  PROVE  IInv'
<1>1. TypeOK' /\ Known'
  <2>1. CASE state[i] = IDLE
    <3>1. thread' \in [Threads -> [at : Steps, trn : TrnIds \cup {None}]]
      BY <2>1 DEF IInv, TypeOK, Deliver
    <3>2. holder' \in [TrnIds -> Threads \cup {"none"}]
      <4>1. holder' = [holder EXCEPT ![i] = "io"] /\ holder \in [TrnIds -> Threads \cup {"none"}]
        BY <2>1 DEF IInv, TypeOK, Deliver, Lock
      <4>2. QED
        BY <4>1
    <3>3. timed' \subseteq TrnIds
      <4>1. timed' = timed \cup {i} /\ timed \subseteq TrnIds
        BY <2>1, Zenon DEF IInv, TypeOK, Deliver
      <4>2. QED
        BY <4>1, Zenon
    <3>4. TypeOK'
      BY <3>1, <3>2, <3>3 DEF IInv, TypeOK, Deliver
    <3>5. i \in 1 .. created
      BY DEF IInv, TypeOK, Known, Deliver
    <3>6. thread'["io"].trn = i /\ thread'["TU"] = thread["TU"] /\ timed' = timed \cup {i}
      BY <2>1 DEF IInv, TypeOK, Deliver
    <3>7. Known'
      BY <3>5, <3>6 DEF IInv, TypeOK, Known, Deliver
    <3>8. QED
      BY <3>4, <3>7
  <2>2. CASE state[i] # IDLE
    <3>1. Finish("io", i) /\ TypeOK
      BY <2>2 DEF IInv, Deliver
    <3>2. /\ thread' \in [Threads -> [at : Steps, trn : TrnIds \cup {None}]]
          /\ holder' \in [TrnIds -> Threads \cup {"none"}]
          /\ thread'["io"] = [at |-> "idle", trn |-> None]
          /\ thread'["TU"] = thread["TU"]
      BY <3>1, FinishTypes
    <3>3. TypeOK'
      BY Zenon, <2>2, <3>2 DEF IInv, TypeOK, Deliver
    <3>4. UNCHANGED <<entry, created, invites, timed, handled, hasTerminated>>
      BY <2>2 DEF Deliver
    <3>5. Known'
      BY <3>2, <3>4 DEF IInv, Known
    <3>6. QED
      BY <3>3, <3>5
  <2>3. QED
    BY <2>1, <2>2
<1>3. Arrived'
  BY DEF IInv, TypeOK, Known, Arrived, Deliver, Lock, Finish
<1>4. Locked'
  BY DEF IInv, TypeOK, Known, Locked, Deliver, Lock, Finish
<1>5. LiveIsEntry'
  BY DEF IInv, TypeOK, Known, LiveIsEntry, Deliver, Lock, Finish
<1>6. InTerminate'
  BY DEF IInv, TypeOK, Known, Locked, LiveIsEntry, InTerminate, Deliver, Lock, Finish
<1>7. StateIsCurrent'
  BY DEF IInv, TypeOK, Known, Locked, StateIsCurrent, Deliver, Lock, Finish
<1>8. GoneIsBlocked'
  BY DEF IInv, TypeOK, Known, InTerminate, GoneIsBlocked, Deliver, Lock, Finish
<1>9. ThrowsOnlyOnStop'
  BY DEF IInv, TypeOK, StateIsCurrent, ThrowsOnlyOnStop, Deliver, Lock, Finish
<1> QED
  BY <1>1, <1>3, <1>4, <1>5, <1>6, <1>7, <1>8, <1>9 DEF IInv

(* SIPIst::onReceivedMessage() hands the INVITE over and unlocks.          *)
LEMMA DispatchSafe ==
  ASSUME IInv, NEW i \in TrnIds, Dispatch(i)
  PROVE  IInv'
<1>1. TypeOK'
  <2>1. Finish("io", i) /\ TypeOK
    BY DEF IInv, Dispatch, SetStateAndFinish
  <2>2. /\ thread' \in [Threads -> [at : Steps, trn : TrnIds \cup {None}]]
        /\ holder' \in [TrnIds -> Threads \cup {"none"}]
    BY <2>1, FinishTypes
  <2>3. state' \in [TrnIds -> {IDLE, PROCEEDING, COMPLETED, TERMINATED}]
    <3>1. state' = state \/ state' = [state EXCEPT ![i] = PROCEEDING]
      BY DEF Dispatch, SetStateAndFinish
    <3>2. QED
      BY <3>1 DEF IInv, TypeOK
  <2>4. threw' \subseteq Threads /\ handled' \subseteq TrnIds
    <3>1. /\ threw' \in {threw, threw \cup {"io"}} /\ threw \subseteq Threads
          /\ handled' \in {handled, handled \cup {i}} /\ handled \subseteq TrnIds
      BY DEF IInv, TypeOK, Dispatch, SetStateAndFinish
    <3>2. QED
      BY <3>1, Zenon
  <2>5. QED
    BY <2>2, <2>3, <2>4 DEF IInv, TypeOK, Dispatch
<1>2. Known'
  BY DEF IInv, TypeOK, Known, Arrived, Dispatch, SetStateAndFinish, Finish
<1>3. Arrived'
  BY DEF IInv, TypeOK, Known, Arrived, Dispatch, SetStateAndFinish, Finish
<1>4. Locked'
  BY DEF IInv, TypeOK, Known, Locked, Dispatch, SetStateAndFinish, Finish
<1>5. LiveIsEntry'
  BY DEF IInv, TypeOK, Known, LiveIsEntry, Dispatch, SetStateAndFinish, Finish
<1>6. InTerminate'
  BY DEF IInv, TypeOK, Known, Locked, LiveIsEntry, InTerminate, Dispatch, SetStateAndFinish, Finish
<1>7. StateIsCurrent'
  BY DEF IInv, TypeOK, Known, Locked, StateIsCurrent, Dispatch, SetStateAndFinish, Finish
<1>8. GoneIsBlocked'
  BY DEF IInv, TypeOK, Known, InTerminate, GoneIsBlocked, Dispatch, SetStateAndFinish, Finish
<1>9. ThrowsOnlyOnStop'
  BY DEF IInv, TypeOK, StateIsCurrent, ThrowsOnlyOnStop, Dispatch, SetStateAndFinish, Finish
<1> QED
  BY <1>1, <1>2, <1>3, <1>4, <1>5, <1>6, <1>7, <1>8, <1>9 DEF IInv

(* The maximum lifetime of a transaction passes.                           *)
LEMMA LifetimeExpiresSafe ==
  ASSUME IInv, NEW i \in TrnIds, LifetimeExpires(i)
  PROVE  IInv'
<1>1. TypeOK'
  BY DEF IInv, TypeOK, LifetimeExpires
<1>2. Known'
  BY DEF IInv, TypeOK, Known, Arrived, LifetimeExpires
<1>3. Arrived'
  BY DEF IInv, TypeOK, Known, Arrived, LifetimeExpires
<1>4. Locked'
  BY DEF IInv, TypeOK, Known, Locked, LifetimeExpires
<1>5. LiveIsEntry'
  BY DEF IInv, TypeOK, Known, LiveIsEntry, LifetimeExpires
<1>6. InTerminate'
  BY DEF IInv, TypeOK, Known, Locked, LiveIsEntry, InTerminate, LifetimeExpires
<1>7. StateIsCurrent'
  BY DEF IInv, TypeOK, Known, Locked, StateIsCurrent, LifetimeExpires
<1>8. GoneIsBlocked'
  BY DEF IInv, TypeOK, Known, InTerminate, GoneIsBlocked, LifetimeExpires
<1>9. ThrowsOnlyOnStop'
  BY DEF IInv, TypeOK, StateIsCurrent, ThrowsOnlyOnStop, LifetimeExpires
<1> QED
  BY <1>1, <1>2, <1>3, <1>4, <1>5, <1>6, <1>7, <1>8, <1>9 DEF IInv

(* The user sends a response under the lock of the transaction.            *)
LEMMA RespondSafe ==
  ASSUME IInv, NEW i \in TrnIds, NEW c \in Responses, Respond(i, c)
  PROVE  IInv'
<1>1. TypeOK'
  BY DEF IInv, TypeOK, Respond, Lock
<1>2. Known'
  BY DEF IInv, TypeOK, Known, Arrived, Respond, Lock
<1>3. Arrived'
  BY DEF IInv, TypeOK, Known, Arrived, Respond, Lock
<1>4. Locked'
  BY DEF IInv, TypeOK, Known, Locked, Respond, Lock
<1>5. LiveIsEntry'
  BY DEF IInv, TypeOK, Known, LiveIsEntry, Respond, Lock
<1>6. InTerminate'
  BY DEF IInv, TypeOK, Known, Locked, LiveIsEntry, InTerminate, Respond, Lock
<1>7. StateIsCurrent'
  BY DEF IInv, TypeOK, Known, Locked, StateIsCurrent, Respond, Lock
<1>8. GoneIsBlocked'
  BY DEF IInv, TypeOK, Known, InTerminate, GoneIsBlocked, Respond, Lock
<1>9. ThrowsOnlyOnStop'
  BY DEF IInv, TypeOK, StateIsCurrent, ThrowsOnlyOnStop, Respond, Lock
<1> QED
  BY <1>1, <1>2, <1>3, <1>4, <1>5, <1>6, <1>7, <1>8, <1>9 DEF IInv

(* An error response sets COMPLETED, or throws.                            *)
LEMMA SendErrorSafe ==
  ASSUME IInv, NEW i \in TrnIds, SendError(i)
  PROVE  IInv'
<1>1. TypeOK'
  <2>1. Finish("TU", i) /\ TypeOK
    BY DEF IInv, SendError, SetStateAndFinish
  <2>2. /\ thread' \in [Threads -> [at : Steps, trn : TrnIds \cup {None}]]
        /\ holder' \in [TrnIds -> Threads \cup {"none"}]
    BY <2>1, FinishTypes
  <2>3. state' \in [TrnIds -> {IDLE, PROCEEDING, COMPLETED, TERMINATED}]
    <3>1. state' = state \/ state' = [state EXCEPT ![i] = COMPLETED]
      BY DEF SendError, SetStateAndFinish
    <3>2. QED
      BY <3>1 DEF IInv, TypeOK
  <2>4. threw' \subseteq Threads
    <3>1. threw' \in {threw, threw \cup {"TU"}} /\ threw \subseteq Threads
      BY DEF IInv, TypeOK, SendError, SetStateAndFinish
    <3>2. QED
      BY <3>1, Zenon
  <2>5. QED
    BY <2>2, <2>3, <2>4 DEF IInv, TypeOK, SendError
<1>2. Known'
  BY DEF IInv, TypeOK, Known, Arrived, SendError, SetStateAndFinish, Finish
<1>3. Arrived'
  BY DEF IInv, TypeOK, Known, Arrived, SendError, SetStateAndFinish, Finish
<1>4. Locked'
  BY DEF IInv, TypeOK, Known, Locked, SendError, SetStateAndFinish, Finish
<1>5. LiveIsEntry'
  BY DEF IInv, TypeOK, Known, LiveIsEntry, SendError, SetStateAndFinish, Finish
<1>6. InTerminate'
  BY DEF IInv, TypeOK, Known, Locked, LiveIsEntry, InTerminate, SendError, SetStateAndFinish, Finish
<1>7. StateIsCurrent'
  BY DEF IInv, TypeOK, Known, Locked, StateIsCurrent, SendError, SetStateAndFinish, Finish
<1>8. GoneIsBlocked'
  BY DEF IInv, TypeOK, Known, InTerminate, GoneIsBlocked, SendError, SetStateAndFinish, Finish
<1>9. ThrowsOnlyOnStop'
  BY DEF IInv, TypeOK, StateIsCurrent, ThrowsOnlyOnStop, SendError, SetStateAndFinish, Finish
<1> QED
  BY <1>1, <1>2, <1>3, <1>4, <1>5, <1>6, <1>7, <1>8, <1>9 DEF IInv

(* terminate() passes its flag once.                                       *)
LEMMA TerminateSafe ==
  ASSUME IInv, NEW p \in Threads, NEW i \in TrnIds, Terminate(p, i)
  PROVE  IInv'
<1>1. TypeOK'
  BY DEF IInv, TypeOK, Terminate, Finish
<1>2. Known'
  BY DEF IInv, TypeOK, Known, Arrived, Terminate, Finish
<1>3. Arrived'
  BY DEF IInv, TypeOK, Known, Arrived, Terminate, Finish
<1>4. Locked'
  BY DEF IInv, TypeOK, Known, Locked, Terminate, Finish
<1>5. LiveIsEntry'
  BY DEF IInv, TypeOK, Known, LiveIsEntry, Terminate, Finish
<1>6. InTerminate'
  BY DEF IInv, TypeOK, Known, Locked, LiveIsEntry, InTerminate, Terminate, Finish
<1>7. StateIsCurrent'
  <2>1. CASE i \in hasTerminated
    BY <2>1 DEF IInv, TypeOK, Known, StateIsCurrent, Terminate, Finish
  <2>2. CASE i \notin hasTerminated
    <3>1. /\ thread'[p].at = "block"
          /\ \A q \in Threads : q # p => thread'[q] = thread[q]
          /\ \A j \in TrnIds : j # i => state'[j] = state[j]
      BY <2>2 DEF IInv, TypeOK, Terminate
    <3>2. \A q \in Threads : q # p /\ thread[q].at \in {"dispatch", "error"} => thread[q].trn # i
      BY DEF IInv, TypeOK, Known, Locked, Terminate
    <3>3. stopped' = stopped /\ \A q \in Threads : thread[q].at \notin {"idle", "find"} => thread[q].trn \in TrnIds
      BY DEF IInv, TypeOK, Known, Terminate
    <3>4. QED
      BY <3>1, <3>2, <3>3 DEF IInv, StateIsCurrent
  <2>3. QED
    BY <2>1, <2>2
<1>8. GoneIsBlocked'
  BY DEF IInv, TypeOK, Known, InTerminate, GoneIsBlocked, Terminate, Finish
<1>9. ThrowsOnlyOnStop'
  BY DEF IInv, TypeOK, StateIsCurrent, ThrowsOnlyOnStop, Terminate, Finish
<1> QED
  BY <1>1, <1>2, <1>3, <1>4, <1>5, <1>6, <1>7, <1>8, <1>9 DEF IInv

(* onTerminate() blocks the id before the pool drops it.                   *)
LEMMA BlockSafe ==
  ASSUME IInv, NEW p \in Threads, NEW i \in TrnIds, Block(p, i)
  PROVE  IInv'
<1>1. TypeOK'
  BY DEF IInv, TypeOK, Block
<1>2. Known'
  BY DEF IInv, TypeOK, Known, Arrived, Block
<1>3. Arrived'
  BY DEF IInv, TypeOK, Known, Arrived, Block
<1>4. Locked'
  BY DEF IInv, TypeOK, Known, Locked, Block
<1>5. LiveIsEntry'
  BY DEF IInv, TypeOK, Known, LiveIsEntry, Block
<1>6. InTerminate'
  BY DEF IInv, TypeOK, Known, Locked, LiveIsEntry, InTerminate, Block
<1>7. StateIsCurrent'
  BY DEF IInv, TypeOK, Known, Locked, StateIsCurrent, Block
<1>8. GoneIsBlocked'
  BY DEF IInv, TypeOK, Known, InTerminate, GoneIsBlocked, Block
<1>9. ThrowsOnlyOnStop'
  BY DEF IInv, TypeOK, StateIsCurrent, ThrowsOnlyOnStop, Block
<1> QED
  BY <1>1, <1>2, <1>3, <1>4, <1>5, <1>6, <1>7, <1>8, <1>9 DEF IInv

(* The pool drops the id, and the lock is released.                        *)
LEMMA RemoveSafe ==
  ASSUME IInv, NEW p \in Threads, NEW i \in TrnIds, Remove(p, i)
  PROVE  IInv'
<1>1. TypeOK'
  BY DEF IInv, TypeOK, Remove, Finish
<1>2. Known'
  BY DEF IInv, TypeOK, Known, Arrived, Remove, Finish
<1>3. Arrived'
  BY DEF IInv, TypeOK, Known, Arrived, Remove, Finish
<1>4. Locked'
  BY DEF IInv, TypeOK, Known, Locked, Remove, Finish
<1>5. LiveIsEntry'
  BY DEF IInv, TypeOK, Known, LiveIsEntry, InTerminate, Remove, Finish
<1>6. InTerminate'
  BY DEF IInv, TypeOK, Known, Locked, LiveIsEntry, InTerminate, Remove, Finish
<1>7. StateIsCurrent'
  BY DEF IInv, TypeOK, Known, Locked, StateIsCurrent, Remove, Finish
<1>8. GoneIsBlocked'
  BY DEF IInv, TypeOK, Known, InTerminate, GoneIsBlocked, Remove, Finish
<1>9. ThrowsOnlyOnStop'
  BY DEF IInv, TypeOK, StateIsCurrent, ThrowsOnlyOnStop, Remove, Finish
<1> QED
  BY <1>1, <1>2, <1>3, <1>4, <1>5, <1>6, <1>7, <1>8, <1>9 DEF IInv

(* stop() empties the pool while the others work.                          *)
LEMMA StopSafe ==
  ASSUME IInv, Stop
  PROVE  IInv'
<1>1. TypeOK'
  BY DEF IInv, TypeOK, Stop
<1>2. Known'
  BY DEF IInv, TypeOK, Known, Arrived, Stop
<1>3. Arrived'
  BY DEF IInv, TypeOK, Known, Arrived, Stop
<1>4. Locked'
  BY DEF IInv, TypeOK, Known, Locked, Stop
<1>5. LiveIsEntry'
  BY DEF IInv, TypeOK, Known, LiveIsEntry, Stop
<1>6. InTerminate'
  BY DEF IInv, TypeOK, Known, Locked, LiveIsEntry, InTerminate, Stop
<1>7. StateIsCurrent'
  BY DEF IInv, TypeOK, Known, Locked, StateIsCurrent, Stop
<1>8. GoneIsBlocked'
  BY DEF IInv, TypeOK, Known, InTerminate, GoneIsBlocked, Stop
<1>9. ThrowsOnlyOnStop'
  BY DEF IInv, TypeOK, StateIsCurrent, ThrowsOnlyOnStop, Stop
<1> QED
  BY <1>1, <1>2, <1>3, <1>4, <1>5, <1>6, <1>7, <1>8, <1>9 DEF IInv

(* Every step of every thread keeps the invariant.                         *)
LEMMA NextSafe ==
  ASSUME IInv, Next
  PROVE  IInv'
<1>1. CASE IoStep
  BY <1>1, ReceiveInviteSafe, FindTransactionSafe, DeliverSafe, DispatchSafe,
     LifetimeExpiresSafe DEF IoStep
<1>2. CASE TUStep
  BY <1>2, SendErrorSafe, RespondSafe DEF TUStep
<1>3. CASE TerminateStep
  BY <1>3, TerminateSafe, BlockSafe, RemoveSafe DEF TerminateStep
<1>4. CASE Stop
  BY <1>4, StopSafe
<1>5. QED
  BY <1>1, <1>2, <1>3, <1>4 DEF Next

(* The inductive invariant of the dispatcher, the pool and terminate().    *)
THEOREM DispatchInvariant == Spec => []IInv
<1>1. Init => IInv
  <2>1. ASSUME Init PROVE TypeOK
    <3>1. thread \in [Threads -> [at : Steps, trn : TrnIds \cup {None}]]
      BY <2>1 DEF Init
    <3>2. /\ holder \in [TrnIds -> Threads \cup {"none"}]
          /\ state \in [TrnIds -> {IDLE, PROCEEDING, COMPLETED, TERMINATED}]
      BY <2>1 DEF Init
    <3>3. /\ entry \in TrnIds \cup {None}
          /\ created \in 0 .. MaxInvites /\ invites \in 0 .. MaxInvites
      BY <2>1 DEF Init
    <3>4. QED
      BY <2>1, <3>1, <3>2, <3>3, Zenon DEF Init, TypeOK
  <2>2. Init => Known /\ Arrived
    BY DEF Init, Known, Arrived
  <2>3. Init => Locked /\ LiveIsEntry /\ InTerminate /\ StateIsCurrent
    BY DEF Init, Locked, LiveIsEntry, InTerminate, StateIsCurrent
  <2>4. Init => GoneIsBlocked /\ ThrowsOnlyOnStop
    BY DEF Init, GoneIsBlocked, ThrowsOnlyOnStop
  <2>5. QED
    BY <2>1, <2>2, <2>3, <2>4 DEF IInv
<1>2. IInv /\ [Next]_vars => IInv'
  <2>1. CASE Next
    BY <2>1, NextSafe
  <2>2. CASE UNCHANGED vars
    BY <2>2 DEF vars, IInv, TypeOK, Known, Arrived, Locked, LiveIsEntry, InTerminate,
                StateIsCurrent, GoneIsBlocked, ThrowsOnlyOnStop
  <2>3. QED
    BY <2>1, <2>2
<1>3. QED
  BY <1>1, <1>2, PTL DEF Spec

(* In no interleaving of the threads an id is neither known to the pool    *)
(* nor blocked: terminate() calls onTerminate() before it removes.         *)
THEOREM GoneIsBlockedHolds == Spec => []GoneIsBlocked
<1>1. IInv => GoneIsBlocked
  BY DEF IInv
<1>2. QED
  BY <1>1, DispatchInvariant, PTL

(* Until stop() runs, setState() never throws "Invalid Transaction State": *)
(* the handlers that read and then set a state hold _mutex.                *)
THEOREM ThrowsOnlyOnStopHolds == Spec => []ThrowsOnlyOnStop
<1>1. IInv => ThrowsOnlyOnStop
  BY DEF IInv
<1>2. QED
  BY <1>1, DispatchInvariant, PTL

(* Until stop() runs, removeTransaction() erases the transaction that      *)
(* terminates, though it only knows the id.                                *)
THEOREM RemovesOwnEntryHolds == Spec => []RemovesOwnEntry
<1>1. IInv => RemovesOwnEntry
  BY DEF IInv, InTerminate, RemovesOwnEntry
<1>2. QED
  BY <1>1, DispatchInvariant, PTL

(* The types of the dispatcher's variables.                                *)
THEOREM TypeCorrect == Spec => []TypeOK
<1>1. IInv => TypeOK
  BY DEF IInv
<1>2. QED
  BY <1>1, DispatchInvariant, PTL
=============================================================================
