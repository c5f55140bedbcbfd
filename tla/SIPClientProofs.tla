-------------------------- MODULE SIPClientProofs ---------------------------
(***************************************************************************)
(* The life cycle of a client transaction: the inductive invariant that    *)
(* both client transactions keep, and the proof that the operations they   *)
(* share, and those of the non-INVITE one, keep it.                        *)
(***************************************************************************)
EXTENDS SIPClients, TLAPS

(* A tag that has not been seen has no transaction: nothing has happened   *)
(* to it.  Without this a handler could be queued for a branch that does   *)
(* not exist yet, and outlive the parent.                                  *)
UnseenTagsAreIdle ==
  \A t \in Trn \ Set(branches) : queued[t] = {} /\ armed[t] = {} /\ t \notin hasTerminated

(* Before sendRequest() nothing runs, so the TU has not been released.     *)
QuietBeforeStart ==
  ~started => /\ hasTerminated = {}
              /\ \A t \in Trn : queued[t] = {} /\ armed[t] = {}

(* The inductive invariant.                                                *)
LifeCycle ==
  /\ TypeOK
  /\ ReleasedOnce
  /\ NothingOutlivesParent
  /\ UnseenTagsAreIdle
  /\ QuietBeforeStart

-----------------------------------------------------------------------------
(* What terminate() preserves, whatever the handler that calls it did to   *)
(* the states (st) and the timers (arm) before: SIPTransaction::terminate. *)
LEMMA TerminatePreserves ==
  ASSUME LifeCycle,
         NEW K \in SUBSET Trn,
         NEW st \in [Trn -> States],
         NEW arm \in [Trn -> SUBSET Timers],
         \A t \in hasTerminated : st[t] = TRN_STATE_TERMINATED /\ arm[t] = {},
         \A t \in Trn : state[t] = TRN_STATE_TERMINATED => st[t] = TRN_STATE_TERMINATED,
         branches' \subseteq Tags,
         Parent \in K => branches' \subseteq K,
         Parent \in hasTerminated => branches' = branches,
         stopped' = stopped,
         Terminate(K, st, arm)
  PROVE  /\ state' \in [Trn -> States]
         /\ armed' \in [Trn -> SUBSET Timers]
         /\ hasTerminated' \subseteq Trn
         /\ released' \in Nat
         /\ inPool' \in BOOLEAN
         /\ ReleasedOnce'
         /\ NothingOutlivesParent'
         /\ \A t \in Trn : state[t] = TRN_STATE_TERMINATED => state'[t] = TRN_STATE_TERMINATED
<1> DEFINE fresh == K \ hasTerminated
<1>1. /\ state' = [t \in Trn |-> IF t \in fresh THEN TRN_STATE_TERMINATED ELSE st[t]]
      /\ armed' = [t \in Trn |-> IF t \in fresh THEN {} ELSE arm[t]]
      /\ hasTerminated' = hasTerminated \cup K
      /\ released' = IF Parent \in fresh THEN released + 1 ELSE released
      /\ inPool' = (inPool /\ Parent \notin fresh)
  BY DEF Terminate
<1>2. TypeOK /\ ReleasedOnce /\ NothingOutlivesParent
  BY DEF LifeCycle
<1>3. /\ state' \in [Trn -> States]
      /\ armed' \in [Trn -> SUBSET Timers]
      /\ hasTerminated' \subseteq Trn
      /\ \A t \in Trn : state[t] = TRN_STATE_TERMINATED => state'[t] = TRN_STATE_TERMINATED
  BY <1>1, <1>2 DEF TypeOK, TrnTypeOK, States
<1>4. released' \in Nat
  BY <1>1, <1>2 DEF TypeOK, TrnTypeOK
<1>5. inPool' \in BOOLEAN
  BY <1>1
<1>6. Parent \in hasTerminated' <=> Parent \in fresh \/ Parent \in hasTerminated
  BY <1>1
<1>7. ReleasedOnce'
  <2>1. released' = IF Parent \in hasTerminated' THEN 1 ELSE 0
    BY <1>1, <1>2, <1>6 DEF ReleasedOnce
  <2>2. inPool' <=> Parent \notin hasTerminated' /\ ~stopped'
    BY Zenon, <1>1, <1>2, <1>6 DEF ReleasedOnce
  <2> QED BY <2>1, <2>2 DEF ReleasedOnce
<1>8. NothingOutlivesParent'
  <2>1. Parent \in hasTerminated' => branches' \subseteq hasTerminated'
    BY <1>1, <1>2 DEF NothingOutlivesParent
  <2>2. ASSUME NEW t \in hasTerminated'
        PROVE  state'[t] = TRN_STATE_TERMINATED /\ armed'[t] = {}
    <3>1. t \in Trn
      BY <1>3
    <3> QED BY <3>1, <1>1
  <2> QED BY <2>1, <2>2 DEF NothingOutlivesParent
<1> QED BY <1>3, <1>4, <1>5, <1>7, <1>8

(* The set terminate() reaches from a transaction that exists: it is a set *)
(* of transactions that exist, and with the parent come all branches.      *)
LEMMA TerminateSets ==
  ASSUME NEW br \in SUBSET Tags, NEW t \in Set(br), NEW st
  PROVE  /\ TerminateSet(t, br) \in SUBSET Set(br)
         /\ Parent \in TerminateSet(t, br) => br \subseteq TerminateSet(t, br)
         /\ TerminateWithParent(t, st, br) \in SUBSET Set(br)
         /\ Parent \in TerminateWithParent(t, st, br)
              => br \subseteq TerminateWithParent(t, st, br)
  BY ParentIsNotATag DEF TerminateSet, TerminateWithParent, Set

(* Every step keeps the life cycle, leaves TERMINATED states alone and     *)
(* calls the TU only before the release.                                   *)
SafeStep ==
  /\ LifeCycle'
  /\ \A t \in Trn : state[t] = TRN_STATE_TERMINATED => state'[t] = TRN_STATE_TERMINATED
  /\ released > 0 => told' = {}

(* Nothing runs before sendRequest().                                      *)
LEMMA InitLifeCycle == ClientInit => LifeCycle
<1> SUFFICES ASSUME ClientInit PROVE LifeCycle
  OBVIOUS
<1>1. TrnTypeOK(States)
  BY Zenon DEF ClientInit, TrnInit, TrnTypeOK, States
<1>2. ClientTypeOK
  BY Zenon DEF ClientInit, ClientTypeOK
<1>3. ReleasedOnce /\ NothingOutlivesParent
  BY DEF ClientInit, TrnInit, ReleasedOnce, NothingOutlivesParent
<1>4. UnseenTagsAreIdle
  BY DEF ClientInit, TrnInit, UnseenTagsAreIdle
<1>5. QuietBeforeStart
  BY DEF ClientInit, TrnInit, QuietBeforeStart
<1> QED BY <1>1, <1>2, <1>3, <1>4, <1>5 DEF LifeCycle, TypeOK

(* Reporting to the TU keeps the types of what is recorded of it.         *)
LEMMA TellType ==
  ASSUME ClientTypeOK, NEW t \in Trn, NEW c \in Responses \cup {"408"}, Tell(t, c) \/ TellNothing
  PROVE  /\ told' \subseteq Trn \X (Responses \cup {"408"})
         /\ finals' \in [Trn -> Nat]
         /\ heard' \in BOOLEAN
<1>1. told' \subseteq Trn \X (Responses \cup {"408"})
  BY DEF Tell, TellNothing
<1>2. finals' \in [Trn -> Nat]
  BY DEF ClientTypeOK, Tell, TellNothing
<1>3. heard' \in BOOLEAN
  BY Zenon DEF ClientTypeOK, Tell, TellNothing
<1> QED BY <1>1, <1>2, <1>3

(* A step that ends in terminate() on K and leaves the queues of unseen    *)
(* tags empty keeps the invariant.                                         *)
LEMMA TerminateStep ==
  ASSUME LifeCycle,
         NEW K \in SUBSET Set(branches'),
         NEW st \in [Trn -> States],
         NEW arm \in [Trn -> SUBSET Timers],
         \A t \in hasTerminated : st[t] = TRN_STATE_TERMINATED /\ arm[t] = {},
         \A t \in Trn : state[t] = TRN_STATE_TERMINATED => st[t] = TRN_STATE_TERMINATED,
         \A t \in Trn \ Set(branches') : arm[t] = {},
         branches \subseteq branches',
         branches' \subseteq Tags,
         Parent \in K => branches' \subseteq K,
         Parent \in hasTerminated => branches' = branches,
         queued' \in [Trn -> SUBSET Timers],
         \A t \in Trn : queued'[t] \subseteq queued[t],
         stopped' = stopped,
         started' = TRUE,
         Terminate(K, st, arm),
         ClientTypeOK'
  PROVE  /\ LifeCycle'
         /\ \A t \in Trn : state[t] = TRN_STATE_TERMINATED => state'[t] = TRN_STATE_TERMINATED
<1>1. K \in SUBSET Trn
  BY DEF Set, Trn
<1>2. /\ state' \in [Trn -> States]
      /\ armed' \in [Trn -> SUBSET Timers]
      /\ hasTerminated' \subseteq Trn
      /\ released' \in Nat
      /\ inPool' \in BOOLEAN
      /\ ReleasedOnce'
      /\ NothingOutlivesParent'
      /\ \A t \in Trn : state[t] = TRN_STATE_TERMINATED => state'[t] = TRN_STATE_TERMINATED
  BY <1>1, TerminatePreserves
<1>3. TypeOK'
  <2>1. stopped' \in BOOLEAN /\ destroyed' \subseteq Trn
    BY DEF LifeCycle, TypeOK, TrnTypeOK, Terminate
  <2> QED BY <1>2, <2>1 DEF TypeOK, TrnTypeOK, ClientTypeOK
<1>4. UnseenTagsAreIdle'
  <2> SUFFICES ASSUME NEW t \in Trn \ Set(branches')
               PROVE  queued'[t] = {} /\ armed'[t] = {} /\ t \notin hasTerminated'
    BY DEF UnseenTagsAreIdle
  <2>1. t \in Trn \ Set(branches)
    BY DEF Set
  <2>2. queued[t] = {} /\ t \notin hasTerminated
    BY <2>1 DEF LifeCycle, UnseenTagsAreIdle
  <2>3. /\ armed' = [u \in Trn |-> IF u \in K \ hasTerminated THEN {} ELSE arm[u]]
        /\ hasTerminated' = hasTerminated \cup K
    BY DEF Terminate
  <2> QED BY <2>2, <2>3
<1>5. QuietBeforeStart'
  BY DEF QuietBeforeStart
<1> QED BY <1>2, <1>3, <1>4, <1>5 DEF LifeCycle

(* The cases in which the handler changes neither states nor timers but    *)
(* by what terminate() does.                                               *)
LEMMA Unchanged ==
  ASSUME LifeCycle
  PROVE  /\ state \in [Trn -> States]
         /\ armed \in [Trn -> SUBSET Timers]
         /\ queued \in [Trn -> SUBSET Timers]
         /\ \A t \in hasTerminated : state[t] = TRN_STATE_TERMINATED /\ armed[t] = {}
         /\ \A t \in Trn \ Set(branches) : armed[t] = {} /\ queued[t] = {}
         /\ branches \subseteq Tags
         /\ hasTerminated \subseteq Trn
         /\ ClientTypeOK
  BY DEF LifeCycle, TypeOK, TrnTypeOK, NothingOutlivesParent, UnseenTagsAreIdle

(* A handler that is queued belongs to a transaction that was started and  *)
(* that exists; if it is live the TU has not been released.                *)
LEMMA QueuedHandler ==
  ASSUME LifeCycle, NEW t \in Trn, NEW x \in Timers, Dequeue(t, x)
  PROVE  /\ started = TRUE
         /\ t \in Set(branches)
         /\ queued' \in [Trn -> SUBSET Timers]
         /\ \A u \in Trn : queued'[u] \subseteq queued[u]
         /\ state[t] # TRN_STATE_TERMINATED => ~(released > 0)
<1>1. started = TRUE /\ t \in Set(branches)
  BY Unchanged DEF Dequeue, LifeCycle, QuietBeforeStart, ClientTypeOK
<1>2. /\ queued' \in [Trn -> SUBSET Timers]
      /\ \A u \in Trn : queued'[u] \subseteq queued[u]
  BY Unchanged DEF Dequeue
<1>3. state[t] # TRN_STATE_TERMINATED => ~(released > 0)
  <2>1. state[t] # TRN_STATE_TERMINATED => Parent \notin hasTerminated
    BY <1>1 DEF LifeCycle, NothingOutlivesParent, Set
  <2> QED BY <2>1 DEF LifeCycle, ReleasedOnce
<1> QED BY <1>1, <1>2, <1>3

(* A request without a transport is released at once.                      *)
LEMMA SendRequestNoTransportSafe ==
  ASSUME LifeCycle, SendRequestNoTransport
  PROVE  SafeStep
<1>1. Parent \notin hasTerminated /\ ~(released > 0)
  BY DEF SendRequestNoTransport, LifeCycle, QuietBeforeStart, ReleasedOnce
<1>2. ClientTypeOK'
  BY Zenon, Unchanged, TellType DEF SendRequestNoTransport, ClientTypeOK, Trn, Nothing
<1> DEFINE K == TerminateSet(Parent, branches)
<1>3. K \in SUBSET Set(branches') /\ branches' \subseteq K
  BY Unchanged DEF SendRequestNoTransport, TerminateSet, Set
<1>4. Terminate(K, state, armed) /\ UNCHANGED <<branches, queued, stopped>> /\ started' = TRUE
  BY DEF SendRequestNoTransport
<1> HIDE DEF K
<1> QED BY Zenon, <1>1, <1>2, <1>3, <1>4, Unchanged, TerminateStep DEF SafeStep

(* The branch a response is given to exists then.                          *)
LEMMA BranchFound ==
  ASSUME LifeCycle, NEW t \in Trn, branches' = FindBranch(t)
  PROVE  /\ t \in Set(branches')
         /\ branches \subseteq branches'
         /\ branches' \subseteq Tags
  BY Unchanged DEF FindBranch, Set, Trn

(* A timer expires: its handler is queued.                                 *)
LEMMA ExpireSafe ==
  ASSUME LifeCycle, NEW t \in Trn, NEW x \in Timers, Expire(t, x)
  PROVE  SafeStep
<1> USE DEF Expire, TimerExpires, Invisible, TellNothing
<1>1. TrnTypeOK(States)'
  BY DEF LifeCycle, TypeOK, TrnTypeOK
<1>2. ClientTypeOK'
  BY DEF LifeCycle, TypeOK, ClientTypeOK
<1>3. ReleasedOnce'
  BY DEF LifeCycle, ReleasedOnce
<1>4. NothingOutlivesParent'
  BY Unchanged DEF LifeCycle, NothingOutlivesParent
<1>5. UnseenTagsAreIdle' /\ QuietBeforeStart'
  BY Unchanged DEF LifeCycle, UnseenTagsAreIdle, QuietBeforeStart, Set
<1> QED BY <1>1, <1>2, <1>3, <1>4, <1>5 DEF SafeStep, LifeCycle, TypeOK

(* The last reference to a transaction goes.                               *)
LEMMA DropLastSafe ==
  ASSUME LifeCycle, NEW t \in Trn, DropLast(t)
  PROVE  SafeStep
<1> USE DEF DropLast, Destroy, Invisible, TellNothing
<1>1. TrnTypeOK(States)'
  BY DEF LifeCycle, TypeOK, TrnTypeOK
<1>2. ClientTypeOK'
  BY DEF LifeCycle, TypeOK, ClientTypeOK
<1>3. ReleasedOnce'
  BY DEF LifeCycle, ReleasedOnce
<1>4. NothingOutlivesParent'
  BY Unchanged DEF LifeCycle, NothingOutlivesParent
<1>5. UnseenTagsAreIdle' /\ QuietBeforeStart'
  BY Unchanged DEF LifeCycle, UnseenTagsAreIdle, QuietBeforeStart, Set
<1> QED BY <1>1, <1>2, <1>3, <1>4, <1>5 DEF SafeStep, LifeCycle, TypeOK

(* The pool stops and forgets its transactions.                            *)
LEMMA StopSafe ==
  ASSUME LifeCycle, Stop
  PROVE  SafeStep
<1> USE DEF Stop, PoolStop, Invisible, TellNothing
<1>1. TrnTypeOK(States)'
  BY Zenon DEF LifeCycle, TypeOK, TrnTypeOK, States
<1>2. ClientTypeOK'
  BY DEF LifeCycle, TypeOK, ClientTypeOK
<1>3. ReleasedOnce'
  BY DEF LifeCycle, ReleasedOnce
<1>4. NothingOutlivesParent'
  BY Unchanged DEF LifeCycle, NothingOutlivesParent
<1>5. UnseenTagsAreIdle' /\ QuietBeforeStart'
  BY Unchanged DEF LifeCycle, UnseenTagsAreIdle, QuietBeforeStart, Set
<1>6. \A t \in Trn : state[t] = TRN_STATE_TERMINATED => state'[t] = TRN_STATE_TERMINATED
  BY Unchanged
<1> QED BY <1>1, <1>2, <1>3, <1>4, <1>5, <1>6 DEF SafeStep, LifeCycle, TypeOK

(* SIPFsm::handleDelayedTerminate() ends a branch, or all with the parent. *)
LEMMA DelayedTerminateSafe ==
  ASSUME LifeCycle, NEW t \in Trn, NEW x \in Timers, DelayedTerminate(t, x)
  PROVE  SafeStep
<1> DEFINE st == [state EXCEPT ![t] = TRN_STATE_TERMINATED]
           K == TerminateWithParent(t, st, branches)
<1>1. /\ UNCHANGED <<branches, stopped, started, reliable, connStopped>>
      /\ TellNothing /\ Dequeue(t, x) /\ last' = Nothing /\ sent' = {}
      /\ Terminate(K, state, armed)
  BY DEF DelayedTerminate, Invisible
<1>2. ClientTypeOK' /\ told' = {}
  BY <1>1, Unchanged DEF ClientTypeOK, TellNothing
<1>3. K \in SUBSET Set(branches) /\ (Parent \in K => branches \subseteq K)
  BY Zenon, <1>1, Unchanged, QueuedHandler, TerminateSets
<1> HIDE DEF K
<1> QED BY Zenon, <1>1, <1>2, <1>3, Unchanged, QueuedHandler, TerminateStep DEF SafeStep

(* The invariant is about the variables of the model only.                 *)
LEMMA LifeCycleStutter == LifeCycle /\ UNCHANGED vars => LifeCycle'
  BY DEF vars, trnVars, clientVars, LifeCycle, TypeOK, TrnTypeOK, ClientTypeOK, ReleasedOnce,
         NothingOutlivesParent, UnseenTagsAreIdle, QuietBeforeStart

-----------------------------------------------------------------------------
(* The promise to the TU, and the last resort.                             *)

(* What the promise rests on: a transaction that has reported a final      *)
(* response is past PROCEEDING, and timer x, which reports the timeout,    *)
(* runs in the parent only, so that its terminate() releases the TU.       *)
Promise(x) ==
  /\ \A t \in Trn : finals[t] > 0 => state[t] > PROCEEDING
  /\ \A t \in Tags : x \notin armed[t] /\ x \notin queued[t]

(* A request that is sent is IDLE until then, and has its last resort      *)
(* afterwards.                                                             *)
Reaped ==
  /\ AlwaysReaped
  /\ ~started /\ inPool => state[Parent] = TRN_STATE_IDLE

(* Nothing is promised and nothing reported before sendRequest().          *)
LEMMA InitPromise ==
  ASSUME ClientInit, NEW x
  PROVE  Promise(x) /\ Reaped /\ User!Init
<1>1. Promise(x)
  BY DEF ClientInit, TrnInit, Promise, Trn
<1>2. Reaped
  BY DEF ClientInit, TrnInit, Reaped, AlwaysReaped, Trn
<1>3. User!Init
  BY DEF ClientInit, TrnInit, User!Init
<1> QED BY <1>1, <1>2, <1>3

(* A step keeps the promise when it reports a final response only together *)
(* with a state past PROCEEDING, and starts the timeout in no branch.      *)
LEMMA PromiseKept ==
  ASSUME TypeOK, NEW x, Promise(x), NEW K, NEW st, NEW arm, Terminate(K, st, arm),
         \A t \in Trn : finals'[t] > 0 => st[t] > PROCEEDING,
         \A t \in Tags : x \notin arm[t],
         \A t \in Trn : queued'[t] \subseteq queued[t]
  PROVE  Promise(x)'
<1>1. \A t \in Trn : /\ state'[t] \in {TRN_STATE_TERMINATED, st[t]}
                     /\ armed'[t] \in {{}, arm[t]}
  BY DEF Terminate
<1>2. TRN_STATE_TERMINATED > PROCEEDING
  BY DEF TRN_STATE_TERMINATED, PROCEEDING
<1>3. \A t \in Trn : finals'[t] > 0 => state'[t] > PROCEEDING
  BY <1>1, <1>2
<1>4. \A t \in Tags : x \notin armed'[t] /\ x \notin queued'[t]
  BY <1>1 DEF Promise, Trn
<1> QED BY <1>3, <1>4 DEF Promise

(* A step keeps the maximum lifetime running when it does not stop it in   *)
(* the parent.                                                             *)
LEMMA ReapedKept ==
  ASSUME LifeCycle, NEW K, NEW st, NEW arm, Terminate(K, st, arm), started' = TRUE,
         inPool /\ Parent \notin K => "MaxLifetime" \in arm[Parent] \cup queued'[Parent]
  PROVE  Reaped'
<1>1. inPool => Parent \notin hasTerminated
  BY DEF LifeCycle, ReleasedOnce
<1>2. inPool' => inPool /\ Parent \notin K
  BY Zenon, <1>1 DEF Terminate
<1>3. Parent \notin K => armed'[Parent] = arm[Parent]
  BY DEF Terminate, Trn
<1>4. AlwaysReaped'
  BY <1>2, <1>3 DEF AlwaysReaped
<1> QED BY <1>4 DEF Reaped

(* A step that does not call the TU is one SIPClientUser allows.           *)
LEMMA SilentStep ==
  ASSUME LifeCycle, LifeCycle', hasTerminated \subseteq hasTerminated', TellNothing,
         started' = started
  PROVE  User!Silent
<1>1. told' = {} /\ finals' = finals
  BY DEF TellNothing
<1>2. released \in {0, 1} /\ released' \in {0, 1} /\ (released = 1 => released' = 1)
  BY DEF LifeCycle, ReleasedOnce
<1>3. ~started => released' = 0
  BY DEF LifeCycle, ReleasedOnce, QuietBeforeStart
<1>4. released' \in {released, IF started THEN 1 ELSE 0}
  BY <1>2, <1>3
<1> QED BY <1>1, <1>4 DEF User!Silent

(* A 408 with which the parent ends is one SIPClientUser allows.           *)
LEMMA TimeOutStep ==
  ASSUME LifeCycle, NEW t \in Trn, NEW K, NEW st, NEW arm, Terminate(K, st, arm),
         Parent \in K, Parent \notin hasTerminated, Tell(t, "408"), started' = TRUE
  PROVE  User!TimeOut(t)
<1>1. released = 0
  BY DEF LifeCycle, ReleasedOnce
<1>2. released' = 1
  BY <1>1 DEF Terminate
<1>3. told' = {<<t, "408">>} /\ finals' = finals
  BY DEF Tell, Final
<1> QED BY <1>1, <1>2, <1>3 DEF User!TimeOut

(* A response of a transaction up to PROCEEDING is one SIPClientUser       *)
(* allows.                                                                 *)
LEMMA AnswerStep ==
  ASSUME LifeCycle, LifeCycle', NEW x, Promise(x), NEW t \in Trn, NEW c \in Responses,
         started, inPool, state[t] <= PROCEEDING, Tell(t, c), started' = started,
         c = "1xx" => released' = released
  PROVE  User!Answer(t, c)
<1>1. released = 0 /\ released' \in {0, 1}
  BY DEF LifeCycle, ReleasedOnce
<1>2. state[t] \in Nat /\ finals \in [Trn -> Nat]
  BY Unchanged DEF States, TRN_STATE_IDLE, TRYING, PROCEEDING, COMPLETED,
                   TRN_STATE_TERMINATED, ClientTypeOK
<1>3. ~(finals[t] > 0)
  BY <1>2 DEF Promise, PROCEEDING
<1>4. CASE c \in Final
  <2>1. finals' = [finals EXCEPT ![t] = @ + 1] /\ told' = {<<t, c>>}
    BY <1>4 DEF Tell
  <2>2. {u \in Trn : finals'[u] > 0} = {u \in Trn : finals[u] > 0} \cup {t}
    BY <1>2, <2>1
  <2> QED BY <1>1, <1>3, <1>4, <2>1, <2>2 DEF User!Answer
<1>5. CASE c \notin Final
  <2>1. finals' = finals /\ told' = {<<t, c>>} /\ c = "1xx"
    BY <1>5 DEF Tell, Responses
  <2> QED BY <1>1, <1>3, <1>5, <2>1 DEF User!Answer
<1> QED BY <1>4, <1>5

(* A step keeps what the promise rests on and is a step of the promise.    *)
Kept(x) == Promise(x)' /\ Reaped' /\ User!Next

(* The TU of a request without a transport gets its 408 and the release.   *)
LEMMA SendRequestNoTransportKept ==
  ASSUME LifeCycle, NEW x, Promise(x), SendRequestNoTransport
  PROVE  Kept(x)
<1> DEFINE K == TerminateSet(Parent, branches)
<1>1. /\ Terminate(K, state, armed) /\ Tell(Parent, "408")
      /\ started' = TRUE /\ queued' = queued
  BY DEF SendRequestNoTransport
<1>2. Parent \in K /\ Parent \notin hasTerminated
  BY DEF SendRequestNoTransport, LifeCycle, QuietBeforeStart, TerminateSet, Set
<1> HIDE DEF K
<1>3. Parent \in Trn
  BY DEF Trn
<1>4. User!TimeOut(Parent)
  BY <1>1, <1>2, <1>3, TimeOutStep
<1>5. finals' = finals
  BY <1>1 DEF Tell, Final
<1>6. Promise(x)'
  <2>1. \A t \in Trn : finals'[t] > 0 => state[t] > PROCEEDING
    BY <1>5 DEF Promise
  <2>2. \A t \in Tags : x \notin armed[t]
    BY DEF Promise
  <2> QED BY <1>1, <2>1, <2>2, PromiseKept DEF LifeCycle
<1>7. Reaped'
  BY <1>1, <1>2, ReapedKept
<1> QED BY <1>3, <1>4, <1>6, <1>7 DEF Kept, User!Next

(* A step in which nothing terminates and the TU is not called.            *)
LEMMA EnvironmentKept ==
  ASSUME LifeCycle, SafeStep, NEW x, Promise(x), Reaped,
         Stop \/ \E t \in Trn : DropLast(t) \/ \E y \in Timers : Expire(t, y)
  PROVE  Kept(x)
<1>1. LifeCycle'
  BY DEF SafeStep
<1>2. TellNothing /\ started' = started /\ hasTerminated' = hasTerminated
  BY DEF Stop, PoolStop, DropLast, Destroy, Expire, TimerExpires, Invisible
<1>3. User!Silent
  BY <1>1, <1>2, SilentStep
<1>4. finals' = finals /\ \A t \in Trn : state'[t] \in {state[t], TRN_STATE_TERMINATED}
  BY <1>2, Unchanged DEF TellNothing, Stop, PoolStop, DropLast, Destroy, Expire, TimerExpires
<1>5. \A t \in Trn : armed'[t] \cup queued'[t] \subseteq armed[t] \cup queued[t]
  BY Unchanged DEF Stop, PoolStop, DropLast, Destroy, Expire, TimerExpires
<1>6. Promise(x)'
  <2>1. \A t \in Trn : finals'[t] > 0 => state'[t] > PROCEEDING
    BY <1>4 DEF Promise, PROCEEDING, TRN_STATE_TERMINATED
  <2>2. \A t \in Tags : x \notin armed'[t] /\ x \notin queued'[t]
    BY <1>5 DEF Promise, Trn
  <2> QED BY <2>1, <2>2 DEF Promise
<1>7. inPool' => /\ inPool /\ state'[Parent] = state[Parent]
                 /\ armed'[Parent] \cup queued'[Parent] = armed[Parent] \cup queued[Parent]
  <2>1. CASE Stop \/ \E t \in Trn : DropLast(t)
    BY Zenon, <2>1 DEF Stop, PoolStop, DropLast, Destroy
  <2>2. ASSUME NEW t \in Trn, NEW y \in Timers, Expire(t, y)
        PROVE  /\ inPool' = inPool /\ state' = state
               /\ armed'[Parent] \cup queued'[Parent] = armed[Parent] \cup queued[Parent]
    <3>1. /\ y \in armed[t] /\ inPool' = inPool /\ state' = state
          /\ armed' = [armed EXCEPT ![t] = @ \ {y}]
          /\ queued' = [queued EXCEPT ![t] = @ \cup {y}]
      BY <2>2 DEF Expire, TimerExpires
    <3>2. Parent \in Trn /\ armed \in [Trn -> SUBSET Timers] /\ queued \in [Trn -> SUBSET Timers]
      BY Unchanged DEF Trn
    <3>3. CASE t = Parent
      BY <3>1, <3>2, <3>3
    <3>4. CASE t # Parent
      BY <3>1, <3>2, <3>4
    <3> QED BY <3>1, <3>3, <3>4
  <2> QED BY Zenon, <2>1, <2>2
<1>8. Reaped'
  BY <1>2, <1>7 DEF Reaped, AlwaysReaped
<1> QED BY <1>3, <1>6, <1>8 DEF Kept, User!Next

(* A timer handler y that keeps the states and reports nothing; only the   *)
(* one of the maximum lifetime takes the last resort out of the queue, and *)
(* it terminates the parent.                                               *)
LEMMA QuietHandlerKept ==
  ASSUME LifeCycle, SafeStep, NEW x, Promise(x), Reaped,
         NEW t \in Trn, NEW y \in Timers, Dequeue(t, y), TellNothing, started' = started,
         NEW K, NEW arm, Terminate(K, state, arm),
         \A u \in Tags : x \notin arm[u],
         "MaxLifetime" \in armed[Parent] => "MaxLifetime" \in arm[Parent],
         y = "MaxLifetime" /\ t = Parent => Parent \in K
  PROVE  Kept(x)
<1>1. LifeCycle' /\ started = TRUE /\ \A u \in Trn : queued'[u] \subseteq queued[u]
  BY Zenon, QueuedHandler DEF SafeStep
<1>2. hasTerminated \subseteq hasTerminated' /\ finals' = finals
  BY DEF Terminate, TellNothing
<1>3. User!Silent
  BY <1>1, <1>2, SilentStep
<1>4. \A u \in Trn : finals'[u] > 0 => state[u] > PROCEEDING
  BY <1>2 DEF Promise
<1>5. Promise(x)'
  BY <1>1, <1>4, PromiseKept DEF LifeCycle
<1>6. ASSUME inPool, Parent \notin K PROVE "MaxLifetime" \in arm[Parent] \cup queued'[Parent]
  <2>1. "MaxLifetime" \in armed[Parent] \cup queued[Parent]
    BY <1>1, <1>6 DEF Reaped, AlwaysReaped
  <2>2. CASE "MaxLifetime" \in queued[Parent]
    BY <1>6, <2>2, Unchanged DEF Dequeue, Trn
  <2> QED BY <2>1, <2>2
<1>7. Reaped'
  BY <1>1, <1>6, ReapedKept
<1> QED BY <1>3, <1>5, <1>7 DEF Kept, User!Next

(* handleDelayedTerminate() calls nobody but the release callback.         *)
LEMMA DelayedTerminateKept ==
  ASSUME LifeCycle, SafeStep, NEW x, Promise(x), Reaped,
         NEW t \in Trn, NEW y \in Timers, DelayedTerminate(t, y)
  PROVE  Kept(x)
<1> DEFINE K == TerminateWithParent(t, [state EXCEPT ![t] = TRN_STATE_TERMINATED], branches)
<1>1. /\ Dequeue(t, y) /\ TellNothing /\ started' = started
      /\ Terminate(K, state, armed)
  BY DEF DelayedTerminate, Invisible
<1>2. t = Parent => Parent \in K
  BY DEF TerminateWithParent, TerminateSet, Set
<1>3. \A u \in Tags : x \notin armed[u]
  BY DEF Promise
<1> HIDE DEF K
<1> QED BY <1>1, <1>2, <1>3, QuietHandlerKept

-----------------------------------------------------------------------------
Live == inPool => state[Parent] # TRN_STATE_TERMINATED

(* The inductive invariant: the life cycle, and that setState(TERMINATED)  *)
(* on the parent comes with its terminate().  The second is what makes the *)
(* setState(COMPLETED) on the parent of a new branch safe.                 *)
NictLifeCycle == LifeCycle /\ Live

(* A step that terminates K, from states in which a parent that stays in   *)
(* the pool is live.                                                       *)
LEMMA PooledStep ==
  ASSUME TypeOK, NEW K, NEW st, NEW arm,
         inPool => st[Parent] # TRN_STATE_TERMINATED,
         Terminate(K, st, arm)
  PROVE  Live'
<1>1. /\ state'[Parent] = IF Parent \in K \ hasTerminated THEN TRN_STATE_TERMINATED ELSE st[Parent]
      /\ inPool' = (inPool /\ Parent \notin K \ hasTerminated)
  BY DEF Terminate, Trn
<1> QED BY Zenon, <1>1 DEF Live

(* SIPTransaction::sendRequest() starts the timers of a parent that had    *)
(* none.                                                                   *)
LEMMA NictSendRequestSafe ==
  ASSUME LifeCycle, NEW rel \in BOOLEAN, NictSendRequest(rel)
  PROVE  SafeStep
<1>1. hasTerminated = {} /\ ~(released > 0)
  BY DEF NictSendRequest, LifeCycle, QuietBeforeStart, ReleasedOnce
<1>2. ClientTypeOK'
  BY Unchanged, TellType DEF NictSendRequest, TellNothing, ClientTypeOK, Requests, Trn, Nothing
<1>3. told' = {} /\ UNCHANGED <<branches, queued, stopped>> /\ started' = TRUE
  BY DEF NictSendRequest, TellNothing
<1>4. CASE state[Parent] = TRN_STATE_IDLE
  <2> DEFINE st == [state EXCEPT ![Parent] = TRYING]
             arm == [armed EXCEPT ![Parent] = NictStartedTimers(rel)]
  <2>1. Terminate({}, st, arm)
    BY <1>4 DEF NictSendRequest, Continue
  <2>2. st \in [Trn -> States] /\ arm \in [Trn -> SUBSET Timers]
    BY Zenon, Unchanged DEF States, Timers, NictStartedTimers
  <2>3. /\ \A t \in Trn : state[t] = TRN_STATE_TERMINATED => st[t] = TRN_STATE_TERMINATED
        /\ \A t \in Trn \ Set(branches') : arm[t] = {}
    BY <1>3, <1>4, Unchanged DEF Set, TRN_STATE_IDLE, TRN_STATE_TERMINATED
  <2> HIDE DEF st, arm
  <2> QED BY Zenon, <1>1, <1>2, <1>3, <2>1, <2>2, <2>3, Unchanged, TerminateStep DEF SafeStep
<1>5. CASE state[Parent] # TRN_STATE_IDLE
  <2> DEFINE K == TerminateSet(Parent, branches)
  <2>1. Terminate(K, state, armed)
    BY <1>5 DEF NictSendRequest
  <2>2. K \in SUBSET Set(branches') /\ branches' \subseteq K
    BY <1>3, Unchanged DEF TerminateSet, Set
  <2> HIDE DEF K
  <2> QED BY <1>1, <1>2, <1>3, <2>1, <2>2, Unchanged, TerminateStep DEF SafeStep
<1> QED BY <1>4, <1>5

(* SIPNict::onReceivedMessage() sets the state of the branch and of its    *)
(* parent, which is live.                                                  *)
LEMMA NictReceiveResponseSafe ==
  ASSUME LifeCycle, Live,
         NEW t \in Trn, NEW c \in Responses, NictReceiveResponse(t, c)
  PROVE  SafeStep
<1>1. /\ Parent \notin hasTerminated
      /\ ~(released > 0)
      /\ state[Parent] # TRN_STATE_TERMINATED
  BY DEF NictReceiveResponse, LifeCycle, ReleasedOnce, Live
<1>2. ClientTypeOK'
  <2>1. Tell(t, "1xx") \/ Tell(t, c) \/ TellNothing
    BY DEF NictReceiveResponse, NictOnProvisional, OnFinal, NictOnLateResponse
  <2>2. /\ told' \subseteq Trn \X (Responses \cup {"408"})
        /\ finals' \in [Trn -> Nat]
        /\ heard' \in BOOLEAN
    BY <2>1, Unchanged, TellType DEF Responses, Final
  <2>3. sent' = {} /\ last' \in {Nothing} \cup (Trn \X Responses)
    BY DEF NictReceiveResponse
  <2>4. UNCHANGED <<started, reliable, connStopped>>
    BY DEF NictReceiveResponse
  <2> QED BY <2>2, <2>3, <2>4, Unchanged DEF ClientTypeOK
<1>3. /\ branches' = FindBranch(t)
      /\ UNCHANGED <<queued, stopped>>
      /\ started' = TRUE
  BY Unchanged DEF NictReceiveResponse, ClientTypeOK
<1>4. /\ t \in Set(branches')
      /\ branches \subseteq branches'
      /\ branches' \subseteq Tags
  BY <1>3, BranchFound
<1>5. \A x \in Trn \ Set(branches') : armed[x] = {}
  BY <1>4, Unchanged DEF Set
<1>6. CASE c = "1xx" /\ NictOnProvisional(t)
  <2> DEFINE st == [x \in Trn |-> IF x = t \/ (x = Parent /\ state[Parent] < PROCEEDING)
                                    THEN PROCEEDING ELSE state[x]]
  <2>1. Terminate({}, st, armed)
    BY <1>6 DEF NictOnProvisional, Continue
  <2>2. st \in [Trn -> States]
    BY Unchanged DEF States
  <2>3. \A x \in Trn : state[x] = TRN_STATE_TERMINATED => st[x] = TRN_STATE_TERMINATED
    BY <1>6, Unchanged DEF NictOnProvisional, PROCEEDING, TRN_STATE_TERMINATED
  <2> HIDE DEF st
  <2>4. /\ \A x \in hasTerminated : st[x] = TRN_STATE_TERMINATED /\ armed[x] = {}
        /\ armed \in [Trn -> SUBSET Timers]
    BY <2>3, Unchanged
  <2>5. /\ queued' \in [Trn -> SUBSET Timers]
        /\ \A x \in Trn : queued'[x] \subseteq queued[x]
    BY <1>3, Unchanged
  <2>6. {} \in SUBSET Set(branches')
    BY Zenon
  <2> QED BY <1>1, <1>2, <1>3, <1>4, <1>5, <2>1, <2>2, <2>3, <2>4, <2>5, <2>6, TerminateStep
          DEF SafeStep
<1>7. CASE NictOnLateResponse(t)
  <2>1. Terminate({}, state, armed)
    BY <1>7 DEF NictOnLateResponse, Continue
  <2> QED BY <1>1, <1>2, <1>3, <1>4, <1>5, <2>1, Unchanged, TerminateStep DEF SafeStep
<1>8. CASE c \in Final /\ OnFinal(t, c)
  <2> DEFINE st == [x \in Trn |-> IF x = t \/ (x = Parent /\ CompletesParent(t, c))
                                    THEN COMPLETED ELSE state[x]]
             run == [x \in Trn |-> IF x \in Quietened(t, c)
                                     THEN armed[x] \ {"E", "F"} ELSE armed[x]]
  <2>1. t \notin hasTerminated /\ state[t] # TRN_STATE_TERMINATED
    <3>1. state[t] # TRN_STATE_TERMINATED
      BY <1>8 DEF OnFinal, PROCEEDING, TRN_STATE_TERMINATED
    <3> QED BY <3>1, Unchanged
  <2>2. st \in [Trn -> States]
    BY Unchanged DEF States
  <2>3. /\ run \in [Trn -> SUBSET Timers]
        /\ \A x \in hasTerminated : run[x] = {}
        /\ \A x \in Trn \ Set(branches') : run[x] = {}
    BY <1>5, Unchanged
  <2>4. /\ \A x \in hasTerminated : st[x] = TRN_STATE_TERMINATED
        /\ \A x \in Trn : state[x] = TRN_STATE_TERMINATED => st[x] = TRN_STATE_TERMINATED
    BY <1>1, <2>1, Unchanged
  <2>5. CASE reliable
    <3> DEFINE K == Set(branches')
    <3>1. Terminate(K, st, run)
      BY <1>3, <1>8, <2>5 DEF OnFinal
    <3>2. /\ K \in SUBSET Set(branches')
          /\ branches' \subseteq K
      BY DEF Set
    <3> HIDE DEF st, run, K
    <3>3. /\ \A x \in hasTerminated : st[x] = TRN_STATE_TERMINATED /\ run[x] = {}
          /\ queued' \in [Trn -> SUBSET Timers]
          /\ \A x \in Trn : queued'[x] \subseteq queued[x]
      BY Zenon, <1>3, <2>3, <2>4, Unchanged
    <3> QED BY Zenon, <1>1, <1>2, <1>3, <1>4, <2>2, <2>3, <2>4, <3>1, <3>2, <3>3, TerminateStep
            DEF SafeStep
  <2>6. CASE ~reliable
    <3> DEFINE arm == [run EXCEPT ![t] = @ \cup {"K"}]
    <3>1. Terminate({}, st, arm)
      BY <1>8, <2>6 DEF OnFinal, Continue
    <3>2. /\ arm \in [Trn -> SUBSET Timers]
          /\ \A x \in hasTerminated : arm[x] = {}
          /\ \A x \in Trn \ Set(branches') : arm[x] = {}
      BY <1>4, <2>1, <2>3, Unchanged DEF Timers
    <3> HIDE DEF st, run, arm
    <3>3. /\ \A x \in hasTerminated : st[x] = TRN_STATE_TERMINATED /\ arm[x] = {}
          /\ queued' \in [Trn -> SUBSET Timers]
          /\ \A x \in Trn : queued'[x] \subseteq queued[x]
      BY <1>3, <2>4, <3>2, Unchanged
    <3> QED BY Zenon, <1>1, <1>2, <1>3, <1>4, <2>2, <2>4, <3>1, <3>2, <3>3, TerminateStep
            DEF SafeStep
  <2> QED BY <2>5, <2>6
<1> QED BY <1>6, <1>7, <1>8 DEF NictReceiveResponse

(* The handlers of Timers E, F and K and of the maximum lifetime.          *)
LEMMA NictHandlerSafe ==
  ASSUME LifeCycle, NEW t \in Trn, NEW x \in Timers, NictRunHandler(t, x)
  PROVE  SafeStep
<1>1. CASE x = "E" /\ HandleRetransmitRequest(t)
  <2>1. /\ UNCHANGED <<branches, stopped, started, reliable, connStopped>>
        /\ TellNothing /\ Dequeue(t, x) /\ last' = Nothing
        /\ sent' \subseteq Requests
    BY <1>1 DEF HandleRetransmitRequest, Requests
  <2>2. ClientTypeOK' /\ told' = {}
    BY <2>1, Unchanged DEF ClientTypeOK, TellNothing
  <2>3. CASE state[t] <= PROCEEDING
    <3> DEFINE arm == [armed EXCEPT ![t] = @ \cup {"E"}]
    <3>1. Terminate({}, state, arm)
      BY <1>1, <2>3 DEF HandleRetransmitRequest, Continue
    <3>2. t \in Set(branches) /\ t \notin hasTerminated
      <4>1. t \in Set(branches)
        BY Zenon, <2>1, QueuedHandler
      <4>2. state[t] # TRN_STATE_TERMINATED
        BY <2>3 DEF PROCEEDING, TRN_STATE_TERMINATED
      <4> QED BY <4>1, <4>2, Unchanged
    <3>3. /\ arm \in [Trn -> SUBSET Timers]
          /\ \A u \in hasTerminated : arm[u] = {}
          /\ \A u \in Trn \ Set(branches) : arm[u] = {}
      BY <3>2, Unchanged DEF Timers
    <3> HIDE DEF arm
    <3> QED BY Zenon, <2>1, <2>2, <3>1, <3>3, Unchanged, QueuedHandler, TerminateStep DEF SafeStep
  <2>4. CASE ~(state[t] <= PROCEEDING)
    <3>1. Terminate({}, state, armed)
      BY <1>1, <2>4 DEF HandleRetransmitRequest, Continue
    <3> QED BY Zenon, <2>1, <2>2, <3>1, Unchanged, QueuedHandler, TerminateStep DEF SafeStep
  <2> QED BY <2>3, <2>4
<1>2. CASE x = "F" /\ HandleRequestTimeout(t)
  <2>1. /\ UNCHANGED <<branches, stopped, started, reliable>>
        /\ Dequeue(t, x) /\ last' = Nothing /\ sent' = {}
    BY <1>2 DEF HandleRequestTimeout
  <2>2. CASE state[t] \in {COMPLETED, TRN_STATE_TERMINATED}
    <3>1. TellNothing /\ Terminate({}, state, armed) /\ UNCHANGED connStopped
      BY <1>2, <2>2 DEF HandleRequestTimeout, Continue
    <3>2. ClientTypeOK' /\ told' = {}
      BY <2>1, <3>1, Unchanged DEF ClientTypeOK, TellNothing
    <3> QED BY Zenon, <2>1, <3>1, <3>2, Unchanged, QueuedHandler, TerminateStep DEF SafeStep
  <2>3. CASE state[t] \notin {COMPLETED, TRN_STATE_TERMINATED}
    <3> DEFINE K == TerminateSet(t, branches)
    <3>1. /\ Tell(t, "408")
          /\ connStopped' = (connStopped \/ reliable)
          /\ Terminate(K, state, armed)
      BY <1>2, <2>3 DEF HandleRequestTimeout
    <3>2. ~(released > 0)
      BY Zenon, <2>1, <2>3, QueuedHandler
    <3>3. ClientTypeOK'
      <4>1. /\ told' \subseteq Trn \X (Responses \cup {"408"})
            /\ finals' \in [Trn -> Nat]
            /\ heard' \in BOOLEAN
        BY <3>1, Unchanged, TellType
      <4> QED BY <2>1, <3>1, <4>1, Unchanged DEF ClientTypeOK
    <3>4. K \in SUBSET Set(branches) /\ (Parent \in K => branches \subseteq K)
      BY Zenon, <2>1, Unchanged, QueuedHandler, TerminateSets
    <3> HIDE DEF K
    <3> QED BY Zenon, <2>1, <3>1, <3>2, <3>3, <3>4, Unchanged, QueuedHandler, TerminateStep
            DEF SafeStep
  <2> QED BY <2>2, <2>3
<1>3. CASE NictHandleDelayedTerminate(t, x)
  BY <1>3, DelayedTerminateSafe DEF NictHandleDelayedTerminate
<1> QED BY <1>1, <1>2, <1>3 DEF NictRunHandler

(* Every step keeps a pooled parent live.                                  *)
LEMMA PooledIsLiveStep ==
  ASSUME NictLifeCycle, NictNext
  PROVE  Live'
<1>0. TypeOK /\ Live
  BY DEF NictLifeCycle, LifeCycle
<1>1. CASE SendRequestNoTransport
  BY <1>0, <1>1, PooledStep DEF SendRequestNoTransport, Live
<1>2. ASSUME NEW rel \in BOOLEAN, NictSendRequest(rel) PROVE Live'
  <2>1. CASE state[Parent] = TRN_STATE_IDLE
    <3> DEFINE st == [state EXCEPT ![Parent] = TRYING]
    <3>1. st[Parent] # TRN_STATE_TERMINATED
      BY <1>0 DEF TypeOK, TrnTypeOK, Trn, TRYING, TRN_STATE_TERMINATED
    <3>2. Terminate({}, st, [armed EXCEPT ![Parent] = NictStartedTimers(rel)])
      BY <1>2, <2>1 DEF NictSendRequest, Continue
    <3> HIDE DEF st
    <3> QED BY <1>0, <3>1, <3>2, PooledStep
  <2>2. CASE state[Parent] # TRN_STATE_IDLE
    BY <1>0, <1>2, <2>2, PooledStep DEF NictSendRequest, Live
  <2> QED BY <2>1, <2>2
<1>3. ASSUME NEW t \in Trn, NEW c \in Responses, NictReceiveResponse(t, c) PROVE Live'
  <2>1. CASE NictOnProvisional(t)
    <3> DEFINE st == [x \in Trn |-> IF x = t \/ (x = Parent /\ state[Parent] < PROCEEDING)
                                      THEN PROCEEDING ELSE state[x]]
    <3>1. inPool => st[Parent] # TRN_STATE_TERMINATED
      BY <1>0 DEF Live, Trn, PROCEEDING, TRN_STATE_TERMINATED
    <3>2. Terminate({}, st, armed)
      BY <2>1 DEF NictOnProvisional, Continue
    <3> HIDE DEF st
    <3> QED BY <1>0, <3>1, <3>2, PooledStep
  <2>2. CASE OnFinal(t, c)
    <3> DEFINE st == [x \in Trn |-> IF x = t \/ (x = Parent /\ CompletesParent(t, c))
                                      THEN COMPLETED ELSE state[x]]
    <3>1. inPool => st[Parent] # TRN_STATE_TERMINATED
      BY <1>0 DEF Live, Trn, COMPLETED, TRN_STATE_TERMINATED
    <3>2. \E K, arm : Terminate(K, st, arm)
      BY Zenon, <2>2 DEF OnFinal, Continue
    <3> HIDE DEF st
    <3> QED BY <1>0, <3>1, <3>2, PooledStep
  <2>3. CASE NictOnLateResponse(t)
    BY <1>0, <2>3, PooledStep DEF NictOnLateResponse, Continue, Live
  <2> QED BY <1>3, <2>1, <2>2, <2>3 DEF NictReceiveResponse
<1>4. ASSUME NEW t \in Trn, DropLast(t) \/ \E x \in Timers : Expire(t, x)
      PROVE  Live'
  BY Zenon, <1>0, <1>4 DEF Expire, TimerExpires, DropLast, Destroy, Live
<1>5. ASSUME NEW t \in Trn, NEW x \in Timers, NictRunHandler(t, x)
      PROVE  Live'
  <2>1. \E K, arm : Terminate(K, state, arm)
    BY <1>5 DEF NictRunHandler, HandleRetransmitRequest, HandleRequestTimeout,
                NictHandleDelayedTerminate, DelayedTerminate, Continue
  <2> QED BY <1>0, <2>1, PooledStep DEF Live
<1>6. CASE Stop
  BY <1>6 DEF Stop, PoolStop, Live
<1> QED BY <1>1, <1>2, <1>3, <1>4, <1>5, <1>6 DEF NictNext

-----------------------------------------------------------------------------
(* Every step of a non-INVITE client transaction keeps the invariant.      *)
LEMMA NictNextSafe == NictLifeCycle /\ NictNext => SafeStep
  BY SendRequestNoTransportSafe, NictSendRequestSafe, NictReceiveResponseSafe, ExpireSafe,
     NictHandlerSafe, DropLastSafe, StopSafe DEF NictNext, NictLifeCycle

-----------------------------------------------------------------------------
(* The promise to the TU: Timer F is the one that reports the timeout.     *)

(* sendRequest() starts Timer F in the parent.                             *)
LEMMA NictSendRequestKept ==
  ASSUME LifeCycle, SafeStep, Promise("F"), Reaped, NEW rel \in BOOLEAN, NictSendRequest(rel)
  PROVE  Kept("F")
<1>1. /\ ~started /\ started' = TRUE /\ told' = {} /\ finals' = finals
      /\ queued' = queued
  BY DEF NictSendRequest, TellNothing
<1>2. released' \in {0, 1}
  BY DEF SafeStep, LifeCycle, ReleasedOnce
<1>3. User!Start
  BY <1>1, <1>2 DEF User!Start
<1>4. \A t \in Tags : t # Parent /\ "F" \notin armed[t]
  BY ParentIsNotATag DEF Promise
<1>5. CASE state[Parent] = TRN_STATE_IDLE
  <2> DEFINE st == [state EXCEPT ![Parent] = TRYING]
             arm == [armed EXCEPT ![Parent] = NictStartedTimers(rel)]
  <2>1. Terminate({}, st, arm)
    BY <1>5 DEF NictSendRequest, Continue
  <2>2. \A t \in Trn : finals'[t] > 0 => st[t] > PROCEEDING
    BY <1>1, <1>5, Unchanged DEF Promise, PROCEEDING, TRN_STATE_IDLE
  <2>3. (\A t \in Tags : "F" \notin arm[t]) /\ "MaxLifetime" \in arm[Parent]
    BY <1>4, Unchanged DEF Trn, NictStartedTimers
  <2> HIDE DEF st, arm
  <2>4. Promise("F")'
    BY <1>1, <2>1, <2>2, <2>3, PromiseKept DEF LifeCycle
  <2>5. Reaped'
    BY <1>1, <2>1, <2>3, ReapedKept
  <2> QED BY <1>3, <2>4, <2>5 DEF Kept, User!Next
<1>6. CASE state[Parent] # TRN_STATE_IDLE
  <2> DEFINE K == TerminateSet(Parent, branches)
  <2>1. Terminate(K, state, armed) /\ ~inPool
    BY <1>1, <1>6 DEF NictSendRequest, Reaped
  <2> HIDE DEF K
  <2>2. \A t \in Trn : finals'[t] > 0 => state[t] > PROCEEDING
    BY <1>1 DEF Promise
  <2>3. Promise("F")'
    BY <1>1, <1>4, <2>1, <2>2, PromiseKept DEF LifeCycle
  <2>4. Reaped'
    BY <1>1, <2>1, ReapedKept
  <2> QED BY <1>3, <2>3, <2>4 DEF Kept, User!Next
<1> QED BY <1>5, <1>6

(* A response that reaches the TU is an answer of a transaction that has   *)
(* not answered before; any other is not seen.                             *)
LEMMA NictReceiveResponseKept ==
  ASSUME LifeCycle, SafeStep, Promise("F"), Reaped,
         NEW t \in Trn, NEW c \in Responses, NictReceiveResponse(t, c)
  PROVE  Kept("F")
<1>1. /\ LifeCycle' /\ started /\ started' = started /\ inPool /\ queued' = queued
      /\ started' = TRUE
  BY Unchanged DEF SafeStep, NictReceiveResponse, ClientTypeOK
<1>2. \A x \in Tags : "F" \notin armed[x]
  BY DEF Promise
<1>3. "MaxLifetime" \in armed[Parent] \cup queued'[Parent]
  BY <1>1 DEF Reaped, AlwaysReaped
<1>4. \A u \in Trn : /\ state[u] \in Nat
                     /\ finals[u] > 0 => state[u] > PROCEEDING
  BY Unchanged DEF Promise, States, TRN_STATE_IDLE, TRYING, PROCEEDING, COMPLETED,
                   TRN_STATE_TERMINATED
<1>5. finals \in [Trn -> Nat]
  BY Unchanged DEF ClientTypeOK
<1>6. CASE NictOnLateResponse(t)
  <2>1. Terminate({}, state, armed) /\ TellNothing
    BY <1>6 DEF NictOnLateResponse, Continue
  <2>2. User!Silent
    BY <1>1, <2>1, SilentStep DEF Terminate
  <2>3. \A u \in Trn : finals'[u] > 0 => state[u] > PROCEEDING
    BY <1>4, <2>1 DEF TellNothing
  <2>4. Promise("F")'
    BY <1>1, <1>2, <2>1, <2>3, PromiseKept DEF LifeCycle
  <2>5. Reaped'
    BY <1>1, <1>3, <2>1, ReapedKept
  <2> QED BY <2>2, <2>4, <2>5 DEF Kept, User!Next
<1>7. ASSUME NEW K, NEW st, NEW arm, Terminate(K, st, arm), Tell(t, c),
             state[t] <= PROCEEDING,
             c = "1xx" => K = {},
             \A u \in Trn : finals[u] > 0 => st[u] > PROCEEDING,
             c \in Final => st[t] > PROCEEDING,
             \A u \in Tags : "F" \notin arm[u],
             "MaxLifetime" \in armed[Parent] => "MaxLifetime" \in arm[Parent]
      PROVE  Kept("F")
  <2>1. c = "1xx" => released' = released
    BY <1>7 DEF Terminate
  <2>2. User!Answer(t, c)
    BY <1>1, <1>7, <2>1, AnswerStep
  <2>3. \A u \in Trn : finals'[u] > 0 => st[u] > PROCEEDING
    <3>1. CASE c \in Final
      BY <1>5, <1>7, <3>1 DEF Tell
    <3>2. CASE c \notin Final
      BY <1>7, <3>2 DEF Tell
    <3> QED BY <3>1, <3>2
  <2>4. Promise("F")'
    BY <1>1, <1>7, <2>3, PromiseKept DEF LifeCycle
  <2>5. "MaxLifetime" \in arm[Parent] \cup queued'[Parent]
    BY <1>3, <1>7
  <2>6. Reaped'
    BY <1>1, <1>7, <2>5, ReapedKept
  <2> QED BY <2>2, <2>4, <2>6 DEF Kept, User!Next, Responses
<1>8. CASE c = "1xx" /\ NictOnProvisional(t)
  <2> DEFINE st == [x \in Trn |-> IF x = t \/ (x = Parent /\ state[Parent] < PROCEEDING)
                                    THEN PROCEEDING ELSE state[x]]
  <2>1. Terminate({}, st, armed) /\ Tell(t, c) /\ state[t] <= PROCEEDING
    BY <1>8 DEF NictOnProvisional, Continue
  <2>2. \A u \in Trn : finals[u] > 0 => st[u] > PROCEEDING
    BY <1>4, <2>1 DEF PROCEEDING
  <2> HIDE DEF st
  <2> QED BY <1>2, <1>7, <1>8, <2>1, <2>2 DEF Final
<1>9. CASE c \in Final /\ OnFinal(t, c)
  <2> DEFINE st == [x \in Trn |-> IF x = t \/ (x = Parent /\ CompletesParent(t, c))
                                    THEN COMPLETED ELSE state[x]]
             run == [x \in Trn |-> IF x \in Quietened(t, c)
                                     THEN armed[x] \ {"E", "F"} ELSE armed[x]]
             arm == IF reliable THEN run ELSE [run EXCEPT ![t] = @ \cup {"K"}]
             K == IF reliable THEN Set(FindBranch(t)) ELSE {}
  <2>1. Terminate(K, st, arm) /\ Tell(t, c) /\ state[t] <= PROCEEDING
    BY Zenon, <1>9 DEF OnFinal, Continue
  <2>2. (\A u \in Trn : finals[u] > 0 => st[u] > PROCEEDING) /\ st[t] > PROCEEDING
    BY <1>4 DEF PROCEEDING, COMPLETED
  <2>3. /\ \A u \in Tags : "F" \notin run[u]
        /\ "MaxLifetime" \in armed[Parent] => "MaxLifetime" \in run[Parent]
    BY <1>2 DEF Trn
  <2>4. /\ \A u \in Tags : "F" \notin arm[u]
        /\ "MaxLifetime" \in armed[Parent] => "MaxLifetime" \in arm[Parent]
    BY <2>3 DEF Trn
  <2>5. c # "1xx"
    BY <1>9 DEF Final
  <2> HIDE DEF st, run, arm, K
  <2> QED BY Zenon, <1>7, <2>1, <2>2, <2>4, <2>5
<1> QED BY <1>6, <1>8, <1>9 DEF NictReceiveResponse

(* Timer F runs in the parent, so that its terminate() releases the TU.    *)
LEMMA NictHandlerKept ==
  ASSUME LifeCycle, SafeStep, Promise("F"), Reaped,
         NEW t \in Trn, NEW x \in Timers, NictRunHandler(t, x)
  PROVE  Kept("F")
<1>0. \A u \in Tags : "F" \notin armed[u]
  BY Zenon DEF Promise
<1>1. CASE x = "E" /\ HandleRetransmitRequest(t)
  <2> DEFINE arm == IF state[t] <= PROCEEDING THEN [armed EXCEPT ![t] = @ \cup {"E"}] ELSE armed
  <2>1. /\ Dequeue(t, x) /\ TellNothing /\ started' = started
        /\ Terminate({}, state, arm)
    BY <1>1 DEF HandleRetransmitRequest, Continue
  <2>2. /\ \A u \in Tags : "F" \notin arm[u]
        /\ "MaxLifetime" \in armed[Parent] => "MaxLifetime" \in arm[Parent]
    BY <1>0, Unchanged DEF Trn
  <2> HIDE DEF arm
  <2> QED BY <1>1, <2>1, <2>2, QuietHandlerKept
<1>2. CASE x = "F" /\ HandleRequestTimeout(t)
  <2>1. Dequeue(t, x) /\ started' = started
    BY <1>2 DEF HandleRequestTimeout
  <2>2. t = Parent
    BY <1>2, <2>1 DEF Promise, Dequeue, Trn
  <2>3. CASE state[t] \in {COMPLETED, TRN_STATE_TERMINATED}
    <3>1. TellNothing /\ Terminate({}, state, armed)
      BY <1>2, <2>3 DEF HandleRequestTimeout, Continue
    <3> QED BY <1>0, <1>2, <2>1, <3>1, QuietHandlerKept
  <2>4. CASE state[t] \notin {COMPLETED, TRN_STATE_TERMINATED}
    <3> DEFINE K == TerminateSet(t, branches)
    <3>1. Tell(t, "408") /\ finals' = finals /\ Terminate(K, state, armed)
      BY <1>2, <2>4 DEF HandleRequestTimeout, Tell, Final
    <3>2. Parent \in K
      BY <2>2 DEF TerminateSet, Set
    <3> HIDE DEF K
    <3>3. Parent \notin hasTerminated /\ started' = TRUE
      BY Zenon, <2>1, <2>2, <2>4, Unchanged, QueuedHandler
    <3>4. User!TimeOut(t)
      BY Zenon, <3>1, <3>2, <3>3, TimeOutStep
    <3>5. \A u \in Trn : finals'[u] > 0 => state[u] > PROCEEDING
      BY <3>1 DEF Promise
    <3>6. \A u \in Trn : queued'[u] \subseteq queued[u]
      BY ZenonT(30), <2>1, QueuedHandler
    <3>7. Promise("F")'
      BY Zenon, <1>0, <3>1, <3>5, <3>6, PromiseKept DEF LifeCycle
    <3>8. Reaped'
      BY <3>1, <3>2, <3>3, ReapedKept
    <3> QED BY <3>4, <3>7, <3>8 DEF Kept, User!Next
  <2> QED BY <2>3, <2>4
<1>3. CASE NictHandleDelayedTerminate(t, x)
  BY <1>3, DelayedTerminateKept DEF NictHandleDelayedTerminate
<1> QED BY <1>1, <1>2, <1>3 DEF NictRunHandler

(* Every step of a non-INVITE client transaction keeps the promise.        *)
LEMMA NictNextKept ==
  ASSUME NictLifeCycle, Promise("F"), Reaped, NictNext
  PROVE  Kept("F")
<1> USE DEF NictLifeCycle
<1>1. CASE SendRequestNoTransport
  BY <1>1, SendRequestNoTransportKept
<1>2. ASSUME NEW rel \in BOOLEAN, NictSendRequest(rel) PROVE Kept("F")
  BY <1>2, NictSendRequestSafe, NictSendRequestKept
<1>3. ASSUME NEW t \in Trn, NEW c \in Responses, NictReceiveResponse(t, c) PROVE Kept("F")
  BY <1>3, NictReceiveResponseSafe, NictReceiveResponseKept
<1>4. ASSUME NEW t \in Trn, NEW x \in Timers, NictRunHandler(t, x) PROVE Kept("F")
  BY <1>4, NictHandlerSafe, NictHandlerKept
<1>5. CASE Stop \/ \E t \in Trn : DropLast(t) \/ \E x \in Timers : Expire(t, x)
  <2>1. SafeStep
    BY <1>5, StopSafe, DropLastSafe, ExpireSafe
  <2> QED BY <1>5, <2>1, EnvironmentKept
<1> QED BY <1>1, <1>2, <1>3, <1>4, <1>5 DEF NictNext
=============================================================================
