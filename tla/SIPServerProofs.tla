-------------------------- MODULE SIPServerProofs ---------------------------
(***************************************************************************)
(* The server transactions, for any set of To-tags and any queue limit:    *)
(* the inductive invariant that both kinds keep, what their steps have in  *)
(* common, and the steps of the non-INVITE one.                            *)
(***************************************************************************)
EXTENDS SIPServers, TLAPS

(* What differs between the two kinds.                                     *)
ServerStates == IF isInvite THEN IstStates ELSE NistStates
Completed == IF isInvite THEN IstCOMPLETED ELSE NistCOMPLETED
LastTimer == IF isInvite THEN "H" ELSE "J"

Types ==
  /\ isInvite \in BOOLEAN
  /\ TrnTypeOK(ServerStates)
  /\ ServerTypeOK
  /\ sent2xx \subseteq Trn
  /\ received \subseteq Trn
  /\ blocked \in BOOLEAN
  /\ core \subseteq Trn

(* The throttle timer is armed or queued, not both, and neither for a      *)
(* request that is IDLE or was rejected; a request is dispatched from IDLE *)
(* and QUEUED only.  s, a, q, c and r are the state, the running and the   *)
(* expired timers, the counter and the calls of one transaction.           *)
Throttled(s, a, q, c, r) ==
  /\ "RequestThrottle" \notin a \cap q
  /\ c > QUEUE_RETRY_MAX => r = 0 /\ "RequestThrottle" \notin a \cup q
  /\ s = TRN_STATE_IDLE => c = 0 /\ "RequestThrottle" \notin a \cup q
  /\ s <= QUEUED => r = 0
  /\ r <= 1

(* Whoever is COMPLETED has the timer that ends it.                        *)
Timed(s, a, q) == s = Completed => LastTimer \in a \cup q

(* A transaction that has terminated is over, and a tag that has not been  *)
(* seen has no timers.                                                     *)
Fine(t) ==
  /\ Throttled(state[t], armed[t], queued[t], counter[t], requests[t])
  /\ t \notin destroyed => Timed(state[t], armed[t], queued[t])
  /\ t \in hasTerminated => state[t] = TRN_STATE_TERMINATED /\ armed[t] = {}
  /\ t \notin Set(branches) => armed[t] = {} /\ queued[t] = {}

Sound == \A t \in Trn : Fine(t)

(* Nothing runs before the INVITE has been received, and what has left the *)
(* pool since then is blocked.                                             *)
Heard ==
  /\ Parent \notin received =>
       /\ received = {}
       /\ \A t \in Trn : requests[t] = 0 /\ armed[t] = {} /\ queued[t] = {}
  /\ ~inPool /\ ~stopped => blocked

(* The inductive invariant.                                                *)
IInv == Types /\ Sound /\ (isInvite => Heard)

SafeStep == IInv' /\ \A t \in Trn : state'[t] >= state[t]

(* The numbers of the states, and what is Completed in either kind.        *)
LEMMA StatesAre ==
  ASSUME isInvite \in BOOLEAN
  PROVE  /\ ServerStates = {0, 1, 2, 3, 4, 255}
         /\ TRN_STATE_IDLE = 0 /\ QUEUED = 1 /\ TRN_STATE_TERMINATED = 255
         /\ isInvite => Completed = 3 /\ LastTimer = "H"
         /\ ~isInvite => Completed = 4 /\ LastTimer = "J"
         /\ IstPROCEEDING = 2 /\ IstCOMPLETED = 3 /\ CONFIRMED = 4
         /\ TRYING = 2 /\ NistPROCEEDING = 3 /\ NistCOMPLETED = 4
  BY DEF ServerStates, Completed, LastTimer, IstStates, NistStates, TRN_STATE_IDLE, QUEUED,
         TRN_STATE_TERMINATED, IstPROCEEDING, IstCOMPLETED, CONFIRMED, TRYING, NistPROCEEDING,
         NistCOMPLETED

(* A step that leaves the states st and the timers arm, and then calls     *)
(* terminate() on K.                                                       *)
StepSound(K, st, arm) ==
  \A t \in Trn :
    /\ Throttled(st[t], arm[t], queued'[t], counter'[t], requests'[t])
    /\ t \notin destroyed \cup K => Timed(st[t], arm[t], queued'[t])
    /\ st[t] >= state[t]
    /\ t \in hasTerminated => arm[t] = {}
    /\ t \notin Set(branches') => arm[t] = {} /\ queued'[t] = {}

(* A step that is sound, and the terminate() that ends it, keep every      *)
(* transaction of the set sound and take none back.                        *)
LEMMA Ends ==
  ASSUME IInv, isInvite' = isInvite,
         NEW K \in SUBSET Trn,
         NEW st \in [Trn -> ServerStates],
         NEW arm \in [Trn -> SUBSET Timers],
         Terminate(K, st, arm),
         StepSound(K, st, arm)
  PROVE  /\ Sound'
         /\ \A t \in Trn : state'[t] >= state[t]
         /\ state' \in [Trn -> ServerStates]
         /\ armed' \in [Trn -> SUBSET Timers]
         /\ hasTerminated' \subseteq Trn
         /\ inPool' \in BOOLEAN
         /\ released' \in Nat
         /\ destroyed' \subseteq Trn
<1> DEFINE fresh == K \ hasTerminated
<1>1. /\ state' = [t \in Trn |-> IF t \in fresh THEN TRN_STATE_TERMINATED ELSE st[t]]
      /\ armed' = [t \in Trn |-> IF t \in fresh THEN {} ELSE arm[t]]
      /\ hasTerminated' = hasTerminated \cup K
      /\ released' = IF Parent \in fresh THEN released + 1 ELSE released
      /\ inPool' = (inPool /\ Parent \notin fresh)
      /\ destroyed' = destroyed
  BY DEF Terminate
<1>2. /\ Types /\ Sound /\ isInvite \in BOOLEAN
      /\ hasTerminated \subseteq Trn /\ released \in Nat /\ destroyed \subseteq Trn
      /\ state \in [Trn -> ServerStates] /\ inPool \in BOOLEAN
  BY DEF IInv, Types, TrnTypeOK
<1>3. ServerStates = {0, 1, 2, 3, 4, 255} /\ TRN_STATE_TERMINATED = 255
  BY <1>2, StatesAre
<1>4. /\ state' \in [Trn -> ServerStates]
      /\ armed' \in [Trn -> SUBSET Timers]
      /\ hasTerminated' \subseteq Trn
      /\ inPool' \in BOOLEAN
      /\ destroyed' \subseteq Trn
  BY <1>1, <1>2, <1>3
<1>5. released' \in Nat
  BY <1>1, <1>2
<1>6. \A t \in Trn : state'[t] >= state[t]
  BY <1>1, <1>2, <1>3 DEF StepSound
<1>7. ASSUME NEW t \in Trn
      PROVE  /\ Throttled(state'[t], armed'[t], queued'[t], counter'[t], requests'[t])
             /\ t \notin destroyed' => Timed(state'[t], armed'[t], queued'[t])
             /\ t \in hasTerminated' => state'[t] = TRN_STATE_TERMINATED /\ armed'[t] = {}
             /\ t \notin Set(branches') => armed'[t] = {} /\ queued'[t] = {}
  <2>0. /\ Throttled(st[t], arm[t], queued'[t], counter'[t], requests'[t])
        /\ t \notin destroyed \cup K => Timed(st[t], arm[t], queued'[t])
        /\ st[t] >= state[t]
        /\ t \in hasTerminated => arm[t] = {}
        /\ t \notin Set(branches') => arm[t] = {} /\ queued'[t] = {}
    BY DEF StepSound
  <2>1. CASE t \in fresh
    <3>1. state'[t] = 255 /\ armed'[t] = {}
      BY <1>1, <1>3, <2>1
    <3>2. Throttled(state'[t], armed'[t], queued'[t], counter'[t], requests'[t])
      BY <1>2, <2>0, <3>1, StatesAre DEF Throttled
    <3>3. Timed(state'[t], armed'[t], queued'[t])
      BY <1>2, <3>1, StatesAre DEF Timed
    <3> QED BY <1>3, <2>0, <3>1, <3>2, <3>3
  <2>2. CASE t \notin fresh
    <3>1. state'[t] = st[t] /\ armed'[t] = arm[t]
      BY <1>1, <2>2
    <3>2. t \in hasTerminated' => t \in hasTerminated
      BY <1>1, <2>2
    <3>3. t \in hasTerminated => st[t] = 255 /\ arm[t] = {}
      BY <1>2, <1>3, <2>0 DEF Sound, Fine
    <3>4. t \in hasTerminated => Timed(st[t], arm[t], queued'[t])
      BY <1>2, <3>3, StatesAre DEF Timed
    <3>5. t \notin destroyed => Timed(st[t], arm[t], queued'[t])
      BY <2>0, <2>2, <3>4
    <3> QED BY <1>1, <1>3, <2>0, <3>1, <3>2, <3>3, <3>5
  <2> QED BY <2>1, <2>2
<1>8. Sound'
  BY <1>7 DEF Sound, Fine, Timed, Completed, LastTimer, Set
<1> QED BY <1>4, <1>5, <1>6, <1>8

(* A handler that changes one transaction, or none: the state and the      *)
(* timers it leaves t with are sound, and the others are what they were.   *)
OneSound(t, K, s, a) ==
  /\ \A u \in Trn \ {t} : /\ queued'[u] = queued[u]
                          /\ counter'[u] = counter[u]
                          /\ requests'[u] = requests[u]
  /\ Throttled(s, a, queued'[t], counter'[t], requests'[t])
  /\ t \notin destroyed \cup K => Timed(s, a, queued'[t])
  /\ s >= state[t]
  /\ t \in hasTerminated => a = {}

(* A step that changes one transaction only leaves the others sound.       *)
LEMMA Others ==
  ASSUME IInv, NEW t \in Trn, NEW s \in ServerStates, NEW a \in SUBSET Timers,
         NEW K \in SUBSET Trn,
         OneSound(t, K, s, a),
         branches \subseteq branches', t \in Set(branches')
  PROVE  /\ [state EXCEPT ![t] = s] \in [Trn -> ServerStates]
         /\ [armed EXCEPT ![t] = a] \in [Trn -> SUBSET Timers]
         /\ StepSound(K, [state EXCEPT ![t] = s], [armed EXCEPT ![t] = a])
<1>1. /\ state \in [Trn -> ServerStates] /\ armed \in [Trn -> SUBSET Timers]
      /\ isInvite \in BOOLEAN
  BY DEF IInv, Types, TrnTypeOK
<1>2. ServerStates = {0, 1, 2, 3, 4, 255}
  BY <1>1, StatesAre
<1>3. \A u \in Trn : /\ Throttled(state[u], armed[u], queued[u], counter[u], requests[u])
                     /\ u \notin destroyed => Timed(state[u], armed[u], queued[u])
                     /\ u \in hasTerminated => armed[u] = {}
                     /\ state[u] >= state[u]
                     /\ u \notin Set(branches') => armed[u] = {} /\ queued[u] = {}
  BY <1>1, <1>2 DEF IInv, Sound, Fine, Set
<1> DEFINE st == [state EXCEPT ![t] = s]
           arm == [armed EXCEPT ![t] = a]
<1>4. st \in [Trn -> ServerStates] /\ arm \in [Trn -> SUBSET Timers]
  BY <1>1
<1>5. /\ st[t] = s /\ arm[t] = a
      /\ \A u \in Trn \ {t} : st[u] = state[u] /\ arm[u] = armed[u]
  BY <1>1
<1> HIDE DEF st, arm
<1>6. ASSUME NEW u \in Trn
      PROVE  /\ Throttled(st[u], arm[u], queued'[u], counter'[u], requests'[u])
             /\ u \notin destroyed \cup K => Timed(st[u], arm[u], queued'[u])
             /\ st[u] >= state[u]
             /\ u \in hasTerminated => arm[u] = {}
             /\ u \notin Set(branches') => arm[u] = {} /\ queued'[u] = {}
  <2>1. CASE u = t
    BY <1>5, <2>1 DEF OneSound
  <2>2. CASE u # t
    BY <1>3, <1>5, <2>2 DEF OneSound
  <2> QED BY <2>1, <2>2
<1>7. StepSound(K, st, arm)
  BY <1>6 DEF StepSound
<1> QED BY <1>4, <1>7 DEF st, arm

-----------------------------------------------------------------------------
(* What the handlers of both kinds do.                                     *)

(* The variables Terminate leaves to the handler that calls it.            *)
RestTyped ==
  /\ branches' \subseteq Tags
  /\ queued' \in [Trn -> SUBSET Timers]
  /\ stopped' = stopped
  /\ ServerTypeOK'
  /\ sent2xx' \subseteq Trn
  /\ received' \subseteq Trn
  /\ core' \subseteq Trn

(* What is known of one transaction before a step.                         *)
LEMMA Known ==
  ASSUME IInv, NEW t \in Trn
  PROVE  /\ state[t] \in {0, 1, 2, 3, 4, 255} /\ state[t] \in ServerStates
         /\ armed[t] \in SUBSET Timers /\ queued[t] \in SUBSET Timers
         /\ counter[t] \in 0 .. QUEUE_RETRY_MAX + 1 /\ requests[t] \in Nat
         /\ Throttled(state[t], armed[t], queued[t], counter[t], requests[t])
         /\ t \notin destroyed => Timed(state[t], armed[t], queued[t])
         /\ t \in hasTerminated => state[t] = 255 /\ armed[t] = {}
         /\ t \notin Set(branches) => armed[t] = {} /\ queued[t] = {}
         /\ state = [state EXCEPT ![t] = state[t]]
         /\ armed = [armed EXCEPT ![t] = armed[t]]
<1>1. /\ state \in [Trn -> ServerStates] /\ armed \in [Trn -> SUBSET Timers]
      /\ queued \in [Trn -> SUBSET Timers] /\ isInvite \in BOOLEAN
      /\ counter \in [Trn -> 0 .. QUEUE_RETRY_MAX + 1] /\ requests \in [Trn -> Nat]
  BY DEF IInv, Types, TrnTypeOK, ServerTypeOK
<1>2. ServerStates = {0, 1, 2, 3, 4, 255} /\ TRN_STATE_TERMINATED = 255
  BY <1>1, StatesAre
<1>3. /\ state = [state EXCEPT ![t] = state[t]]
      /\ armed = [armed EXCEPT ![t] = armed[t]]
  BY <1>1
<1>4. /\ state[t] \in ServerStates /\ armed[t] \in SUBSET Timers /\ queued[t] \in SUBSET Timers
      /\ counter[t] \in 0 .. QUEUE_RETRY_MAX + 1 /\ requests[t] \in Nat
  BY <1>1
<1> QED BY <1>2, <1>3, <1>4 DEF IInv, Sound, Fine

(* The branches stay tags, and terminate() reaches transactions only.      *)
LEMMA Reaches ==
  ASSUME NEW t \in Trn, NEW br \in SUBSET Tags, NEW st
  PROVE  /\ TerminateSet(t, br) \in SUBSET Trn /\ t \in TerminateSet(t, br)
         /\ TerminateWithParent(t, st, br) \in SUBSET Trn
  BY DEF TerminateSet, TerminateWithParent, Set, Trn

(* findBranch() creates branches of To-tags.                               *)
LEMMA BranchesAreTags ==
  ASSUME IInv, NEW t \in Trn
  PROVE  FindBranch(t) \subseteq Tags
  BY DEF IInv, Types, TrnTypeOK, FindBranch, Trn

(* What a handler writes is typed.                                         *)
Written == response' \subseteq Trn /\ sent' \subseteq Trn \X {"TU", "queue", "timer", "peer"}

(* What a step writes has its type.                                        *)
LEMMA Writes ==
  ASSUME IInv, NEW t \in Trn, NEW ok, NEW for \in {"TU", "queue", "timer", "peer"},
         Write(t, ok, for) \/ WriteNothing \/ Resend(t, for)
  PROVE  Written
<1>1. response \subseteq Trn
  BY DEF IInv, Types, ServerTypeOK
<1>2. CASE Write(t, ok, for)
  BY <1>1, <1>2 DEF Write, Written
<1>3. CASE WriteNothing
  BY <1>1, <1>3 DEF WriteNothing, Written
<1>4. CASE Resend(t, for)
  BY <1>1, <1>4 DEF Resend, Written
<1> QED BY <1>2, <1>3, <1>4

(* Whatever runs or was handed over, the INVITE has been received.         *)
LEMMA WasHeard ==
  ASSUME IInv, isInvite,
         \/ received # {} \/ HandedOver
         \/ \E t \in Trn : armed[t] # {} \/ queued[t] # {}
  PROVE  Parent \in received
<1>1. Heard
  BY DEF IInv
<1> QED BY <1>1 DEF Heard, HandedOver

(* What a handler does apart from its state machine.                       *)
RestOf(rec) ==
  /\ queued' \in [Trn -> SUBSET Timers]
  /\ stopped' = stopped
  /\ toTag' \in Trn
  /\ reliable' \in BOOLEAN
  /\ counter' \in [Trn -> 0 .. QUEUE_RETRY_MAX + 1]
  /\ received' = received \cup rec
  /\ core' \subseteq Trn

(* The types of what terminate() does not touch.                           *)
LEMMA AllTyped ==
  ASSUME IInv, NEW rec \in SUBSET Trn, RestOf(rec), Written, requests' \in [Trn -> Nat],
         branches' \subseteq Tags, sent2xx' \subseteq Trn
  PROVE  RestTyped
<1>1. received \subseteq Trn
  BY DEF IInv, Types
<1> QED BY <1>1 DEF RestOf, RestTyped, Written, ServerTypeOK

(* A transaction that moves on to a state past QUEUED stays in order.      *)
LEMMA MovesOn ==
  ASSUME NEW s, NEW a, NEW q, NEW c, NEW r, Throttled(s, a, q, c, r),
         NEW z \in {2, 3, 4, 255}, NEW b, "RequestThrottle" \in b => "RequestThrottle" \in a
  PROVE  Throttled(z, b, q, c, r)
<1>1. z # TRN_STATE_IDLE /\ ~(z <= QUEUED)
  BY DEF TRN_STATE_IDLE, QUEUED
<1> QED BY <1>1 DEF Throttled

(* A handler that has taken its timer off the queue, and counted the       *)
(* request, when it comes to send: nothing is out of order yet.            *)
QueueSound ==
  \A u \in Trn :
    /\ Throttled(state[u], armed[u], queued'[u], counter'[u], requests'[u])
    /\ u \notin destroyed => Timed(state[u], armed[u], queued'[u])
    /\ u \notin Set(branches) => queued'[u] = {}

-----------------------------------------------------------------------------
(* Deadlines that pass, the last pointer that is dropped, and stop(): the  *)
(* steps neither the TU nor the network sees, of either kind.              *)
Unseen ==
  /\ UNCHANGED <<isInvite, toTag, reliable, counter, response, requests, sent2xx, received,
                 blocked>>
  /\ sent' = {} /\ core' \subseteq Trn

(* What such a step does to one transaction: nothing, one deadline, all of *)
(* them dropped, or the end of the state machine.                          *)
LEMMA StaysFine ==
  ASSUME NEW u \in Trn, Fine(u), Unseen, UNCHANGED <<branches, hasTerminated>>,
         isInvite \in BOOLEAN,
         destroyed \subseteq destroyed',
         \/ /\ state'[u] = state[u] /\ armed'[u] = armed[u] /\ queued'[u] = queued[u]
         \/ /\ state'[u] = state[u]
            /\ \E x \in armed[u] : armed'[u] = armed[u] \ {x} /\ queued'[u] = queued[u] \cup {x}
         \/ /\ state'[u] = state[u] /\ armed'[u] = {} /\ queued'[u] = {} /\ u \in destroyed'
         \/ /\ state'[u] = TRN_STATE_TERMINATED /\ armed'[u] = {} /\ queued'[u] = queued[u]
  PROVE  Fine(u)'
<1> DEFINE s == state[u]
           a == armed[u]
           q == queued[u]
           c == counter[u]
           r == requests[u]
           newS == state'[u]
           newA == armed'[u]
           newQ == queued'[u]
<1>1. /\ Throttled(s, a, q, c, r)
      /\ u \notin destroyed => Timed(s, a, q)
      /\ u \in hasTerminated => s = TRN_STATE_TERMINATED /\ a = {}
      /\ u \notin Set(branches) => a = {} /\ q = {}
  BY Zenon DEF Fine
<1>2. \/ newS = s /\ newA = a /\ newQ = q
      \/ newS = s /\ \E x \in a : newA = a \ {x} /\ newQ = q \cup {x}
      \/ newS = s /\ newA = {} /\ newQ = {} /\ u \in destroyed'
      \/ newS = TRN_STATE_TERMINATED /\ newA = {} /\ newQ = q
  BY Zenon
<1>3. ASSUME Throttled(newS, newA, newQ, c, r),
             u \notin destroyed' => Timed(newS, newA, newQ),
             u \in hasTerminated => newS = TRN_STATE_TERMINATED /\ newA = {},
             u \notin Set(branches) => newA = {} /\ newQ = {}
      PROVE  Fine(u)'
  <2>1. counter'[u] = c /\ requests'[u] = r /\ Completed' = Completed /\ LastTimer' = LastTimer
    BY Zenon DEF Unseen, Completed, LastTimer
  <2> QED BY Zenon, <1>3, <2>1 DEF Fine, Timed, Set
<1> HIDE DEF s, a, q, c, r, newS, newA, newQ
<1>4. TRN_STATE_TERMINATED = 255 /\ TRN_STATE_IDLE = 0 /\ QUEUED = 1 /\ Completed # 255
  BY StatesAre
<1>5. Throttled(newS, newA, newQ, c, r)
  BY <1>1, <1>2, <1>4 DEF Throttled
<1>6. u \notin destroyed' => Timed(newS, newA, newQ)
  BY <1>1, <1>2, <1>4 DEF Timed
<1>7. /\ u \in hasTerminated => newS = TRN_STATE_TERMINATED /\ newA = {}
      /\ u \notin Set(branches) => newA = {} /\ newQ = {}
  BY <1>1, <1>2
<1> QED BY Zenon, <1>3, <1>5, <1>6, <1>7

(* Expiry, destruction and stop() call no handler.                         *)
LEMMA UnseenIsSafe ==
  ASSUME IInv, Unseen,
         \/ \E t \in Trn : Destroy(t) \/ \E x \in Timers : TimerExpires(t, x)
         \/ PoolStop
         \/ UNCHANGED trnVars
  PROVE  SafeStep
<1>1. /\ Types /\ Sound /\ isInvite \in BOOLEAN
      /\ state \in [Trn -> ServerStates] /\ armed \in [Trn -> SUBSET Timers]
      /\ queued \in [Trn -> SUBSET Timers]
      /\ \A t \in Trn : state[t] \in {0, 1, 2, 3, 4, 255}
  <2>1. /\ Types /\ Sound /\ isInvite \in BOOLEAN
        /\ state \in [Trn -> ServerStates] /\ armed \in [Trn -> SUBSET Timers]
        /\ queued \in [Trn -> SUBSET Timers]
    BY DEF IInv, Types, TrnTypeOK
  <2> QED BY <2>1, StatesAre
<1>2. /\ ServerStates' = ServerStates /\ Completed' = Completed /\ LastTimer' = LastTimer
  BY DEF Unseen, ServerStates, Completed, LastTimer
<1>3. Parent \in Trn
  BY DEF Trn
<1>4. ServerStates = {0, 1, 2, 3, 4, 255} /\ TRN_STATE_TERMINATED = 255 /\ TRN_STATE_IDLE = 0
      /\ QUEUED = 1 /\ Completed # 255 /\ Completed \in Nat
  BY <1>1, StatesAre
<1>5. ASSUME TrnTypeOK(ServerStates)'
      PROVE  Types'
  BY <1>1, <1>5 DEF Types, Unseen, ServerTypeOK
<1>6. ASSUME NEW t \in Trn, NEW x \in Timers, TimerExpires(t, x)
      PROVE  SafeStep
  <2>1. /\ x \in armed[t]
        /\ armed' = [armed EXCEPT ![t] = @ \ {x}]
        /\ queued' = [queued EXCEPT ![t] = @ \cup {x}]
        /\ UNCHANGED <<branches, state, hasTerminated, inPool, released, stopped, destroyed>>
    BY <1>6 DEF TimerExpires
  <2>2. Types'
    <3>1. TrnTypeOK(ServerStates)'
      BY <1>1, <1>2, <2>1 DEF Types, TrnTypeOK
    <3> QED BY <1>5, <3>1
  <2>3. ASSUME NEW u \in Trn
        PROVE  Fine(u)'
    <3>1. Fine(u)
      BY <1>1 DEF Sound
    <3>2. CASE u = t
      <4>1. /\ x \in armed[u] /\ state'[u] = state[u]
            /\ armed'[u] = armed[u] \ {x} /\ queued'[u] = queued[u] \cup {x}
        BY <1>1, <2>1, <3>2
      <4> QED BY Zenon, <1>1, <2>1, <3>1, <4>1, StaysFine
    <3>3. CASE u # t
      <4>1. state'[u] = state[u] /\ armed'[u] = armed[u] /\ queued'[u] = queued[u]
        BY <1>1, <2>1, <3>3
      <4> QED BY Zenon, <1>1, <2>1, <3>1, <4>1, StaysFine
    <3> QED BY <3>2, <3>3
  <2>4. Sound'
    BY <2>3 DEF Sound
  <2>5. isInvite => Heard'
    <3>1. SUFFICES ASSUME isInvite PROVE Heard'
      OBVIOUS
    <3>2. Parent \in received
      BY <2>1, <3>1, WasHeard
    <3> QED BY <2>1, <3>1, <3>2 DEF IInv, Heard, Unseen
  <2>6. \A u \in Trn : state'[u] >= state[u]
    BY <1>1, <2>1
  <2> QED BY <2>2, <2>4, <2>5, <2>6 DEF SafeStep, IInv, Unseen
<1>7. ASSUME NEW t \in Trn, Destroy(t)
      PROVE  SafeStep
  <2>1. /\ destroyed' = destroyed \cup {t}
        /\ armed' = [armed EXCEPT ![t] = {}]
        /\ queued' = [queued EXCEPT ![t] = {}]
        /\ UNCHANGED <<branches, state, hasTerminated, inPool, released, stopped>>
    BY <1>7 DEF Destroy
  <2>2. Types'
    <3>1. TrnTypeOK(ServerStates)'
      BY <1>1, <1>2, <2>1 DEF Types, TrnTypeOK
    <3> QED BY <1>5, <3>1
  <2>3. ASSUME NEW u \in Trn
        PROVE  Fine(u)'
    <3>1. Fine(u)
      BY <1>1 DEF Sound
    <3>2. CASE u = t
      <4>1. /\ state'[u] = state[u] /\ armed'[u] = {} /\ queued'[u] = {}
            /\ u \in destroyed'
        BY <1>1, <2>1, <3>2
      <4> QED BY Zenon, <1>1, <2>1, <3>1, <4>1, StaysFine
    <3>3. CASE u # t
      <4>1. state'[u] = state[u] /\ armed'[u] = armed[u] /\ queued'[u] = queued[u]
        BY <1>1, <2>1, <3>3
      <4> QED BY Zenon, <1>1, <2>1, <3>1, <4>1, StaysFine
    <3> QED BY <3>2, <3>3
  <2>4. Sound'
    BY <2>3 DEF Sound
  <2>5. isInvite => Heard'
    <3>1. \A u \in Trn : armed'[u] \subseteq armed[u] /\ queued'[u] \subseteq queued[u]
      BY <1>1, <2>1
    <3> QED BY <2>1, <3>1 DEF IInv, Heard, Unseen
  <2>6. \A u \in Trn : state'[u] >= state[u]
    BY <1>1, <2>1
  <2> QED BY <2>2, <2>4, <2>5, <2>6 DEF SafeStep, IInv, Unseen
<1>8. CASE PoolStop
  <2>1. /\ inPool' = FALSE /\ stopped' = TRUE
        /\ state' = [state EXCEPT ![Parent] = 255]
        /\ armed' = [armed EXCEPT ![Parent] = {}]
        /\ UNCHANGED <<branches, hasTerminated, queued, released, destroyed>>
    BY <1>4, <1>8 DEF PoolStop
  <2>2. Types'
    <3>1. 255 \in ServerStates
      BY <1>4
    <3>2. state' \in [Trn -> ServerStates] /\ armed' \in [Trn -> SUBSET Timers]
      BY Zenon, <1>1, <2>1, <3>1
    <3>3. TrnTypeOK(ServerStates)'
      BY Zenon, <1>1, <1>2, <2>1, <3>2 DEF Types, TrnTypeOK
    <3> QED BY <1>5, <3>3
  <2>3. ASSUME NEW u \in Trn
        PROVE  Fine(u)'
    <3>1. Fine(u)
      BY <1>1 DEF Sound
    <3>2. CASE u = Parent
      <4>1. state'[u] = TRN_STATE_TERMINATED /\ armed'[u] = {} /\ queued'[u] = queued[u]
        BY <1>1, <1>4, <2>1, <3>2
      <4> QED BY Zenon, <1>1, <2>1, <3>1, <4>1, StaysFine
    <3>3. CASE u # Parent
      <4>1. state'[u] = state[u] /\ armed'[u] = armed[u] /\ queued'[u] = queued[u]
        BY <1>1, <2>1, <3>3
      <4> QED BY Zenon, <1>1, <2>1, <3>1, <4>1, StaysFine
    <3> QED BY <3>2, <3>3
  <2>4. Sound'
    BY <2>3 DEF Sound
  <2>5. isInvite => Heard'
    <3>1. \A u \in Trn : armed'[u] \subseteq armed[u]
      BY <1>1, <2>1
    <3> QED BY <2>1, <3>1 DEF IInv, Heard, Unseen
  <2>6. \A u \in Trn : state'[u] >= state[u]
    BY <1>1, <1>3, <1>4, <2>1
  <2> QED BY <2>2, <2>4, <2>5, <2>6 DEF SafeStep, IInv, Unseen
<1>9. CASE UNCHANGED trnVars
  <2>1. UNCHANGED <<branches, state, hasTerminated, armed, queued, inPool, released, stopped,
                    destroyed>>
    BY <1>9 DEF trnVars
  <2>2. Types'
    <3>1. TrnTypeOK(ServerStates)'
      BY <1>1, <1>2, <2>1 DEF Types, TrnTypeOK
    <3> QED BY <1>5, <3>1
  <2>3. Sound'
    <3>1. ASSUME NEW u \in Trn
          PROVE  Fine(u)'
      <4>1. Fine(u)
        BY <1>1 DEF Sound
      <4> QED BY Zenon, <1>1, <2>1, <4>1, StaysFine
    <3> QED BY <3>1 DEF Sound
  <2>4. isInvite => Heard'
    BY <2>1 DEF IInv, Heard, Unseen
  <2>5. \A u \in Trn : state'[u] >= state[u]
    BY <1>1, <2>1
  <2> QED BY <2>2, <2>3, <2>4, <2>5 DEF SafeStep, IInv, Unseen
<1> QED BY <1>6, <1>7, <1>8, <1>9

-----------------------------------------------------------------------------
(* The server transaction of every other request.                          *)
LEMMA NistStep ==
  ASSUME IInv, ~isInvite, isInvite' = isInvite, UNCHANGED istVars,
         NEW K \in SUBSET Trn,
         NEW st \in [Trn -> ServerStates],
         NEW arm \in [Trn -> SUBSET Timers],
         Terminate(K, st, arm),
         StepSound(K, st, arm), RestTyped
  PROVE  SafeStep
<1>2. /\ Sound'
      /\ \A t \in Trn : state'[t] >= state[t]
      /\ state' \in [Trn -> ServerStates]
      /\ armed' \in [Trn -> SUBSET Timers]
      /\ hasTerminated' \subseteq Trn
      /\ inPool' \in BOOLEAN
      /\ released' \in Nat
      /\ destroyed' \subseteq Trn
  BY Zenon, Ends
<1>3. ServerStates' = ServerStates
  BY DEF ServerStates
<1>4. blocked' \in BOOLEAN /\ isInvite' \in BOOLEAN /\ stopped' \in BOOLEAN
  BY DEF IInv, Types, TrnTypeOK, RestTyped, istVars
<1>5. TrnTypeOK(ServerStates)'
  BY <1>2, <1>3, <1>4 DEF TrnTypeOK, RestTyped
<1>6. Types'
  BY <1>4, <1>5 DEF Types, RestTyped
<1> QED BY <1>2, <1>6 DEF SafeStep, IInv

(* sendResponse() of the other server transactions.                        *)
LEMMA NistSendSafe ==
  ASSUME IInv, ~isInvite, isInvite' = isInvite, UNCHANGED istVars,
         NEW t \in Trn, NEW c \in Classes, NEW ok \in BOOLEAN, NEW for \in {"TU", "queue"},
         NistSend(t, c, ok, for),
         branches' = FindBranch(t),
         QueueSound,
         RestOf({}), requests' \in [Trn -> Nat]
  PROVE  SafeStep
<1> DEFINE first == state[t] <= NistPROCEEDING /\ ~Lost(ok)
           final == c # "1xx"
           over == Lost(ok) \/ (first /\ final /\ reliable)
           s == IF final THEN NistCOMPLETED ELSE NistPROCEEDING
           K == IF over THEN TerminateSet(t, branches') ELSE {}
           st == IF first /\ ~over THEN [state EXCEPT ![t] = s] ELSE state
           arm == IF first /\ final /\ ~over THEN [armed EXCEPT ![t] = @ \cup {"J"}] ELSE armed
<1>1. Terminate(K, st, arm) /\ Write(t, ok, for)
  BY DEF NistSend, Continue
<1>2. /\ state \in [Trn -> ServerStates] /\ armed \in [Trn -> SUBSET Timers]
      /\ isInvite \in BOOLEAN /\ sent2xx \subseteq Trn /\ branches \subseteq Tags
  BY DEF IInv, Types, TrnTypeOK
<1>3. /\ ServerStates = {0, 1, 2, 3, 4, 255} /\ NistCOMPLETED = 4 /\ NistPROCEEDING = 3
      /\ Completed = 4 /\ LastTimer = "J"
  BY <1>2, StatesAre
<1>4. branches' \subseteq Tags
  BY BranchesAreTags
<1>5. K \in SUBSET Trn
  BY <1>4, Reaches
<1>6. "J" \in Timers
  BY DEF Timers
<1>7. st \in [Trn -> ServerStates] /\ arm \in [Trn -> SUBSET Timers]
  BY <1>2, <1>3, <1>6
<1>8. RestTyped
  <2>1. Written
    BY <1>1, Writes
  <2>2. sent2xx' \subseteq Trn
    BY <1>2 DEF istVars
  <2> QED BY <1>4, <2>1, <2>2, AllTyped
<1>9. first /\ ~over => /\ state[t] <= 3
                        /\ st[t] = IF final THEN 4 ELSE 3
                        /\ arm[t] = IF final THEN armed[t] \cup {"J"} ELSE armed[t]
  BY <1>2, <1>3
<1>10. \A u \in Trn : ~(first /\ ~over /\ u = t) => st[u] = state[u] /\ arm[u] = armed[u]
  BY <1>2
<1>11. t \in Set(branches') /\ \A u \in Set(branches) : u \in Set(branches')
  BY DEF FindBranch, Set
<1> HIDE DEF first, final, over, s, K, st, arm
<1>12. ASSUME NEW u \in Trn
       PROVE  /\ Throttled(st[u], arm[u], queued'[u], counter'[u], requests'[u])
              /\ u \notin destroyed \cup K => Timed(st[u], arm[u], queued'[u])
              /\ st[u] >= state[u]
              /\ u \in hasTerminated => arm[u] = {}
              /\ u \notin Set(branches') => arm[u] = {} /\ queued'[u] = {}
  <2>1. /\ Throttled(state[u], armed[u], queued'[u], counter'[u], requests'[u])
        /\ u \notin destroyed => Timed(state[u], armed[u], queued'[u])
        /\ u \notin Set(branches) => queued'[u] = {}
    BY DEF QueueSound
  <2>2. /\ state[u] \in {0, 1, 2, 3, 4, 255}
        /\ u \in hasTerminated => state[u] = 255 /\ armed[u] = {}
        /\ u \notin Set(branches) => armed[u] = {}
    BY Zenon, Known
  <2>3. CASE first /\ ~over /\ u = t
    <3>1. /\ st[u] = IF final THEN 4 ELSE 3
          /\ arm[u] = IF final THEN armed[u] \cup {"J"} ELSE armed[u]
          /\ state[u] <= 3
      BY <1>9, <2>3
    <3>2. st[u] \in {2, 3, 4, 255} /\ ("RequestThrottle" \in arm[u] => "RequestThrottle" \in armed[u])
      BY <3>1
    <3>3. Throttled(st[u], arm[u], queued'[u], counter'[u], requests'[u])
      BY <2>1, <3>2, MovesOn
    <3>4. Timed(st[u], arm[u], queued'[u])
      BY <1>3, <3>1 DEF Timed
    <3>5. st[u] >= state[u] /\ u \notin hasTerminated
      BY <2>2, <3>1
    <3> QED BY <1>11, <2>3, <3>3, <3>4, <3>5
  <2>4. CASE ~(first /\ ~over /\ u = t)
    <3>1. st[u] = state[u] /\ arm[u] = armed[u]
      BY Zenon, <1>10, <2>4
    <3>2. st[u] >= state[u]
      BY <2>2, <3>1
    <3> QED BY <1>11, <2>1, <2>2, <3>1, <3>2
  <2> QED BY Zenon, <2>3, <2>4
<1>13. StepSound(K, st, arm)
  BY <1>12 DEF StepSound
<1>14. /\ Terminate(K, st, arm) /\ K \in SUBSET Trn
       /\ st \in [Trn -> ServerStates] /\ arm \in [Trn -> SUBSET Timers]
  BY <1>1, <1>5, <1>7
<1> QED BY <1>8, <1>13, <1>14, NistStep

(* SIPTransaction::sendResponse() in the parent or a branch.               *)
LEMMA NistSendResponseSafe ==
  ASSUME IInv, ~isInvite, isInvite' = isInvite, UNCHANGED istVars,
         NEW t \in Trn, NEW c \in Classes, NEW ok \in BOOLEAN, NistSendResponse(t, c, ok)
  PROVE  SafeStep
<1>1. /\ branches' = FindBranch(t)
      /\ UNCHANGED <<queued, stopped, toTag, reliable, counter, requests>>
      /\ NistSend(t, c, ok, "TU")
  BY DEF NistSendResponse
<1>2. RestOf({}) /\ requests' \in [Trn -> Nat]
  BY Zenon, <1>1 DEF RestOf, IInv, Types, TrnTypeOK, ServerTypeOK, istVars
<1>3. QueueSound
  BY <1>1 DEF QueueSound, IInv, Sound, Fine
<1> QED BY <1>1, <1>2, <1>3, NistSendSafe

(* A step of one transaction that creates no branch.                       *)
LEMMA NistOne ==
  ASSUME IInv, ~isInvite, isInvite' = isInvite, UNCHANGED istVars,
         NEW t \in Trn, NEW s \in ServerStates, NEW a \in SUBSET Timers,
         NEW K \in SUBSET Trn,
         OneSound(t, K, s, a),
         branches' = branches, t \in Set(branches'),
         Terminate(K, [state EXCEPT ![t] = s], [armed EXCEPT ![t] = a]),
         RestOf({}), Written, requests' \in [Trn -> Nat]
  PROVE  SafeStep
<1> DEFINE st == [state EXCEPT ![t] = s]
           arm == [armed EXCEPT ![t] = a]
<1>1. branches \subseteq branches' /\ branches' \subseteq Tags /\ sent2xx' \subseteq Trn
  BY DEF IInv, Types, TrnTypeOK, istVars
<1>2. RestTyped
  BY <1>1, AllTyped
<1>3. /\ st \in [Trn -> ServerStates]
      /\ arm \in [Trn -> SUBSET Timers]
      /\ StepSound(K, st, arm)
  BY Zenon, <1>1, Others
<1>4. Terminate(K, st, arm)
  OBVIOUS
<1> HIDE DEF st, arm
<1> QED BY <1>2, <1>3, <1>4, NistStep

(* A handler that leaves the state machine of t and terminates K.          *)
LEMMA NistIgnoreSafe ==
  ASSUME IInv, ~isInvite, isInvite' = isInvite, UNCHANGED istVars,
         NEW t \in Trn, NEW K \in SUBSET Trn, Terminate(K, state, armed), Written,
         NEW x \in Timers, x = "J" => t \in K,
         queued' = queued \/ queued' = [queued EXCEPT ![t] = @ \ {x}],
         counter' = counter, requests' = requests,
         branches' = branches, t \in Set(branches'),
         UNCHANGED <<stopped, toTag, reliable>>
  PROVE  SafeStep
<1>1. /\ isInvite \in BOOLEAN /\ queued \in [Trn -> SUBSET Timers]
      /\ counter \in [Trn -> 0 .. QUEUE_RETRY_MAX + 1] /\ requests \in [Trn -> Nat]
  BY DEF IInv, Types, TrnTypeOK, ServerTypeOK
<1>2. /\ state[t] \in {0, 1, 2, 3, 4, 255} /\ state[t] \in ServerStates /\ armed[t] \in SUBSET Timers
      /\ t \notin destroyed => Timed(state[t], armed[t], queued[t])
      /\ t \in hasTerminated => armed[t] = {}
      /\ Throttled(state[t], armed[t], queued[t], counter[t], requests[t])
      /\ state = [state EXCEPT ![t] = state[t]]
      /\ armed = [armed EXCEPT ![t] = armed[t]]
  BY Known
<1>3. /\ queued' \in [Trn -> SUBSET Timers]
      /\ \A u \in Trn \ {t} : queued'[u] = queued[u]
      /\ queued'[t] \subseteq queued[t] /\ queued[t] \ {x} \subseteq queued'[t]
  BY <1>1
<1>4. t \notin destroyed \cup K => Timed(state[t], armed[t], queued'[t])
  BY <1>1, <1>2, <1>3, StatesAre DEF Timed
<1>5. Throttled(state[t], armed[t], queued'[t], counter'[t], requests'[t])
  BY <1>2, <1>3 DEF Throttled
<1>6. RestOf({}) /\ requests' \in [Trn -> Nat]
  BY Zenon, <1>1, <1>3 DEF RestOf, IInv, Types, TrnTypeOK, ServerTypeOK, istVars
<1>7. \A u \in Trn \ {t} : /\ queued'[u] = queued[u]
                           /\ counter'[u] = counter[u]
                           /\ requests'[u] = requests[u]
  BY <1>3
<1> DEFINE s == state[t]
           a == armed[t]
<1>8. /\ s \in ServerStates /\ a \in SUBSET Timers /\ s >= state[t]
      /\ Terminate(K, [state EXCEPT ![t] = s], [armed EXCEPT ![t] = a])
  BY <1>2
<1>9. OneSound(t, K, s, a)
  BY <1>2, <1>4, <1>5, <1>7, <1>8 DEF OneSound
<1> HIDE DEF s, a
<1> QED BY <1>6, <1>8, <1>9, NistOne

(* A request that is dispatched or queued by the parent.                   *)
LEMMA NistRequestSafe ==
  ASSUME IInv, ~isInvite, isInvite' = isInvite, UNCHANGED istVars, NistOnRequest,
         state[Parent] <= 1, "RequestThrottle" \notin armed[Parent] \cup queued'[Parent],
         counter'[Parent] \in 0 .. QUEUE_RETRY_MAX,
         \A u \in Trn \ {Parent} : queued'[u] = queued[u] /\ counter'[u] = counter[u],
         RestOf({})
  PROVE  SafeStep
<1>1. /\ requests \in [Trn -> Nat] /\ armed \in [Trn -> SUBSET Timers]
      /\ state \in [Trn -> ServerStates] /\ isInvite \in BOOLEAN /\ Parent \in Trn
  BY Zenon DEF IInv, Types, TrnTypeOK, ServerTypeOK, Trn
<1>2. /\ state[Parent] \in {0, 1, 2, 3, 4, 255} /\ requests[Parent] = 0
      /\ armed[Parent] \in SUBSET Timers /\ Parent \notin hasTerminated
  <2>1. /\ state[Parent] \in {0, 1, 2, 3, 4, 255} /\ armed[Parent] \in SUBSET Timers
        /\ Parent \in hasTerminated => state[Parent] = 255
        /\ Throttled(state[Parent], armed[Parent], queued[Parent], counter[Parent], requests[Parent])
    BY <1>1, Known
  <2>2. requests[Parent] = 0
    BY <2>1 DEF Throttled, QUEUED
  <2>3. Parent \notin hasTerminated
    BY <2>1
  <2> QED BY <2>1, <2>2, <2>3
<1>3. /\ ServerStates = {0, 1, 2, 3, 4, 255} /\ Completed = 4 /\ TRYING = 2
      /\ QUEUED = 1 /\ TRN_STATE_IDLE = 0
  BY <1>1, StatesAre
<1>4. branches' = branches /\ WriteNothing /\ Parent \in Set(branches')
  BY DEF NistOnRequest, Set
<1>5. Written
  BY <1>1, <1>4, Writes
<1> DEFINE life == IF state[Parent] = 0 THEN {"MaxLifetime"} ELSE {}
<1>6. NistWithLifetime = [armed EXCEPT ![Parent] = armed[Parent] \cup life]
  <2>1. CASE state[Parent] = 0
    BY <1>3, <2>1 DEF NistWithLifetime
  <2>2. CASE state[Parent] # 0
    BY <1>1, <1>3, <2>2 DEF NistWithLifetime
  <2> QED BY <2>1, <2>2
<1>7. CASE NistDispatch
  <2> DEFINE a == armed[Parent] \cup life
             K == {}
             s == 2
  <2>1. /\ requests' = [requests EXCEPT ![Parent] = @ + 1]
        /\ Terminate(K, [state EXCEPT ![Parent] = s], [armed EXCEPT ![Parent] = a])
    BY <1>3, <1>6, <1>7 DEF NistDispatch, Continue
  <2>2. /\ requests' \in [Trn -> Nat] /\ requests'[Parent] = 1
        /\ \A u \in Trn \ {Parent} : requests'[u] = requests[u]
    BY <1>1, <1>2, <2>1
  <2>3. Throttled(s, a, queued'[Parent], counter'[Parent], requests'[Parent])
    BY <2>2, RetryMaxIsNatural DEF Throttled, TRN_STATE_IDLE, QUEUED
  <2>4. Timed(s, a, queued'[Parent])
    BY <1>3 DEF Timed
  <2>5. /\ s \in ServerStates /\ s >= state[Parent] /\ a \in SUBSET Timers /\ K \in SUBSET Trn
    BY <1>2, <1>3 DEF Timers
  <2>6. \A u \in Trn \ {Parent} : /\ queued'[u] = queued[u]
                                  /\ counter'[u] = counter[u]
                                  /\ requests'[u] = requests[u]
    BY <2>2
  <2> HIDE DEF a, K, s
  <2>7. OneSound(Parent, K, s, a)
    BY <1>2, <2>3, <2>4, <2>5, <2>6 DEF OneSound
  <2> QED BY Zenon, <1>1, <1>4, <1>5, <2>1, <2>2, <2>5, <2>7, NistOne
<1>8. CASE NistDelay
  <2> DEFINE a == armed[Parent] \cup life \cup {"RequestThrottle"}
             K == {}
             s == 1
  <2>1. [NistWithLifetime EXCEPT ![Parent] = @ \cup {"RequestThrottle"}] = [armed EXCEPT ![Parent] = a]
    BY <1>1, <1>6
  <2>2. /\ requests' = requests
        /\ Terminate(K, [state EXCEPT ![Parent] = s], [armed EXCEPT ![Parent] = a])
    BY <1>3, <1>8, <2>1 DEF NistDelay, Continue
  <2>3. Throttled(s, a, queued'[Parent], counter'[Parent], requests'[Parent])
    BY <1>2, <2>2, RetryMaxIsNatural DEF Throttled, TRN_STATE_IDLE, QUEUED
  <2>4. Timed(s, a, queued'[Parent])
    BY <1>3 DEF Timed
  <2>5. /\ s \in ServerStates /\ s >= state[Parent] /\ a \in SUBSET Timers /\ K \in SUBSET Trn
    BY <1>2, <1>3 DEF Timers
  <2>6. \A u \in Trn \ {Parent} : /\ queued'[u] = queued[u]
                                  /\ counter'[u] = counter[u]
                                  /\ requests'[u] = requests[u]
    BY <2>2
  <2> HIDE DEF a, K, s
  <2>7. OneSound(Parent, K, s, a)
    BY <1>2, <2>3, <2>4, <2>5, <2>6 DEF OneSound
  <2> QED BY Zenon, <1>1, <1>4, <1>5, <2>2, <2>5, <2>7, NistOne
<1> QED BY <1>7, <1>8 DEF NistOnRequest

(* SIPNist::onReceivedMessage() throttles, dispatches or answers again.    *)
LEMMA NistReceiveRequestSafe ==
  ASSUME IInv, ~isInvite, isInvite' = isInvite, UNCHANGED istVars, ReceiveRequest
  PROVE  SafeStep
<1>1. UNCHANGED <<queued, stopped, toTag, reliable, counter>>
  BY DEF ReceiveRequest
<1>2. Parent \in Trn /\ isInvite \in BOOLEAN
  BY DEF Trn, IInv, Types
<1>3. RestOf({})
  BY <1>1 DEF RestOf, IInv, Types, TrnTypeOK, ServerTypeOK, istVars
<1>4. CASE state[Parent] = TRN_STATE_IDLE /\ NistOnRequest
  <2>1. state[Parent] = 0
    BY <1>2, <1>4, StatesAre
  <2>2. counter[Parent] = 0 /\ "RequestThrottle" \notin armed[Parent] \cup queued[Parent]
    BY <1>2, <2>1, Known DEF Throttled, TRN_STATE_IDLE
  <2>3. counter'[Parent] \in 0 .. QUEUE_RETRY_MAX
    BY <1>1, <2>2, RetryMaxIsNatural
  <2> QED BY <1>1, <1>3, <1>4, <2>1, <2>2, <2>3, NistRequestSafe
<1>5. CASE /\ Continue(state, armed) /\ UNCHANGED <<branches, requests>>
           /\ Resend(Parent, "peer") \/ WriteNothing
  <2> DEFINE K == {}
  <2>1. Written
    BY <1>2, <1>5, Writes
  <2>2. Terminate(K, state, armed) /\ K \in SUBSET Trn /\ Parent \in Set(branches')
    BY <1>5 DEF Continue, Set
  <2>3. "I" \in Timers /\ "I" # "J"
    BY DEF Timers
  <2> HIDE DEF K
  <2> QED BY <1>1, <1>2, <1>5, <2>1, <2>2, <2>3, NistIgnoreSafe
<1> QED BY <1>4, <1>5 DEF ReceiveRequest

(* A throttled request is dispatched, or rejected at the limit.            *)
LEMMA NistDelayedDispatchSafe ==
  ASSUME IInv, ~isInvite, isInvite' = isInvite, UNCHANGED istVars,
         NEW ok \in BOOLEAN, NistHandleDelayedDispatch(ok)
  PROVE  SafeStep
<1> DEFINE rejected == counter[Parent] + 1 > QUEUE_RETRY_MAX
<1>1. /\ "RequestThrottle" \in queued[Parent]
      /\ queued' = [queued EXCEPT ![Parent] = @ \ {"RequestThrottle"}]
      /\ counter' = IF state[Parent] = QUEUED THEN [counter EXCEPT ![Parent] = @ + 1]
                                                   ELSE counter
      /\ UNCHANGED <<stopped, toTag, reliable>>
  BY DEF NistHandleDelayedDispatch, Dequeue
<1>2. /\ isInvite \in BOOLEAN /\ queued \in [Trn -> SUBSET Timers] /\ Parent \in Trn
      /\ counter \in [Trn -> 0 .. QUEUE_RETRY_MAX + 1] /\ requests \in [Trn -> Nat]
      /\ toTag \in Trn /\ reliable \in BOOLEAN
  BY DEF IInv, Types, TrnTypeOK, ServerTypeOK, Trn
<1>3. QUEUED = 1 /\ Completed = 4 /\ LastTimer = "J"
  BY <1>2, StatesAre
<1>4. /\ Throttled(state[Parent], armed[Parent], queued[Parent], counter[Parent], requests[Parent])
      /\ counter[Parent] \in 0 .. QUEUE_RETRY_MAX + 1
  BY Zenon, <1>2, Known
<1>5. counter[Parent] \in 0 .. QUEUE_RETRY_MAX /\ "RequestThrottle" \notin armed[Parent]
  BY <1>1, <1>4, RetryMaxIsNatural DEF Throttled
<1>6. /\ queued' \in [Trn -> SUBSET Timers]
      /\ queued'[Parent] = queued[Parent] \ {"RequestThrottle"}
      /\ \A u \in Trn \ {Parent} : queued'[u] = queued[u]
  BY <1>1, <1>2
<1>7. /\ counter' \in [Trn -> 0 .. QUEUE_RETRY_MAX + 1]
      /\ counter'[Parent] = IF state[Parent] = 1 THEN counter[Parent] + 1 ELSE counter[Parent]
      /\ \A u \in Trn \ {Parent} : counter'[u] = counter[u]
  <2>1. counter[Parent] + 1 \in 0 .. QUEUE_RETRY_MAX + 1
    BY <1>5, RetryMaxIsNatural
  <2> QED BY <1>1, <1>2, <1>3, <2>1
<1>8. RestOf({})
  BY <1>1, <1>2, <1>6, <1>7 DEF RestOf, IInv, Types, istVars
<1>9. CASE /\ state[Parent] = QUEUED /\ rejected
           /\ branches' = FindBranch(toTag)
           /\ NistSend(toTag, "err", ok, "queue")
           /\ requests' = requests
  <2>1. "err" \in Classes /\ branches' = FindBranch(toTag)
    BY Zenon, <1>9 DEF Classes
  <2>2. state[Parent] = 1 /\ requests[Parent] = 0
    BY <1>3, <1>4, <1>9 DEF Throttled, QUEUED
  <2>3. Throttled(state[Parent], armed[Parent], queued'[Parent], counter'[Parent], requests'[Parent])
    BY <1>5, <1>6, <1>9, <2>2, RetryMaxIsNatural DEF Throttled, TRN_STATE_IDLE, QUEUED
  <2>4. Timed(state[Parent], armed[Parent], queued'[Parent]) /\ Parent \in Set(branches)
    BY <1>3, <2>2 DEF Timed, Set
  <2>5. ASSUME NEW u \in Trn
        PROVE  /\ Throttled(state[u], armed[u], queued'[u], counter'[u], requests'[u])
               /\ u \notin destroyed => Timed(state[u], armed[u], queued'[u])
               /\ u \notin Set(branches) => queued'[u] = {}
    <3>1. CASE u = Parent
      BY <2>3, <2>4, <3>1
    <3>2. CASE u # Parent
      <4>1. queued'[u] = queued[u] /\ counter'[u] = counter[u] /\ requests'[u] = requests[u]
        BY <1>6, <1>7, <1>9, <3>2
      <4> QED BY <4>1 DEF IInv, Sound, Fine
    <3> QED BY <3>1, <3>2
  <2>6. QueueSound
    BY <2>5 DEF QueueSound
  <2>7. requests' \in [Trn -> Nat]
    BY Zenon, <1>2, <1>9
  <2> QED BY Zenon, <1>2, <1>8, <1>9, <2>1, <2>6, <2>7, NistSendSafe
<1>10. CASE state[Parent] = QUEUED /\ ~rejected /\ NistOnRequest
  <2>1. counter'[Parent] \in 0 .. QUEUE_RETRY_MAX /\ state[Parent] <= 1
    BY <1>3, <1>5, <1>7, <1>10, RetryMaxIsNatural
  <2>2. "RequestThrottle" \notin armed[Parent] \cup queued'[Parent]
    BY <1>5, <1>6
  <2> QED BY <1>6, <1>7, <1>8, <1>10, <2>1, <2>2, NistRequestSafe
<1>11. CASE /\ state[Parent] # QUEUED
            /\ Continue(state, armed) /\ Resend(Parent, "timer")
            /\ UNCHANGED <<branches, requests>>
  <2> DEFINE K == {}
  <2>1. Written
    BY <1>2, <1>11, Writes
  <2>2. counter' = counter
    BY <1>1, <1>11
  <2>3. Terminate(K, state, armed) /\ K \in SUBSET Trn /\ Parent \in Set(branches')
    BY <1>11 DEF Continue, Set
  <2>4. "RequestThrottle" \in Timers /\ "RequestThrottle" # "J"
    BY DEF Timers
  <2> HIDE DEF K
  <2> QED BY Zenon, <1>1, <1>2, <1>11, <2>1, <2>2, <2>3, <2>4, NistIgnoreSafe
<1> QED BY <1>9, <1>10, <1>11 DEF NistHandleDelayedDispatch

(* The handlers of Timer J and of the maximum lifetime.                    *)
LEMMA NistDelayedTerminateSafe ==
  ASSUME IInv, ~isInvite, isInvite' = isInvite, UNCHANGED istVars,
         NEW t \in Trn, NEW x \in Timers, NistHandleDelayedTerminate(t, x)
  PROVE  SafeStep
<1> DEFINE st == [state EXCEPT ![t] = TRN_STATE_TERMINATED]
           K == TerminateWithParent(t, st, branches)
<1>1. /\ x \in queued[t] /\ queued' = [queued EXCEPT ![t] = @ \ {x}]
      /\ Terminate(K, state, armed) /\ WriteNothing
      /\ UNCHANGED <<branches, stopped, toTag, reliable, counter, requests>>
  BY DEF NistHandleDelayedTerminate, Dequeue
<1>2. branches \subseteq Tags
  BY DEF IInv, Types, TrnTypeOK
<1>3. t \in Set(branches)
  BY <1>1, Known
<1>4. K \in SUBSET Trn
  BY <1>2, Reaches
<1>5. t \in K
  BY <1>3 DEF TerminateWithParent, TerminateSet
<1>6. Written
  BY <1>1, Writes
<1> HIDE DEF K
<1> QED BY Zenon, <1>1, <1>3, <1>4, <1>5, <1>6, NistIgnoreSafe

(* Every step of a non-INVITE server transaction is safe.                  *)
LEMMA NistNextSafe ==
  ASSUME IInv, ~isInvite, isInvite' = isInvite, UNCHANGED istVars, NistNext
  PROVE  SafeStep
<1>1. ASSUME ReceiveRequest
      PROVE  SafeStep
  BY <1>1, NistReceiveRequestSafe
<1>2. ASSUME NEW t \in Trn, NEW c \in Classes, NEW ok \in BOOLEAN, NistSendResponse(t, c, ok)
      PROVE  SafeStep
  BY <1>2, NistSendResponseSafe
<1>3. ASSUME NEW t \in Trn, NEW x \in Timers, NistRunHandler(t, x)
      PROVE  SafeStep
  BY <1>3, NistDelayedDispatchSafe, NistDelayedTerminateSafe DEF NistRunHandler
<1>4. ASSUME NistInvisible
      PROVE  Unseen
  BY <1>4 DEF NistInvisible, Unseen, istVars, IInv, Types
<1>5. ASSUME NEW t \in Trn, NEW x \in Timers, NistExpire(t, x)
      PROVE  SafeStep
  <2>1. TimerExpires(t, x) /\ NistInvisible
    BY <1>5 DEF NistExpire, TimerExpires
  <2> QED BY <1>4, <2>1, UnseenIsSafe
<1>6. ASSUME NEW t \in Trn, NistDropLast(t)
      PROVE  SafeStep
  <2>1. Destroy(t) /\ NistInvisible
    BY <1>6 DEF NistDropLast, Destroy
  <2> QED BY <1>4, <2>1, UnseenIsSafe
<1>7. ASSUME NistStop
      PROVE  SafeStep
  <2>1. PoolStop /\ NistInvisible
    BY <1>7 DEF NistStop, PoolStop, TRN_STATE_TERMINATED
  <2> QED BY <1>4, <2>1, UnseenIsSafe
<1> QED BY <1>1, <1>2, <1>3, <1>5, <1>6, <1>7 DEF NistNext
=============================================================================
