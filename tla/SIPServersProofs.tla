-------------------------- MODULE SIPServersProofs --------------------------
(***************************************************************************)
(* The steps of the INVITE server transaction keep the invariant, and what *)
(* follows from it for both kinds.                                         *)
(***************************************************************************)
EXTENDS SIPServerProofs

(* SIPIst::onTerminate() blocks the id of what was received.               *)
LEMMA IstEnds ==
  ASSUME NEW K, NEW st, NEW arm, End(K, st, arm)
  PROVE  /\ Terminate(K, st, arm)
         /\ blocked' = (blocked \/ (K \ hasTerminated) \cap received' # {})
  BY DEF End, Terminate, Trn, TRN_STATE_TERMINATED

(* A sound step of an INVITE that was received is safe.                    *)
LEMMA IstStep ==
  ASSUME IInv, isInvite, isInvite' = isInvite,
         NEW K \in SUBSET Trn,
         NEW st \in [Trn -> ServerStates],
         NEW arm \in [Trn -> SUBSET Timers],
         End(K, st, arm),
         StepSound(K, st, arm),
         RestTyped, Parent \in received'
  PROVE  SafeStep
<1>1. /\ Terminate(K, st, arm)
      /\ blocked' = (blocked \/ (K \ hasTerminated) \cap received' # {})
  BY IstEnds
<1>2. /\ Sound'
      /\ \A t \in Trn : state'[t] >= state[t]
      /\ state' \in [Trn -> ServerStates]
      /\ armed' \in [Trn -> SUBSET Timers]
      /\ hasTerminated' \subseteq Trn
      /\ inPool' \in BOOLEAN
      /\ released' \in Nat
      /\ destroyed' \subseteq Trn
  BY Zenon, <1>1, Ends
<1>3. ServerStates' = ServerStates
  BY DEF ServerStates
<1>4. blocked' \in BOOLEAN /\ isInvite' \in BOOLEAN /\ stopped' \in BOOLEAN
  BY <1>1 DEF IInv, Types, TrnTypeOK, RestTyped
<1>5. TrnTypeOK(ServerStates)'
  BY <1>2, <1>3, <1>4 DEF TrnTypeOK, RestTyped
<1>6. Types'
  BY <1>4, <1>5 DEF Types, RestTyped
<1>7. Heard'
  <2>1. inPool' = (inPool /\ Parent \notin K \ hasTerminated)
    BY <1>1 DEF Terminate
  <2>2. ~inPool /\ ~stopped => blocked
    BY DEF IInv, Heard
  <2>3. ~inPool' /\ ~stopped' => blocked'
    BY Zenon, <1>1, <2>1, <2>2 DEF RestTyped
  <2> QED BY <2>3 DEF Heard
<1> QED BY <1>2, <1>6, <1>7 DEF SafeStep, IInv

(* The same for a handler that changes the state machine of t only.        *)
LEMMA IstOne ==
  ASSUME IInv, isInvite, isInvite' = isInvite,
         NEW t \in Trn, NEW s \in ServerStates, NEW a \in SUBSET Timers,
         NEW K \in SUBSET Trn,
         OneSound(t, K, s, a),
         branches \subseteq branches', t \in Set(branches'),
         End(K, [state EXCEPT ![t] = s], [armed EXCEPT ![t] = a]),
         RestTyped, Parent \in received'
  PROVE  SafeStep
<1> DEFINE st == [state EXCEPT ![t] = s]
           arm == [armed EXCEPT ![t] = a]
<1>1. /\ st \in [Trn -> ServerStates]
      /\ arm \in [Trn -> SUBSET Timers]
      /\ StepSound(K, st, arm)
  BY Zenon, Others
<1>2. End(K, st, arm)
  OBVIOUS
<1> HIDE DEF st, arm
<1> QED BY <1>1, <1>2, IstStep

(* sendResponse() of the INVITE server transaction.                        *)
LEMMA IstSendSafe ==
  ASSUME IInv, isInvite, isInvite' = isInvite,
         NEW t \in Trn, NEW c \in Classes, NEW ok \in BOOLEAN, NEW for \in {"TU", "queue"},
         IstSend(t, c, ok, for, state, armed),
         branches' = FindBranch(t),
         QueueSound,
         NEW rec \in SUBSET Trn, RestOf(rec), requests' \in [Trn -> Nat], Parent \in received'
  PROVE  SafeStep
<1> DEFINE first == state[t] <= IstPROCEEDING /\ ~Lost(ok)
           error == first /\ c = "err"
           over == Lost(ok) \/ (first /\ c = "2xx")
           K == IF over THEN TerminateSet(t, branches') ELSE {}
           st == IF error THEN [state EXCEPT ![t] = IstCOMPLETED] ELSE state
           arm == IF error THEN [armed EXCEPT ![t] = @ \cup FinalTimers(reliable)] ELSE armed
<1>1. /\ End(K, st, arm)
      /\ sent2xx' = IF first /\ c = "2xx" THEN sent2xx \cup {t} ELSE sent2xx
      /\ Write(t, ok, for)
  BY DEF IstSend
<1>2. /\ state \in [Trn -> ServerStates] /\ armed \in [Trn -> SUBSET Timers]
      /\ isInvite \in BOOLEAN /\ sent2xx \subseteq Trn /\ branches \subseteq Tags
      /\ hasTerminated \subseteq Trn
  BY DEF IInv, Types, TrnTypeOK
<1>3. /\ ServerStates = {0, 1, 2, 3, 4, 255} /\ IstCOMPLETED = 3 /\ IstPROCEEDING = 2
      /\ Completed = 3 /\ LastTimer = "H"
  BY <1>2, StatesAre
<1>4. branches' \subseteq Tags
  BY BranchesAreTags
<1>5. K \in SUBSET Trn
  BY <1>4, Reaches
<1>6. "H" \in FinalTimers(reliable) /\ "RequestThrottle" \notin FinalTimers(reliable)
      /\ FinalTimers(reliable) \subseteq Timers
  BY DEF FinalTimers, Timers
<1>7. st \in [Trn -> ServerStates] /\ arm \in [Trn -> SUBSET Timers]
  BY <1>2, <1>3, <1>6
<1>8. RestTyped
  <2>1. Written
    BY <1>1, Writes
  <2>2. sent2xx' \subseteq Trn
    BY <1>1, <1>2
  <2> QED BY <1>4, <2>1, <2>2, AllTyped
<1>9. error => /\ state[t] <= 2 /\ st[t] = 3
               /\ arm[t] = armed[t] \cup FinalTimers(reliable)
  BY <1>2, <1>3
<1>10. \A u \in Trn : ~(error /\ u = t) => st[u] = state[u] /\ arm[u] = armed[u]
  BY <1>2
<1>11. t \in Set(branches') /\ \A u \in Set(branches) : u \in Set(branches')
  BY DEF FindBranch, Set
<1> HIDE DEF first, error, over, K, st, arm
<1>12. ASSUME NEW u \in Trn
       PROVE  /\ Throttled(st[u], arm[u], queued'[u], counter'[u], requests'[u])
              /\ u \notin destroyed \cup K => Timed(st[u], arm[u], queued'[u])
              /\ st[u] >= state[u]
              /\ u \in hasTerminated => arm[u] = {}
              /\ u \notin Set(branches') => arm[u] = {} /\ queued'[u] = {}
  <2>1. /\ Throttled(state[u], armed[u], queued'[u], counter'[u], requests'[u])
        /\ u \notin destroyed => Timed(state[u], armed[u], queued'[u])
        /\ u \notin Set(branches) => queued'[u] = {}
    BY DEF QueueSound
  <2>2. /\ state[u] \in {0, 1, 2, 3, 4, 255}
        /\ u \in hasTerminated => state[u] = 255 /\ armed[u] = {}
        /\ u \notin Set(branches) => armed[u] = {}
    BY Known
  <2>3. CASE error /\ u = t
    <3>1. st[u] = 3 /\ arm[u] = armed[u] \cup FinalTimers(reliable) /\ state[u] <= 2
      BY <1>9, <2>3
    <3>2. st[u] \in {2, 3, 4, 255} /\ ("RequestThrottle" \in arm[u] => "RequestThrottle" \in armed[u])
      BY <1>6, <3>1
    <3>3. Throttled(st[u], arm[u], queued'[u], counter'[u], requests'[u])
      BY <2>1, <3>2, MovesOn
    <3>4. Timed(st[u], arm[u], queued'[u])
      BY <1>3, <1>6, <3>1 DEF Timed
    <3>5. st[u] >= state[u] /\ u \notin hasTerminated
      BY <2>2, <3>1
    <3> QED BY <1>11, <2>3, <3>3, <3>4, <3>5
  <2>4. CASE ~(error /\ u = t)
    <3>1. st[u] = state[u] /\ arm[u] = armed[u]
      BY <1>10, <2>4
    <3>2. st[u] >= state[u]
      BY <2>2, <3>1
    <3> QED BY <1>11, <2>1, <2>2, <3>1, <3>2
  <2> QED BY <2>3, <2>4
<1>13. StepSound(K, st, arm)
  BY <1>12 DEF StepSound
<1>14. /\ End(K, st, arm) /\ K \in SUBSET Trn
       /\ st \in [Trn -> ServerStates] /\ arm \in [Trn -> SUBSET Timers]
  BY <1>1, <1>5, <1>7
<1> QED BY <1>8, <1>13, <1>14, IstStep

(* SIPTransaction::sendResponse() in the parent or a branch.               *)
LEMMA IstSendResponseSafe ==
  ASSUME IInv, isInvite, isInvite' = isInvite,
         NEW t \in Trn, NEW c \in Classes, NEW ok \in BOOLEAN, IstSendResponse(t, c, ok)
  PROVE  SafeStep
<1>1. /\ HandedOver /\ branches' = FindBranch(t)
      /\ UNCHANGED <<queued, stopped, toTag, reliable, counter, requests, received>>
      /\ IstSend(t, c, ok, "TU", state, armed)
      /\ core' = {}
  BY DEF IstSendResponse
<1>2. Parent \in received'
  <2>1. HandedOver
    BY <1>1 DEF HandedOver
  <2> QED BY <1>1, <2>1, WasHeard
<1>3. RestOf({}) /\ requests' \in [Trn -> Nat]
  BY <1>1 DEF RestOf, IInv, Types, TrnTypeOK, ServerTypeOK
<1>4. QueueSound
  BY <1>1 DEF QueueSound, IInv, Sound, Fine
<1> QED BY <1>1, <1>2, <1>3, <1>4, IstSendSafe

(* A request that is dispatched or queued, in the state machine of t.      *)
LEMMA IstRequestSafe ==
  ASSUME IInv, isInvite, isInvite' = isInvite,
         NEW t \in Trn, NEW ok \in BOOLEAN, IstOnRequest(t, ok),
         state[t] <= 1, "RequestThrottle" \notin armed[t] \cup queued'[t],
         counter'[t] \in 0 .. QUEUE_RETRY_MAX,
         \A u \in Trn \ {t} : queued'[u] = queued[u] /\ counter'[u] = counter[u],
         NEW rec \in SUBSET Trn, RestOf(rec), Parent \in received'
  PROVE  SafeStep
<1>1. /\ requests \in [Trn -> Nat] /\ armed \in [Trn -> SUBSET Timers]
      /\ state \in [Trn -> ServerStates] /\ branches \subseteq Tags /\ sent2xx \subseteq Trn
      /\ toTag \in Trn /\ isInvite \in BOOLEAN
  BY DEF IInv, Types, TrnTypeOK, ServerTypeOK
<1>2. /\ state[t] \in {0, 1, 2, 3, 4, 255} /\ requests[t] = 0 /\ armed[t] \in SUBSET Timers
      /\ t \notin hasTerminated
  BY Known DEF Throttled, QUEUED
<1>3. /\ ServerStates = {0, 1, 2, 3, 4, 255} /\ Completed = 3 /\ IstPROCEEDING = 2
      /\ QUEUED = 1 /\ TRN_STATE_IDLE = 0
  BY <1>1, StatesAre
<1> DEFINE life == IF state[t] = 0 THEN {"MaxLifetime"} ELSE {}
<1>4. IstWithLifetime(t) = [armed EXCEPT ![t] = armed[t] \cup life]
  <2>1. CASE state[t] = 0
    BY <1>3, <2>1 DEF IstWithLifetime
  <2>2. CASE state[t] # 0
    BY <1>1, <1>3, <2>2 DEF IstWithLifetime
  <2> QED BY <2>1, <2>2
<1>5. armed[t] \cup life \in SUBSET Timers /\ armed[t] \cup life \cup {"RequestThrottle"} \in SUBSET Timers
  BY <1>2 DEF Timers
<1>6. "RequestThrottle" \notin life
  OBVIOUS
<1>7. CASE IstDispatch(t)
  <2>1. /\ requests' = [requests EXCEPT ![t] = @ + 1] /\ branches' = FindBranch(t)
        /\ End({}, [state EXCEPT ![t] = 2], [armed EXCEPT ![t] = armed[t] \cup life])
        /\ WriteNothing /\ sent2xx' = sent2xx
    BY <1>3, <1>4, <1>7 DEF IstDispatch
  <2>2. /\ requests' \in [Trn -> Nat] /\ requests'[t] = 1
        /\ \A u \in Trn \ {t} : requests'[u] = requests[u]
    BY <1>1, <1>2, <2>1
  <2>3. Throttled(2, armed[t] \cup life, queued'[t], counter'[t], requests'[t])
    BY <1>6, <2>2, RetryMaxIsNatural DEF Throttled, TRN_STATE_IDLE, QUEUED
  <2>4. Timed(2, armed[t] \cup life, queued'[t])
    BY <1>3 DEF Timed
  <2>5. RestTyped
    BY <1>1, <2>1, <2>2, Writes, BranchesAreTags, AllTyped
  <2>6. branches \subseteq branches' /\ t \in Set(branches')
    BY <2>1 DEF FindBranch, Set
  <2>7. 2 \in ServerStates /\ 2 >= state[t]
    BY <1>2, <1>3
  <2>8. \A u \in Trn \ {t} : /\ queued'[u] = queued[u]
                             /\ counter'[u] = counter[u]
                             /\ requests'[u] = requests[u]
    BY <2>2
  <2> DEFINE a == armed[t] \cup life
             K == {}
  <2>9. /\ a \in SUBSET Timers /\ K \in SUBSET Trn
        /\ End(K, [state EXCEPT ![t] = 2], [armed EXCEPT ![t] = a])
    BY <1>5, <2>1
  <2>10. OneSound(t, K, 2, a)
    BY <1>2, <2>3, <2>4, <2>7, <2>8 DEF OneSound
  <2> HIDE DEF a, K
  <2> QED BY <2>5, <2>6, <2>7, <2>9, <2>10, IstOne
<1>8. CASE IstDelay(t, ok) /\ requests' = requests
  <2> DEFINE a == armed[t] \cup life \cup {"RequestThrottle"}
             K == IF state[t] = 0 /\ Lost(ok)
                    THEN TerminateSet(ResponseTag(t), branches') ELSE {}
  <2>1. [IstWithLifetime(t) EXCEPT ![t] = @ \cup {"RequestThrottle"}] = [armed EXCEPT ![t] = a]
    BY <1>1, <1>4
  <2>2. ResponseTag(t) \in Trn
    BY <1>1 DEF ResponseTag
  <2>3. /\ End(K, [state EXCEPT ![t] = 1], [armed EXCEPT ![t] = a])
        /\ sent2xx' = sent2xx
        /\ Write(ResponseTag(t), ok, "queue") \/ WriteNothing
        /\ branches' \subseteq Tags /\ branches \subseteq branches' /\ t \in Set(branches')
    <3>1. CASE state[t] = 0
      <4>1. /\ branches' = FindBranch(t) \cup FindBranch(ResponseTag(t))
            /\ IstSend(ResponseTag(t), "1xx", ok, "queue", [state EXCEPT ![t] = 1],
                        [armed EXCEPT ![t] = a])
        BY <1>3, <1>8, <2>1, <3>1 DEF IstDelay
      <4>2. /\ branches' \subseteq Tags /\ branches \subseteq branches' /\ t \in Set(branches')
        BY <2>2, <4>1, BranchesAreTags DEF FindBranch, Set
      <4>3. /\ End(IF Lost(ok) THEN TerminateSet(ResponseTag(t), branches') ELSE {},
                       [state EXCEPT ![t] = 1], [armed EXCEPT ![t] = a])
            /\ sent2xx' = sent2xx
            /\ Write(ResponseTag(t), ok, "queue")
        BY <4>1 DEF IstSend
      <4> QED BY <3>1, <4>2, <4>3
    <3>2. CASE state[t] = 1
      <4>1. /\ branches' = FindBranch(t)
            /\ End({}, state, [armed EXCEPT ![t] = a])
            /\ WriteNothing /\ sent2xx' = sent2xx
        BY <1>3, <1>8, <2>1, <3>2 DEF IstDelay
      <4>2. state = [state EXCEPT ![t] = 1]
        BY <1>1, <3>2
      <4>3. /\ branches' \subseteq Tags /\ branches \subseteq branches' /\ t \in Set(branches')
        BY <4>1, BranchesAreTags DEF FindBranch, Set
      <4> QED BY <3>2, <4>1, <4>2, <4>3
    <3> QED BY <1>2, <3>1, <3>2
  <2>4. K \in SUBSET Trn
    BY <2>2, <2>3, Reaches
  <2>5. RestTyped
    BY <1>1, <1>8, <2>2, <2>3, Writes, AllTyped
  <2>6. Throttled(1, a, queued'[t], counter'[t], requests'[t])
    BY <1>2, <1>8, RetryMaxIsNatural DEF Throttled, TRN_STATE_IDLE, QUEUED
  <2>7. Timed(1, a, queued'[t])
    BY <1>3 DEF Timed
  <2>8. 1 \in ServerStates /\ 1 >= state[t] /\ a \in SUBSET Timers
    BY <1>2, <1>3, <1>5
  <2> HIDE DEF a, K
  <2>9. OneSound(t, K, 1, a)
    BY <1>2, <1>8, <2>6, <2>7, <2>8 DEF OneSound
  <2> QED BY <2>3, <2>4, <2>5, <2>8, <2>9, IstOne
<1> QED BY <1>7, <1>8 DEF IstOnRequest

(* A handler that neither starts the throttle timer nor dispatches.        *)
LEMMA IstLaterSafe ==
  ASSUME IInv, isInvite, isInvite' = isInvite,
         NEW t \in Trn, NEW s \in ServerStates, NEW a \in SUBSET Timers,
         NEW K \in SUBSET Trn,
         End(K, [state EXCEPT ![t] = s], [armed EXCEPT ![t] = a]),
         s >= state[t], "RequestThrottle" \in a => "RequestThrottle" \in armed[t],
         t \notin destroyed \cup K => Timed(s, a, queued'[t]),
         t \in hasTerminated => a = {},
         \A u \in Trn \ {t} : queued'[u] = queued[u], queued'[t] \subseteq queued[t],
         counter' = counter, requests' = requests, sent2xx' = sent2xx, Written,
         branches' \subseteq Tags, branches \subseteq branches', t \in Set(branches'),
         NEW rec \in SUBSET Trn, RestOf(rec), Parent \in received'
  PROVE  SafeStep
<1>1. requests' \in [Trn -> Nat] /\ sent2xx' \subseteq Trn /\ isInvite \in BOOLEAN
  BY DEF IInv, Types, ServerTypeOK
<1>2. RestTyped
  BY <1>1, AllTyped
<1>3. /\ state[t] \in {0, 1, 2, 3, 4, 255} /\ s \in {0, 1, 2, 3, 4, 255}
      /\ Throttled(state[t], armed[t], queued[t], counter[t], requests[t])
  BY <1>1, Known, StatesAre
<1>4. Throttled(s, a, queued'[t], counter'[t], requests'[t])
  BY <1>3 DEF Throttled, TRN_STATE_IDLE, QUEUED
<1>5. \A u \in Trn \ {t} : /\ queued'[u] = queued[u]
                           /\ counter'[u] = counter[u]
                           /\ requests'[u] = requests[u]
  OBVIOUS
<1>6. OneSound(t, K, s, a)
  BY <1>4, <1>5 DEF OneSound
<1> QED BY <1>2, <1>6, IstOne

(* A message that changes nothing, or a throttle timer that comes too late.*)
LEMMA IstIgnoreSafe ==
  ASSUME IInv, isInvite, isInvite' = isInvite,
         NEW t \in Trn, Ignore(t), Written,
         \/ queued' = queued
         \/ queued' = [queued EXCEPT ![t] = @ \ {"RequestThrottle"}],
         counter' = counter,
         NEW rec \in SUBSET Trn, RestOf(rec), Parent \in received'
  PROVE  SafeStep
<1>1. /\ branches' = FindBranch(t) /\ End({}, state, armed)
      /\ requests' = requests /\ sent2xx' = sent2xx
  BY DEF Ignore
<1>2. /\ isInvite \in BOOLEAN /\ queued \in [Trn -> SUBSET Timers] /\ branches \subseteq Tags
  BY DEF IInv, Types, TrnTypeOK
<1>3. /\ state[t] \in {0, 1, 2, 3, 4, 255} /\ state[t] \in ServerStates /\ armed[t] \in SUBSET Timers
      /\ t \notin destroyed => Timed(state[t], armed[t], queued[t])
      /\ t \in hasTerminated => armed[t] = {}
      /\ state = [state EXCEPT ![t] = state[t]]
      /\ armed = [armed EXCEPT ![t] = armed[t]]
  BY Known
<1>4. /\ \A u \in Trn \ {t} : queued'[u] = queued[u]
      /\ queued'[t] \subseteq queued[t] /\ queued[t] \ {"RequestThrottle"} \subseteq queued'[t]
  BY <1>2
<1>5. t \notin destroyed => Timed(state[t], armed[t], queued'[t])
  BY <1>2, <1>3, <1>4, StatesAre DEF Timed
<1>6. branches' \subseteq Tags /\ branches \subseteq branches' /\ t \in Set(branches')
  BY <1>1, BranchesAreTags DEF FindBranch, Set
<1> DEFINE s == state[t]
           a == armed[t]
           K == {}
<1>7. /\ s \in ServerStates /\ a \in SUBSET Timers /\ K \in SUBSET Trn /\ s >= state[t]
      /\ "RequestThrottle" \in a => "RequestThrottle" \in armed[t]
      /\ t \notin destroyed \cup K => Timed(s, a, queued'[t])
      /\ t \in hasTerminated => a = {}
      /\ End(K, [state EXCEPT ![t] = s], [armed EXCEPT ![t] = a])
  BY <1>1, <1>3, <1>5
<1> HIDE DEF s, a, K
<1> QED BY <1>1, <1>4, <1>6, <1>7, IstLaterSafe

(* SIPIst::onReceivedMessage() throttles, dispatches or ignores the        *)
(* INVITE.                                                                 *)
LEMMA IstReceiveInviteSafe ==
  ASSUME IInv, isInvite, isInvite' = isInvite, NEW ok \in BOOLEAN, ReceiveInvite(ok)
  PROVE  SafeStep
<1>1. /\ received' = received \cup {Parent} /\ core' = {}
      /\ UNCHANGED <<queued, stopped, toTag, reliable, counter>>
  BY DEF ReceiveInvite
<1>2. Parent \in Trn /\ isInvite \in BOOLEAN
  BY DEF Trn, IInv, Types
<1>3. RestOf({Parent}) /\ {Parent} \in SUBSET Trn /\ Parent \in received'
  BY <1>1, <1>2 DEF RestOf, IInv, Types, TrnTypeOK, ServerTypeOK
<1>4. CASE state[Parent] = TRN_STATE_IDLE /\ IstOnRequest(Parent, ok)
  <2>1. state[Parent] = 0
    BY <1>2, <1>4, StatesAre
  <2>2. counter[Parent] = 0 /\ "RequestThrottle" \notin armed[Parent] \cup queued[Parent]
    BY <1>2, <2>1, Known DEF Throttled, TRN_STATE_IDLE
  <2>3. counter'[Parent] \in 0 .. QUEUE_RETRY_MAX
    BY <1>1, <2>2, RetryMaxIsNatural
  <2> QED BY <1>1, <1>2, <1>3, <1>4, <2>1, <2>2, <2>3, IstRequestSafe
<1>5. CASE Ignore(Parent) /\ (Resend(Parent, "peer") \/ WriteNothing)
  <2>1. Written
    BY <1>2, <1>5, Writes
  <2> QED BY <1>1, <1>2, <1>3, <1>5, <2>1, IstIgnoreSafe
<1> QED BY <1>4, <1>5 DEF ReceiveInvite

(* The ACK of an error response, in the state machine of t.                *)
LEMMA IstAckSafe ==
  ASSUME IInv, isInvite, isInvite' = isInvite,
         NEW t \in Trn, state[t] = IstCOMPLETED, OnAck(t),
         \/ queued' = queued
         \/ queued' = [queued EXCEPT ![t] = @ \ {"RequestThrottle"}],
         counter' = counter,
         NEW rec \in SUBSET Trn, RestOf(rec), Parent \in received'
  PROVE  SafeStep
<1>1. /\ branches' = FindBranch(t) /\ WriteNothing
      /\ requests' = requests /\ sent2xx' = sent2xx
  BY DEF OnAck
<1>2. isInvite \in BOOLEAN
  BY DEF IInv, Types
<1>3. /\ ServerStates = {0, 1, 2, 3, 4, 255} /\ state[t] = 3 /\ Completed = 3
      /\ TRN_STATE_TERMINATED = 255 /\ CONFIRMED = 4
  BY <1>2, StatesAre
<1>4. /\ armed[t] \in SUBSET Timers /\ t \notin hasTerminated
      /\ armed = [armed EXCEPT ![t] = armed[t]]
  BY <1>3, Known
<1>5. branches' \subseteq Tags /\ branches \subseteq branches' /\ t \in Set(branches')
  BY <1>1, BranchesAreTags DEF FindBranch, Set
<1>6. Written
  BY <1>1, Writes
<1>7. (\A u \in Trn \ {t} : queued'[u] = queued[u]) /\ queued'[t] \subseteq queued[t]
  BY DEF IInv, Types, TrnTypeOK
<1>8. CASE reliable
  <2> DEFINE K == TerminateSet(t, branches')
             s == 255
             a == armed[t]
  <2>1. K \in SUBSET Trn /\ t \in K
    BY Zenon, <1>5, Reaches
  <2>2. End(K, [state EXCEPT ![t] = s], [armed EXCEPT ![t] = a])
    BY <1>3, <1>4, <1>8 DEF OnAck
  <2>3. /\ s \in ServerStates /\ a \in SUBSET Timers /\ s >= state[t]
        /\ "RequestThrottle" \in a => "RequestThrottle" \in armed[t]
    BY <1>3, <1>4
  <2> HIDE DEF K, s, a
  <2> QED BY <1>1, <1>4, <1>5, <1>6, <1>7, <2>1, <2>2, <2>3, IstLaterSafe
<1>9. CASE ~reliable
  <2> DEFINE K == {}
             s == 4
             a == (armed[t] \ {"G", "H"}) \cup {"I"}
  <2>1. End(K, [state EXCEPT ![t] = s], [armed EXCEPT ![t] = a])
    BY <1>3, <1>9 DEF OnAck
  <2>2. /\ s \in ServerStates /\ a \in SUBSET Timers /\ s >= state[t] /\ K \in SUBSET Trn
        /\ "RequestThrottle" \in a => "RequestThrottle" \in armed[t]
    BY <1>3, <1>4 DEF Timers
  <2>3. Timed(s, a, queued'[t])
    BY <1>3 DEF Timed
  <2> HIDE DEF K, s, a
  <2> QED BY <1>1, <1>4, <1>5, <1>6, <1>7, <2>1, <2>2, <2>3, IstLaterSafe
<1> QED BY <1>8, <1>9

(* The ACK confirms a transaction, or goes to the core.                    *)
LEMMA IstReceiveAckSafe ==
  ASSUME IInv, isInvite, isInvite' = isInvite,
         NEW t \in Trn, NEW ok \in BOOLEAN, ReceiveAck(t, ok)
  PROVE  SafeStep
<1>1. received # {} /\ UNCHANGED <<queued, stopped, toTag, reliable, counter>>
  BY DEF ReceiveAck
<1>2. Parent \in received
  BY <1>1, WasHeard
<1>3. isInvite \in BOOLEAN
  BY DEF IInv, Types
<1>4. CASE received' = received \cup {t} /\ core' = {}
  <2>1. RestOf({t}) /\ {t} \in SUBSET Trn /\ Parent \in received'
    BY <1>1, <1>2, <1>4 DEF RestOf, IInv, Types, TrnTypeOK, ServerTypeOK
  <2>2. CASE state[t] = TRN_STATE_IDLE /\ IstOnRequest(t, ok)
    <3>1. state[t] = 0
      BY <1>3, <2>2, StatesAre
    <3>2. counter[t] = 0 /\ "RequestThrottle" \notin armed[t] \cup queued[t]
      BY <3>1, Known DEF Throttled, TRN_STATE_IDLE
    <3>3. counter'[t] \in 0 .. QUEUE_RETRY_MAX
      BY <1>1, <3>2, RetryMaxIsNatural
    <3> QED BY <1>1, <2>1, <2>2, <3>1, <3>2, <3>3, IstRequestSafe
  <2>3. CASE state[t] = IstCOMPLETED /\ OnAck(t)
    BY <1>1, <2>1, <2>3, IstAckSafe
  <2>4. CASE Ignore(t) /\ WriteNothing
    <3>1. Written
      BY <2>4, Writes
    <3> QED BY <1>1, <2>1, <2>4, <3>1, IstIgnoreSafe
  <2> QED BY <1>4, <2>2, <2>3, <2>4 DEF ReceiveAck
<1>5. CASE received' = received /\ core' = {t} /\ Ignore(t) /\ WriteNothing
  <2>1. RestOf({}) /\ {} \in SUBSET Trn /\ Parent \in received'
    BY <1>1, <1>2, <1>5 DEF RestOf, IInv, Types, TrnTypeOK, ServerTypeOK
  <2>2. Written
    BY <1>5, Writes
  <2> QED BY <1>1, <1>5, <2>1, <2>2, IstIgnoreSafe
<1>6. CASE /\ core' = {t} /\ sent' = {}
           /\ UNCHANGED <<branches, state, hasTerminated, armed, inPool, released, destroyed,
                          response, requests, sent2xx, received, blocked>>
  <2>1. Unseen /\ UNCHANGED trnVars
    BY <1>1, <1>6 DEF Unseen, trnVars
  <2> QED BY <2>1, UnseenIsSafe
<1> QED BY <1>4, <1>5, <1>6 DEF ReceiveAck

(* A throttled request is dispatched, or rejected at the limit; the ACK of *)
(* an error, when it was throttled, is taken for what it is.               *)
LEMMA IstDelayedDispatchSafe ==
  ASSUME IInv, isInvite, isInvite' = isInvite,
         NEW t \in Trn, NEW ok \in BOOLEAN, IstHandleDelayedDispatch(t, ok)
  PROVE  SafeStep
<1> DEFINE rejected == counter[t] + 1 > QUEUE_RETRY_MAX
<1>1. /\ "RequestThrottle" \in queued[t]
      /\ queued' = [queued EXCEPT ![t] = @ \ {"RequestThrottle"}]
      /\ received' = received \cup {t} /\ core' = {}
      /\ counter' = IF state[t] = QUEUED THEN [counter EXCEPT ![t] = @ + 1] ELSE counter
      /\ UNCHANGED <<stopped, toTag, reliable>>
  BY DEF IstHandleDelayedDispatch, Dequeue
<1>2. /\ isInvite \in BOOLEAN /\ queued \in [Trn -> SUBSET Timers]
      /\ counter \in [Trn -> 0 .. QUEUE_RETRY_MAX + 1] /\ requests \in [Trn -> Nat]
      /\ toTag \in Trn /\ reliable \in BOOLEAN /\ received \subseteq Trn
  BY DEF IInv, Types, TrnTypeOK, ServerTypeOK
<1>3. QUEUED = 1 /\ Completed = 3 /\ LastTimer = "H"
  BY <1>2, StatesAre
<1>4. /\ Throttled(state[t], armed[t], queued[t], counter[t], requests[t])
      /\ counter[t] \in 0 .. QUEUE_RETRY_MAX + 1 /\ requests[t] \in Nat
      /\ t \notin destroyed => Timed(state[t], armed[t], queued[t])
      /\ t \in Set(branches)
  BY <1>1, Known
<1>5. counter[t] \in 0 .. QUEUE_RETRY_MAX /\ "RequestThrottle" \notin armed[t]
  BY <1>1, <1>4, RetryMaxIsNatural DEF Throttled
<1>6. Parent \in received'
  BY <1>1, WasHeard
<1>7. /\ queued' \in [Trn -> SUBSET Timers]
      /\ queued'[t] = queued[t] \ {"RequestThrottle"}
      /\ \A u \in Trn \ {t} : queued'[u] = queued[u]
  BY <1>1, <1>2
<1>8. /\ counter' \in [Trn -> 0 .. QUEUE_RETRY_MAX + 1]
      /\ counter'[t] = IF state[t] = 1 THEN counter[t] + 1 ELSE counter[t]
      /\ \A u \in Trn \ {t} : counter'[u] = counter[u]
  <2>1. counter[t] + 1 \in 0 .. QUEUE_RETRY_MAX + 1
    BY <1>5, RetryMaxIsNatural
  <2> QED BY <1>1, <1>2, <1>3, <2>1
<1>9. RestOf({t}) /\ {t} \in SUBSET Trn
  BY <1>1, <1>2, <1>7, <1>8 DEF RestOf
<1>10. CASE /\ state[t] = QUEUED /\ rejected
            /\ branches' = FindBranch(ResponseTag(t))
            /\ IstSend(ResponseTag(t), "err", ok, "queue", state, armed)
            /\ requests' = requests
  <2>1. ResponseTag(t) \in Trn /\ "err" \in Classes
    BY Zenon, <1>2 DEF ResponseTag, Classes
  <2>2. state[t] = 1 /\ requests[t] = 0
    BY <1>3, <1>4, <1>10 DEF Throttled, QUEUED
  <2>3. Throttled(state[t], armed[t], queued'[t], counter'[t], requests'[t])
    BY <1>5, <1>7, <1>10, <2>2, RetryMaxIsNatural DEF Throttled, TRN_STATE_IDLE, QUEUED
  <2>4. Timed(state[t], armed[t], queued'[t])
    BY <1>3, <2>2 DEF Timed
  <2>5. ASSUME NEW u \in Trn
        PROVE  /\ Throttled(state[u], armed[u], queued'[u], counter'[u], requests'[u])
               /\ u \notin destroyed => Timed(state[u], armed[u], queued'[u])
               /\ u \notin Set(branches) => queued'[u] = {}
    <3>1. CASE u = t
      BY <1>4, <2>3, <2>4, <3>1
    <3>2. CASE u # t
      <4>1. queued'[u] = queued[u] /\ counter'[u] = counter[u] /\ requests'[u] = requests[u]
        BY <1>7, <1>8, <1>10, <3>2
      <4> QED BY <4>1 DEF IInv, Sound, Fine
    <3> QED BY <3>1, <3>2
  <2>6. QueueSound
    BY <2>5 DEF QueueSound
  <2>7. requests' \in [Trn -> Nat] /\ branches' = FindBranch(ResponseTag(t))
    BY <1>2, <1>10
  <2> DEFINE rt == ResponseTag(t)
  <2>8. rt \in Trn /\ IstSend(rt, "err", ok, "queue", state, armed) /\ branches' = FindBranch(rt)
    BY <1>10, <2>1, <2>7
  <2> HIDE DEF rt
  <2> QED BY <1>6, <1>9, <2>1, <2>6, <2>7, <2>8, IstSendSafe
<1>11. CASE state[t] = QUEUED /\ ~rejected /\ IstOnRequest(t, ok)
  <2>1. counter'[t] \in 0 .. QUEUE_RETRY_MAX /\ state[t] <= 1
    BY <1>3, <1>5, <1>8, <1>11, RetryMaxIsNatural
  <2>2. "RequestThrottle" \notin armed[t] \cup queued'[t]
    BY <1>5, <1>7
  <2> QED BY <1>6, <1>7, <1>8, <1>9, <1>11, <2>1, <2>2, IstRequestSafe
<1>12. CASE /\ state[t] # QUEUED /\ Ignore(t)
            /\ Resend(t, "timer") \/ WriteNothing
  <2>1. Written
    BY <1>12, Writes
  <2>2. counter' = counter
    BY <1>1, <1>12
  <2> QED BY Zenon, <1>1, <1>6, <1>9, <1>12, <2>1, <2>2, IstIgnoreSafe
<1>13. IstCOMPLETED # QUEUED
  BY <1>2, StatesAre
<1>14. CASE state[t] = IstCOMPLETED /\ OnAck(t)
  <2>1. counter' = counter
    BY <1>1, <1>13, <1>14
  <2> QED BY Zenon, <1>1, <1>6, <1>9, <1>14, <2>1, IstAckSafe
<1> QED BY <1>10, <1>11, <1>12, <1>13, <1>14 DEF IstHandleDelayedDispatch

(* The handlers of Timers G, H, I and of the maximum lifetime.             *)
LEMMA IstHandlersSafe ==
  ASSUME IInv, isInvite, isInvite' = isInvite, NEW t \in Trn, NEW x \in Timers,
         \/ x = "G" /\ HandleRetransmitResponse(t)
         \/ x = "H" /\ HandleACKTimeout(t)
         \/ IstHandleDelayedTerminate(t, x)
  PROVE  SafeStep
<1>1. /\ x \in queued[t] /\ queued' = [queued EXCEPT ![t] = @ \ {x}]
      /\ core' = {}
      /\ UNCHANGED <<branches, stopped, toTag, reliable, counter, requests, sent2xx, received>>
  BY DEF HandleRetransmitResponse, HandleACKTimeout, IstHandleDelayedTerminate, Handler, Dequeue
<1>2. /\ isInvite \in BOOLEAN /\ queued \in [Trn -> SUBSET Timers] /\ branches \subseteq Tags
  BY DEF IInv, Types, TrnTypeOK
<1>3. /\ IstCOMPLETED = 3 /\ Completed = 3 /\ LastTimer = "H"
  BY <1>2, StatesAre
<1>4. /\ state[t] \in {0, 1, 2, 3, 4, 255} /\ state[t] \in ServerStates /\ armed[t] \in SUBSET Timers
      /\ t \notin destroyed => Timed(state[t], armed[t], queued[t])
      /\ t \in hasTerminated => state[t] = 255 /\ armed[t] = {}
      /\ t \in Set(branches)
      /\ state = [state EXCEPT ![t] = state[t]]
      /\ armed = [armed EXCEPT ![t] = armed[t]]
  BY Zenon, <1>1, Known
<1>5. Parent \in received'
  BY <1>1, WasHeard
<1>6. /\ queued' \in [Trn -> SUBSET Timers]
      /\ queued'[t] = queued[t] \ {x}
      /\ \A u \in Trn \ {t} : queued'[u] = queued[u]
  BY <1>1, <1>2
<1>7. RestOf({}) /\ {} \in SUBSET Trn
  BY <1>1, <1>6 DEF RestOf, IInv, Types, TrnTypeOK, ServerTypeOK
<1>8. branches' \subseteq Tags /\ branches \subseteq branches' /\ t \in Set(branches')
  BY <1>1, <1>2, <1>4
<1>9. ASSUME NEW K \in SUBSET Trn, NEW a \in SUBSET Timers,
             End(K, state, [armed EXCEPT ![t] = a]),
             "RequestThrottle" \in a => "RequestThrottle" \in armed[t],
             t \notin destroyed \cup K => Timed(state[t], a, queued'[t]),
             t \in hasTerminated => a = {},
             Written
      PROVE  SafeStep
  <2> DEFINE s == state[t]
  <2>1. /\ s \in ServerStates /\ s >= state[t] /\ Timed(state[t], a, queued'[t]) = Timed(s, a, queued'[t])
        /\ End(K, [state EXCEPT ![t] = s], [armed EXCEPT ![t] = a])
    BY <1>4, <1>9
  <2> HIDE DEF s
  <2> QED BY Zenon, <1>1, <1>5, <1>6, <1>7, <1>8, <1>9, <2>1, IstLaterSafe
<1>10. CASE x = "G" /\ HandleRetransmitResponse(t)
  <2>1. t \notin destroyed => Timed(state[t], armed[t], queued'[t])
    BY <1>3, <1>4, <1>6, <1>10 DEF Timed
  <2>2. Written
    BY <1>10, Writes DEF HandleRetransmitResponse
  <2>3. CASE state[t] = 3
    <3>1. End({}, state, [armed EXCEPT ![t] = armed[t] \cup {"G"}])
      BY <1>3, <1>10, <2>3 DEF HandleRetransmitResponse
    <3>2. t \notin destroyed => Timed(state[t], armed[t] \cup {"G"}, queued'[t])
      BY <2>1 DEF Timed
    <3>3. armed[t] \cup {"G"} \in SUBSET Timers
      BY <1>4 DEF Timers
    <3> DEFINE a == armed[t] \cup {"G"}
    <3>4. "RequestThrottle" \in a => "RequestThrottle" \in armed[t]
      OBVIOUS
    <3> HIDE DEF a
    <3> QED BY <1>4, <1>9, <2>2, <2>3, <3>1, <3>2, <3>3, <3>4 DEF a
  <2>4. CASE state[t] # 3
    <3>1. End({}, state, [armed EXCEPT ![t] = armed[t]])
      BY <1>3, <1>4, <1>10, <2>4 DEF HandleRetransmitResponse
    <3> QED BY <1>4, <1>9, <2>1, <2>2, <3>1
  <2> QED BY <2>3, <2>4
<1>11. CASE x = "H" /\ HandleACKTimeout(t)
  <2>1. End(TerminateSet(t, branches), state, [armed EXCEPT ![t] = armed[t]]) /\ WriteNothing
    BY <1>4, <1>11 DEF HandleACKTimeout
  <2>2. Written
    BY <2>1, Writes
  <2>3. TerminateSet(t, branches) \in SUBSET Trn /\ t \in TerminateSet(t, branches)
    BY <1>2, Reaches
  <2> QED BY <1>4, <1>9, <2>1, <2>2, <2>3
<1>12. CASE IstHandleDelayedTerminate(t, x)
  <2> DEFINE K == TerminateWithParent(t, [state EXCEPT ![t] = TRN_STATE_TERMINATED], branches)
  <2>1. End(K, state, [armed EXCEPT ![t] = armed[t]]) /\ WriteNothing /\ x # "H"
    BY <1>4, <1>12 DEF IstHandleDelayedTerminate
  <2>2. Written
    BY <2>1, Writes
  <2>3. K \in SUBSET Trn
    BY Zenon, <1>2, Reaches
  <2>4. t \notin destroyed => Timed(state[t], armed[t], queued'[t])
    BY <1>3, <1>4, <1>6, <2>1 DEF Timed
  <2> HIDE DEF K
  <2> QED BY <1>4, <1>9, <2>1, <2>2, <2>3, <2>4
<1> QED BY <1>10, <1>11, <1>12

(* Every step of an INVITE server transaction is safe.                     *)
LEMMA IstNextSafe ==
  ASSUME IInv, isInvite, isInvite' = isInvite, IstNext
  PROVE  SafeStep
<1>1. ASSUME NEW ok \in BOOLEAN, ReceiveInvite(ok)
      PROVE  SafeStep
  BY <1>1, IstReceiveInviteSafe
<1>2. ASSUME NEW t \in Trn, NEW ok \in BOOLEAN, ReceiveAck(t, ok)
      PROVE  SafeStep
  BY <1>2, IstReceiveAckSafe
<1>3. ASSUME NEW t \in Trn, NEW c \in Classes, NEW ok \in BOOLEAN, IstSendResponse(t, c, ok)
      PROVE  SafeStep
  BY <1>3, IstSendResponseSafe
<1>4. ASSUME NEW t \in Trn, NEW x \in Timers, IstRunHandler(t, x)
      PROVE  SafeStep
  BY <1>4, IstDelayedDispatchSafe, IstHandlersSafe DEF IstRunHandler
<1>5. ASSUME IstInvisible
      PROVE  Unseen
  BY <1>5 DEF IstInvisible, Unseen
<1>6. ASSUME NEW t \in Trn, NEW x \in Timers, IstExpire(t, x)
      PROVE  SafeStep
  <2>1. TimerExpires(t, x) /\ IstInvisible
    BY <1>6 DEF IstExpire, TimerExpires
  <2> QED BY <1>5, <2>1, UnseenIsSafe
<1>7. ASSUME NEW t \in Trn, IstDropLast(t)
      PROVE  SafeStep
  <2>1. Destroy(t) /\ IstInvisible
    BY <1>7 DEF IstDropLast, Destroy
  <2> QED BY <1>5, <2>1, UnseenIsSafe
<1>8. ASSUME IstStop
      PROVE  SafeStep
  <2>1. PoolStop /\ IstInvisible
    BY <1>8 DEF IstStop, PoolStop, TRN_STATE_TERMINATED
  <2> QED BY <1>5, <2>1, UnseenIsSafe
<1> QED BY <1>1, <1>2, <1>3, <1>4, <1>6, <1>7, <1>8 DEF IstNext

(* Every step keeps the invariant and takes no transaction back.           *)
-----------------------------------------------------------------------------
(* Nothing runs before the request has been received.                      *)
LEMMA InitIInv == Init => IInv
<1>1. SUFFICES ASSUME Init PROVE IInv
  OBVIOUS
<1>2. /\ isInvite \in BOOLEAN
      /\ branches = {} /\ state = [t \in Trn |-> 0] /\ hasTerminated = {}
      /\ armed = [t \in Trn |-> {}] /\ queued = [t \in Trn |-> {}]
      /\ inPool = TRUE /\ released = 0 /\ stopped = FALSE /\ destroyed = {}
      /\ toTag \in Trn /\ reliable \in BOOLEAN /\ counter = [t \in Trn |-> 0]
      /\ response = {} /\ requests = [t \in Trn |-> 0] /\ sent = {}
      /\ sent2xx = {} /\ received = {} /\ blocked = FALSE /\ core = {}
  BY <1>1 DEF Init, IstInit, ServerInit, TrnInit, TRN_STATE_IDLE
<1>3. ServerStates = {0, 1, 2, 3, 4, 255} /\ Completed # 0 /\ TRN_STATE_IDLE = 0 /\ QUEUED = 1
  BY <1>2, StatesAre
<1>4. Types
  <2>1. TrnTypeOK(ServerStates)
    BY Zenon, <1>2, <1>3 DEF TrnTypeOK
  <2>2. ServerTypeOK
    BY <1>2, RetryMaxIsNatural DEF ServerTypeOK
  <2> QED BY Zenon, <1>2, <2>1, <2>2 DEF Types
<1>5. Sound
  BY <1>2, <1>3, RetryMaxIsNatural DEF Sound, Fine, Throttled, Timed
<1>6. Heard
  BY <1>2 DEF Heard
<1> QED BY <1>4, <1>5, <1>6 DEF IInv

(* So every step of either kind is safe.                                   *)
LEMMA NextIsSafe ==
  ASSUME IInv, [Next]_vars
  PROVE  SafeStep
<1>1. CASE Next
  BY <1>1, IstNextSafe, NistNextSafe DEF Next
<1>2. CASE UNCHANGED vars
  <2>1. UNCHANGED <<branches, state, hasTerminated, armed, queued, inPool, released, stopped,
                    destroyed, toTag, reliable, counter, response, requests, sent, sent2xx,
                    received, blocked, core, isInvite>>
    BY <1>2 DEF vars, trnVars, serverVars, istVars
  <2>2. IInv'
    BY <2>1 DEF IInv, Types, TrnTypeOK, ServerTypeOK, ServerStates, Sound, Fine, Timed,
                Completed, LastTimer, Heard, Set
  <2>3. state \in [Trn -> ServerStates] /\ isInvite \in BOOLEAN
    BY DEF IInv, Types, TrnTypeOK
  <2>4. \A t \in Trn : state'[t] >= state[t]
    BY <2>1, <2>3, StatesAre
  <2> QED BY <2>2, <2>4 DEF SafeStep
<1> QED BY <1>1, <1>2

(* The invariant holds of every behaviour of the servers.                  *)
THEOREM Invariance == Spec => []IInv
<1>1. Init => IInv
  BY InitIInv
<1>2. IInv /\ [Next]_vars => IInv'
  BY NextIsSafe DEF SafeStep
<1> QED BY <1>1, <1>2, PTL DEF Spec

(* The types of either transaction, for any tags and any queue limit: the  *)
(* counter of the queue stays within one of the limit.                     *)
THEOREM TypeCorrect == Spec => []TypeOK
<1>1. IInv => TypeOK
  <2>1. ASSUME IInv, isInvite PROVE IstTypeOK
    BY <2>1 DEF IInv, Types, ServerStates, TrnTypeOK, ServerTypeOK, Trn, Timers, IstTypeOK
  <2>2. ASSUME IInv, ~isInvite PROVE NistTypeOK
    BY <2>2 DEF IInv, Types, ServerStates, TrnTypeOK, ServerTypeOK, Trn, Timers, NistTypeOK
  <2> QED BY <2>1, <2>2 DEF TypeOK
<1> QED BY <1>1, Invariance, PTL

(* However often a request is retransmitted, delayed by the throttle       *)
(* handler and received again by its timer, a state machine hands it to    *)
(* the TU at most once.                                                    *)
THEOREM DispatchedOnceHolds == Spec => []DispatchedOnce
<1>1. IInv => DispatchedOnce
  BY DEF IInv, Sound, Fine, Throttled, DispatchedOnce
<1> QED BY <1>1, Invariance, PTL

(* A request the queue has answered with a 503 is never handed to the TU,  *)
(* whatever the limit of the queue is.                                     *)
THEOREM RejectedIsNotDispatchedHolds == Spec => []RejectedIsNotDispatched
<1>1. IInv => RejectedIsNotDispatched
  BY DEF IInv, Sound, Fine, Throttled, RejectedIsNotDispatched
<1> QED BY <1>1, Invariance, PTL

(* An INVITE server transaction that has left the pool by terminate() has  *)
(* put its id into the blocker.                                            *)
THEOREM GoneIsBlockedHolds == Spec => []GoneIsBlocked
<1>1. IInv => GoneIsBlocked
  BY DEF IInv, Heard, GoneIsBlocked
<1> QED BY <1>1, Invariance, PTL

(* Whoever waits in COMPLETED has the timer that ends the wait, the parent *)
(* and any number of branches.                                             *)
THEOREM CompletedIsTimedHolds == Spec => []CompletedIsTimed
<1>1. ASSUME IInv PROVE CompletedIsTimed
  <2>1. branches \subseteq Tags /\ isInvite \in BOOLEAN
    BY <1>1 DEF IInv, Types, TrnTypeOK
  <2>2. \A t \in Set(branches) : t \in Trn
    BY <2>1 DEF Set, Trn
  <2>3. \A t \in Trn : t \notin destroyed => Timed(state[t], armed[t], queued[t])
    BY <1>1 DEF IInv, Sound, Fine
  <2> QED BY <2>2, <2>3 DEF CompletedIsTimed, Timed, Completed, LastTimer
<1> QED BY <1>1, Invariance, PTL

(* No response, timer or retransmission takes a server transaction back to *)
(* an earlier state.                                                       *)
THEOREM NeverGoesBackHolds == Spec => NeverGoesBack
<1>1. IInv /\ [Next]_vars => [\A t \in Trn : state'[t] >= state[t]]_trnVars
  BY NextIsSafe DEF SafeStep
<1> QED BY <1>1, Invariance, PTL DEF Spec, NeverGoesBack

-----------------------------------------------------------------------------
(* What AwaitedAckIsKept rests on besides IInv: whoever has sent a 2xx is  *)
(* over, and a parent that is over has left the pool.                      *)
Answered ==
  isInvite =>
    /\ \A t \in sent2xx : state[t] = TRN_STATE_TERMINATED
    /\ inPool => state[Parent] # TRN_STATE_TERMINATED

(* What one step adds to either.                                           *)
AnswerStep ==
  /\ \A t \in sent2xx' \ sent2xx : state'[t] = TRN_STATE_TERMINATED
  /\ inPool' => state'[Parent] # TRN_STATE_TERMINATED

(* terminate() of the parent takes it from the pool.                       *)
LEMMA PoolIsLeft ==
  ASSUME IInv, isInvite, Answered,
         NEW K, NEW st, NEW arm, End(K, st, arm),
         inPool /\ st[Parent] = TRN_STATE_TERMINATED => Parent \in K
  PROVE  inPool' => state'[Parent] # TRN_STATE_TERMINATED
<1>1. /\ state' = [t \in Trn |-> IF t \in K \ hasTerminated THEN TRN_STATE_TERMINATED ELSE st[t]]
      /\ inPool' = (inPool /\ Parent \notin K \ hasTerminated)
  BY DEF End, Terminate
<1>2. Parent \in Trn /\ (Parent \in hasTerminated => state[Parent] = TRN_STATE_TERMINATED)
  BY DEF Trn, IInv, Sound, Fine
<1>3. inPool => state[Parent] # TRN_STATE_TERMINATED
  BY Zenon DEF Answered
<1> QED BY Zenon, <1>1, <1>2, <1>3

(* A 2xx ends the state machine that sends it.                             *)
LEMMA SenderIsOver ==
  ASSUME IInv, isInvite, Answered,
         NEW t \in Trn, NEW c, NEW ok, NEW for, NEW st, NEW arm,
         IstSend(t, c, ok, for, st, arm), st \in [Trn -> ServerStates],
         c = "2xx" => st = state,
         inPool => st[Parent] # TRN_STATE_TERMINATED
  PROVE  AnswerStep
<1> DEFINE first == st[t] <= IstPROCEEDING /\ ~Lost(ok)
           error == first /\ c = "err"
           over == Lost(ok) \/ (first /\ c = "2xx")
           K == IF over THEN TerminateSet(t, branches') ELSE {}
           st2 == IF error THEN [st EXCEPT ![t] = IstCOMPLETED] ELSE st
           arm2 == IF error THEN [arm EXCEPT ![t] = @ \cup FinalTimers(reliable)] ELSE arm
<1>1. /\ End(K, st2, arm2)
      /\ sent2xx' = IF first /\ c = "2xx" THEN sent2xx \cup {t} ELSE sent2xx
  BY DEF IstSend
<1>2. /\ IstCOMPLETED = 3 /\ TRN_STATE_TERMINATED = 255 /\ IstPROCEEDING = 2 /\ Parent \in Trn
      /\ ServerStates = {0, 1, 2, 3, 4, 255}
  BY StatesAre DEF Trn
<1>3. inPool => st2[Parent] # TRN_STATE_TERMINATED
  BY <1>2
<1>4. state' = [u \in Trn |-> IF u \in K \ hasTerminated THEN TRN_STATE_TERMINATED ELSE st2[u]]
  <2> HIDE DEF K, st2, arm2
  <2>1. Terminate(K, st2, arm2)
    BY <1>1, IstEnds
  <2> QED BY <2>1 DEF Terminate
<1>5. t \in hasTerminated => state[t] = TRN_STATE_TERMINATED
  BY DEF IInv, Sound, Fine
<1>6. ASSUME first, c = "2xx" PROVE state'[t] = TRN_STATE_TERMINATED
  <2>1. t \in K
    BY <1>6 DEF TerminateSet, Set
  <2>2. t \notin hasTerminated
    BY <1>2, <1>5, <1>6
  <2> QED BY <1>4, <2>1, <2>2
<1>7. inPool' => state'[Parent] # TRN_STATE_TERMINATED
  <2> HIDE DEF K, st2, arm2
  <2> QED BY <1>1, <1>3, PoolIsLeft
<1> QED BY <1>1, <1>6, <1>7 DEF AnswerStep

(* A request in t is dispatched or delayed.                                *)
LEMMA RequestIsUnanswered ==
  ASSUME IInv, isInvite, Answered, NEW t \in Trn, NEW ok, IstOnRequest(t, ok)
  PROVE  AnswerStep
<1>1. /\ TRN_STATE_TERMINATED = 255 /\ QUEUED = 1 /\ IstPROCEEDING = 2 /\ Parent \in Trn
      /\ ServerStates = {0, 1, 2, 3, 4, 255}
      /\ state \in [Trn -> ServerStates] /\ toTag \in Trn
      /\ inPool => state[Parent] # TRN_STATE_TERMINATED
  BY StatesAre DEF Trn, IInv, Types, TrnTypeOK, ServerTypeOK, Answered
<1>2. CASE IstDispatch(t)
  <2>1. End({}, [state EXCEPT ![t] = IstPROCEEDING], IstWithLifetime(t)) /\ sent2xx' = sent2xx
    BY <1>2 DEF IstDispatch
  <2>2. inPool => [state EXCEPT ![t] = IstPROCEEDING][Parent] # TRN_STATE_TERMINATED
    BY <1>1
  <2> QED BY Zenon, <2>1, <2>2, PoolIsLeft DEF AnswerStep
<1>3. CASE IstDelay(t, ok)
  <2> DEFINE arm == [IstWithLifetime(t) EXCEPT ![t] = @ \cup {"RequestThrottle"}]
             rt == ResponseTag(t)
             st == [state EXCEPT ![t] = QUEUED]
  <2>1. CASE IstSend(rt, "1xx", ok, "queue", st, arm)
    <3>1. rt \in Trn
      BY <1>1 DEF ResponseTag
    <3>2. st \in [Trn -> ServerStates] /\ (inPool => st[Parent] # TRN_STATE_TERMINATED)
      BY <1>1
    <3> HIDE DEF arm, rt, st
    <3> QED BY <2>1, <3>1, <3>2, SenderIsOver
  <2>2. CASE End({}, state, arm) /\ sent2xx' = sent2xx
    <3> HIDE DEF arm
    <3> QED BY <1>1, <2>2, PoolIsLeft DEF AnswerStep
  <2> QED BY <1>3, <2>1, <2>2 DEF IstDelay
<1> QED BY <1>2, <1>3 DEF IstOnRequest

(* A message that changes nothing, and the ACK of an error.                *)
LEMMA AckIsNoAnswer ==
  ASSUME IInv, isInvite, Answered, NEW t \in Trn, Ignore(t) \/ OnAck(t)
  PROVE  AnswerStep
<1>1. /\ TRN_STATE_TERMINATED = 255 /\ CONFIRMED = 4 /\ Parent \in Trn
      /\ state \in [Trn -> ServerStates]
      /\ inPool => state[Parent] # TRN_STATE_TERMINATED
  BY StatesAre DEF Trn, IInv, Types, TrnTypeOK, Answered
<1>2. CASE Ignore(t)
  <2>1. End({}, state, armed) /\ sent2xx' = sent2xx
    BY <1>2 DEF Ignore
  <2> QED BY <1>1, <2>1, PoolIsLeft DEF AnswerStep
<1>3. CASE OnAck(t) /\ reliable
  <2> DEFINE K == TerminateSet(t, branches')
             st == [state EXCEPT ![t] = TRN_STATE_TERMINATED]
  <2>1. End(K, st, armed) /\ sent2xx' = sent2xx
    BY <1>3 DEF OnAck
  <2>2. inPool /\ st[Parent] = TRN_STATE_TERMINATED => Parent \in K
    BY <1>1 DEF TerminateSet, Set
  <2> HIDE DEF K, st
  <2> QED BY <2>1, <2>2, PoolIsLeft DEF AnswerStep
<1>4. CASE OnAck(t) /\ ~reliable
  <2> DEFINE st == [state EXCEPT ![t] = CONFIRMED]
             arm == [armed EXCEPT ![t] = (@ \ {"G", "H"}) \cup {"I"}]
  <2>1. End({}, st, arm) /\ sent2xx' = sent2xx
    BY <1>4 DEF OnAck
  <2>2. inPool => st[Parent] # TRN_STATE_TERMINATED
    BY <1>1
  <2> HIDE DEF arm, st
  <2> QED BY <2>1, <2>2, PoolIsLeft DEF AnswerStep
<1> QED BY <1>2, <1>3, <1>4

(* The steps of the INVITE transaction.                                    *)
LEMMA AnsweredStays ==
  ASSUME IInv, isInvite, Answered, IstNext
  PROVE  AnswerStep
<1>1. /\ TRN_STATE_TERMINATED = 255 /\ Parent \in Trn
      /\ state \in [Trn -> ServerStates] /\ toTag \in Trn /\ branches \subseteq Tags
      /\ inPool => state[Parent] # TRN_STATE_TERMINATED
  BY StatesAre DEF Trn, IInv, Types, TrnTypeOK, ServerTypeOK, Answered
<1>2. ASSUME NEW ok \in BOOLEAN, ReceiveInvite(ok) PROVE AnswerStep
  BY <1>1, <1>2, RequestIsUnanswered, AckIsNoAnswer DEF ReceiveInvite
<1>3. ASSUME NEW t \in Trn, NEW ok \in BOOLEAN, ReceiveAck(t, ok) PROVE AnswerStep
  <2>1. CASE UNCHANGED <<state, inPool, sent2xx>>
    BY <1>1, <2>1 DEF AnswerStep
  <2> QED BY Zenon, <1>3, <2>1, RequestIsUnanswered, AckIsNoAnswer DEF ReceiveAck
<1>4. ASSUME NEW t \in Trn, NEW c \in Classes, NEW ok \in BOOLEAN, IstSendResponse(t, c, ok)
      PROVE  AnswerStep
  BY <1>1, <1>4, SenderIsOver DEF IstSendResponse
<1>5. ASSUME NEW t \in Trn, NEW x \in Timers, IstExpire(t, x) \/ IstRunHandler(t, x)
      PROVE  AnswerStep
  <2>1. CASE IstExpire(t, x)
    BY <1>1, <2>1 DEF IstExpire, TimerExpires, IstInvisible, AnswerStep
  <2>2. ASSUME NEW ok \in BOOLEAN, IstHandleDelayedDispatch(t, ok) PROVE AnswerStep
    <3> DEFINE rt == ResponseTag(t)
    <3>1. CASE IstSend(rt, "err", ok, "queue", state, armed)
      <4>1. rt \in Trn
        BY <1>1 DEF ResponseTag
      <4> HIDE DEF rt
      <4> QED BY <1>1, <3>1, <4>1, SenderIsOver
    <3> QED BY Zenon, <2>2, <3>1, RequestIsUnanswered, AckIsNoAnswer DEF IstHandleDelayedDispatch
  <2>3. CASE HandleRetransmitResponse(t)
    <3>1. sent2xx' = sent2xx /\ \E arm : End({}, state, arm)
      BY <2>3 DEF HandleRetransmitResponse, Handler
    <3> QED BY <1>1, <3>1, PoolIsLeft DEF AnswerStep
  <2>4. CASE HandleACKTimeout(t) \/ IstHandleDelayedTerminate(t, x)
    <3>1. sent2xx' = sent2xx /\ \E K : End(K, state, armed)
      BY <2>4 DEF HandleACKTimeout, IstHandleDelayedTerminate, Handler
    <3> QED BY <1>1, <3>1, PoolIsLeft DEF AnswerStep
  <2> QED BY <1>5, <2>1, <2>2, <2>3, <2>4 DEF IstRunHandler
<1>6. ASSUME NEW t \in Trn, IstDropLast(t) PROVE AnswerStep
  BY <1>1, <1>6 DEF IstDropLast, Destroy, IstInvisible, AnswerStep
<1>7. CASE IstStop
  BY <1>7 DEF IstStop, PoolStop, IstInvisible, AnswerStep
<1> QED BY <1>2, <1>3, <1>4, <1>5, <1>6, <1>7 DEF IstNext

(* While the transaction is in the pool, the dispatcher does not give the  *)
(* core an ACK that a state machine waits for, for any set of To-tags.     *)
THEOREM AwaitedAckIsKeptHolds == Spec => AwaitedAckIsKept
<1>1. Init => Answered
  BY DEF Init, IstInit, ServerInit, TrnInit, Answered, TRN_STATE_IDLE, TRN_STATE_TERMINATED, Trn
<1>2. ASSUME IInv, Answered, [Next]_vars PROVE Answered'
  <2>1. \A t \in Trn : state[t] \in {0, 1, 2, 3, 4, 255} /\ state'[t] \in {0, 1, 2, 3, 4, 255}
    <3>1. /\ state \in [Trn -> ServerStates] /\ isInvite \in BOOLEAN
          /\ state' \in [Trn -> ServerStates'] /\ isInvite' \in BOOLEAN
      BY <1>2, NextIsSafe DEF SafeStep, IInv, Types, TrnTypeOK
    <3>2. ServerStates = {0, 1, 2, 3, 4, 255} /\ ServerStates' = {0, 1, 2, 3, 4, 255}
      BY <3>1 DEF ServerStates, IstStates, NistStates, TRN_STATE_IDLE, QUEUED,
                  TRN_STATE_TERMINATED, IstPROCEEDING, IstCOMPLETED, CONFIRMED, TRYING,
                  NistPROCEEDING, NistCOMPLETED
    <3> QED BY <3>1, <3>2
  <2>2. \A t \in Trn : state[t] = 255 => state'[t] = 255
    BY <1>2, <2>1, NextIsSafe DEF SafeStep
  <2>3. sent2xx \subseteq Trn
    BY <1>2 DEF IInv, Types
  <2>4. CASE isInvite /\ IstNext /\ isInvite' = isInvite
    <3>1. AnswerStep
      BY <1>2, <2>4, AnsweredStays
    <3>2. \A t \in sent2xx : state[t] = TRN_STATE_TERMINATED
      BY <1>2, <2>4 DEF Answered
    <3>3. \A t \in sent2xx' : state'[t] = TRN_STATE_TERMINATED
      BY <2>2, <2>3, <3>1, <3>2 DEF AnswerStep, TRN_STATE_TERMINATED
    <3> QED BY <3>1, <3>3 DEF Answered, AnswerStep
  <2>5. CASE UNCHANGED vars
    BY <1>2, <2>5 DEF Answered, vars, trnVars, istVars
  <2> QED BY Zenon, <1>2, <2>4, <2>5 DEF Next, Answered
<1>3. ASSUME IInv, Answered, Next, isInvite, inPool, NEW t \in core'
      PROVE  state[t] # IstCOMPLETED
  <2>1. ASSUME NEW u \in Trn, NEW ok \in BOOLEAN, ReceiveAck(u, ok)
        PROVE  state[t] # IstCOMPLETED
    <3>1. t = u /\ IsAckFor2xx(u)
      BY <1>3, <2>1 DEF ReceiveAck
    <3>2. state[u] = 255
      BY <1>3, <3>1, StatesAre DEF IsAckFor2xx, Answered
    <3> QED BY <3>1, <3>2 DEF IstCOMPLETED
  <2>2. \E u \in Trn, ok \in BOOLEAN : ReceiveAck(u, ok)
    BY Zenon, <1>3 DEF Next, IstNext, ReceiveInvite, IstSendResponse, IstExpire, IstRunHandler,
       IstHandleDelayedDispatch, HandleRetransmitResponse, HandleACKTimeout,
       IstHandleDelayedTerminate, Handler, IstDropLast, IstStop, IstInvisible
  <2> QED BY <2>1, <2>2
<1>4. IInv /\ Answered /\ [Next]_vars =>
        [isInvite /\ inPool => \A t \in core' : state[t] # IstCOMPLETED]_vars
  BY <1>3
<1> QED BY <1>1, <1>2, <1>4, Invariance, PTL DEF Spec, AwaitedAckIsKept
=============================================================================
