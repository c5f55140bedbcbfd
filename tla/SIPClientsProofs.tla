-------------------------- MODULE SIPClientsProofs --------------------------
(***************************************************************************)
(* The steps of the INVITE client transaction keep the invariant of        *)
(* SIPClientProofs and the promise to the TU, what stops retransmission    *)
(* and timeout in either kind, and the theorems about both kinds.          *)
(***************************************************************************)
EXTENDS SIPClientProofs, FiniteSetTheorems

(* SIPTransaction::sendRequest() starts the timers of a parent that had    *)
(* none.                                                                   *)
LEMMA IctSendRequestSafe ==
  ASSUME LifeCycle, NEW rel \in BOOLEAN, NEW expires \in BOOLEAN, IctSendRequest(rel, expires)
  PROVE  SafeStep
<1>1. hasTerminated = {}
  BY DEF IctSendRequest, LifeCycle, QuietBeforeStart
<1>2. ClientTypeOK'
  BY Unchanged, TellType DEF IctSendRequest, TellNothing, ClientTypeOK, Requests, Trn, Nothing
<1>3. told' = {} /\ UNCHANGED <<branches, queued, stopped>> /\ started' = TRUE
  BY DEF IctSendRequest, TellNothing
<1>4. CASE state[Parent] = TRN_STATE_IDLE
  <2> DEFINE st == [state EXCEPT ![Parent] = TRYING]
             arm == [armed EXCEPT ![Parent] = IctStartedTimers(rel, expires)]
  <2>1. Terminate({}, st, arm)
    BY <1>4 DEF IctSendRequest, Continue
  <2>2. st \in [Trn -> States] /\ arm \in [Trn -> SUBSET Timers]
    BY Zenon, Unchanged DEF States, Timers, IctStartedTimers
  <2>3. /\ \A t \in Trn : state[t] = TRN_STATE_TERMINATED => st[t] = TRN_STATE_TERMINATED
        /\ \A t \in Trn \ Set(branches') : arm[t] = {}
    BY <1>3, <1>4, Unchanged DEF Set, TRN_STATE_IDLE, TRN_STATE_TERMINATED
  <2> HIDE DEF st, arm
  <2> QED BY Zenon, <1>1, <1>2, <1>3, <2>1, <2>2, <2>3, Unchanged, TerminateStep DEF SafeStep
<1>5. CASE state[Parent] # TRN_STATE_IDLE
  <2>1. Terminate({}, state, armed)
    BY <1>5 DEF IctSendRequest, Continue
  <2> QED BY Zenon, <1>1, <1>2, <1>3, <2>1, Unchanged, TerminateStep DEF SafeStep
<1> QED BY <1>4, <1>5

(* The timers that keep running when a response is received.               *)
LEMMA RunningSubset ==
  ASSUME LifeCycle, NEW t \in Trn, NEW c
  PROVE  /\ RunningAfter(t, c) \in [Trn -> SUBSET Timers]
         /\ \A x \in Trn : RunningAfter(t, c)[x] \subseteq armed[x]
  BY Unchanged DEF RunningAfter

(* SIPIct::onReceivedMessage(), in the branch of the response or a new one.*)
LEMMA IctReceiveResponseSafe ==
  ASSUME LifeCycle, NEW t \in Trn, NEW c \in Responses, IctReceiveResponse(t, c)
  PROVE  SafeStep
<1>1. Parent \notin hasTerminated /\ ~(released > 0)
  BY DEF IctReceiveResponse, LifeCycle, ReleasedOnce
<1>2. ClientTypeOK'
  <2>1. Tell(t, "1xx") \/ Tell(t, "2xx") \/ Tell(t, "err") \/ TellNothing
    BY DEF IctReceiveResponse, IctOnProvisional, On2xx, OnError, IctOnLateResponse
  <2>2. /\ told' \subseteq Trn \X (Responses \cup {"408"})
        /\ finals' \in [Trn -> Nat]
        /\ heard' \in BOOLEAN
    BY <2>1, Unchanged, TellType DEF Responses, Final
  <2>3. sent' \subseteq Requests
    BY DEF IctReceiveResponse, IctOnProvisional, On2xx, OnError, IctOnLateResponse, Requests
  <2>4. last' \in {Nothing} \cup (Trn \X Responses)
    BY DEF IctReceiveResponse
  <2>5. UNCHANGED <<started, reliable, connStopped>>
    BY DEF IctReceiveResponse
  <2> QED BY <2>2, <2>3, <2>4, <2>5, Unchanged DEF ClientTypeOK
<1>3. /\ branches' = FindBranch(t)
      /\ UNCHANGED <<queued, stopped>>
      /\ started' = TRUE
  BY Unchanged DEF IctReceiveResponse, ClientTypeOK
<1>4. /\ t \in Set(branches')
      /\ branches \subseteq branches'
      /\ branches' \subseteq Tags
  BY <1>3, BranchFound
<1>5. \A x \in Trn \ Set(branches') : armed[x] = {}
  BY <1>4, Unchanged DEF Set
<1> DEFINE run == RunningAfter(t, c)
<1>6. /\ run \in [Trn -> SUBSET Timers]
      /\ \A x \in hasTerminated : run[x] = {}
      /\ \A x \in Trn \ Set(branches') : run[x] = {}
  BY <1>5, Unchanged, RunningSubset
<1> HIDE DEF run
<1>7. CASE c = "1xx" /\ IctOnProvisional(t)
  <2> DEFINE st == IF state[t] = PROCEEDING THEN state
                   ELSE [x \in Trn |-> IF x = t \/ (x = Parent /\ state[Parent] < PROCEEDING)
                                         THEN PROCEEDING ELSE state[x]]
  <2>1. Terminate({}, st, run)
    BY <1>7 DEF IctOnProvisional, Continue, run
  <2>2. st \in [Trn -> States]
    BY Unchanged DEF States
  <2>3. \A x \in Trn : state[x] = TRN_STATE_TERMINATED => st[x] = TRN_STATE_TERMINATED
    BY <1>7, Unchanged DEF IctOnProvisional, PROCEEDING, TRN_STATE_TERMINATED
  <2>4. \A x \in hasTerminated : st[x] = TRN_STATE_TERMINATED
    BY <2>3, Unchanged
  <2> HIDE DEF st
  <2> QED BY <1>1, <1>2, <1>3, <1>4, <1>6, <2>1, <2>2, <2>3, <2>4, Unchanged, TerminateStep
          DEF SafeStep
<1>8. CASE c = "2xx" /\ On2xx(t)
  <2> DEFINE st == [x \in Trn |-> IF x \in {t, Parent} THEN TRN_STATE_TERMINATED ELSE state[x]]
             K == TerminateWithParent(t, st, branches')
  <2>1. Terminate(K, st, run)
    BY <1>3, <1>8 DEF On2xx, run
  <2>2. /\ st \in [Trn -> States]
        /\ \A x \in Trn : state[x] = TRN_STATE_TERMINATED => st[x] = TRN_STATE_TERMINATED
    BY Unchanged DEF States
  <2>3. \A x \in hasTerminated : st[x] = TRN_STATE_TERMINATED
    BY <2>2, Unchanged
  <2>4. K \in SUBSET Set(branches') /\ (Parent \in K => branches' \subseteq K)
    BY <1>4, TerminateSets
  <2> HIDE DEF st, K
  <2> QED BY <1>1, <1>2, <1>3, <1>4, <1>6, <2>1, <2>2, <2>3, <2>4, Unchanged, TerminateStep
          DEF SafeStep
<1>9. CASE c = "err" /\ OnError(t)
  <2>0. state[t] # TRN_STATE_TERMINATED
    BY <1>9 DEF OnError, PROCEEDING, TRN_STATE_TERMINATED
  <2>1. CASE reliable
    <3> DEFINE st == [state EXCEPT ![t] = TRN_STATE_TERMINATED]
               K == TerminateWithParent(t, st, branches')
    <3>1. Terminate(K, st, run)
      BY <1>3, <1>9, <2>1 DEF OnError, run
    <3>2. /\ st \in [Trn -> States]
          /\ \A x \in Trn : state[x] = TRN_STATE_TERMINATED => st[x] = TRN_STATE_TERMINATED
      BY Unchanged DEF States
    <3>3. \A x \in hasTerminated : st[x] = TRN_STATE_TERMINATED
      BY <3>2, Unchanged
    <3>4. K \in SUBSET Set(branches') /\ (Parent \in K => branches' \subseteq K)
      BY Zenon, <1>4, TerminateSets
    <3> HIDE DEF st, K
    <3> QED BY <1>1, <1>2, <1>3, <1>4, <1>6, <3>1, <3>2, <3>3, <3>4, Unchanged, TerminateStep
            DEF SafeStep
  <2>2. CASE ~reliable
    <3> DEFINE st == [state EXCEPT ![t] = COMPLETED]
               arm == [run EXCEPT ![t] = @ \cup {"D"}]
    <3>1. Terminate({}, st, arm)
      BY <1>9, <2>2 DEF OnError, Continue, run
    <3>2. /\ st \in [Trn -> States]
          /\ \A x \in Trn : state[x] = TRN_STATE_TERMINATED => st[x] = TRN_STATE_TERMINATED
      BY <2>0, Unchanged DEF States
    <3>3. \A x \in hasTerminated : st[x] = TRN_STATE_TERMINATED
      BY <3>2, Unchanged
    <3>4. t \notin hasTerminated
      BY <2>0, Unchanged
    <3>5. /\ arm \in [Trn -> SUBSET Timers]
          /\ \A x \in hasTerminated : arm[x] = {}
          /\ \A x \in Trn \ Set(branches') : arm[x] = {}
      BY <1>4, <1>6, <3>4, Unchanged DEF Timers
    <3> HIDE DEF st, arm
    <3> QED BY <1>1, <1>2, <1>3, <1>4, <3>1, <3>2, <3>3, <3>5, Unchanged, TerminateStep
            DEF SafeStep
  <2> QED BY <2>1, <2>2
<1>10. CASE IctOnLateResponse(t)
  <2>1. Terminate({}, state, armed)
    BY <1>10 DEF IctOnLateResponse, Continue
  <2> QED BY Zenon, <1>1, <1>2, <1>3, <1>4, <1>5, <2>1, Unchanged, TerminateStep DEF SafeStep
<1> QED BY <1>7, <1>8, <1>9, <1>10 DEF IctReceiveResponse

(* The handlers of the four kinds of timers, on a transaction that exists. *)
LEMMA IctHandlerSafe ==
  ASSUME LifeCycle, NEW t \in Trn, NEW x \in Timers, IctRunHandler(t, x)
  PROVE  SafeStep
<1>1. CASE x = "A" /\ HandleRetransmitInvite(t)
  <2>1. /\ UNCHANGED <<branches, stopped, started, reliable, connStopped>>
        /\ TellNothing /\ Dequeue(t, x) /\ last' = Nothing
        /\ sent' \subseteq Requests
    BY <1>1 DEF HandleRetransmitInvite, Requests
  <2>2. ClientTypeOK' /\ told' = {}
    BY <2>1, Unchanged DEF ClientTypeOK, TellNothing
  <2>3. CASE state[t] = TRYING
    <3> DEFINE arm == [armed EXCEPT ![t] = @ \cup {"A"}]
    <3>1. Terminate({}, state, arm)
      BY <1>1, <2>3 DEF HandleRetransmitInvite, Continue
    <3>2. t \in Set(branches) /\ t \notin hasTerminated
      <4>1. t \in Set(branches)
        BY Zenon, <2>1, QueuedHandler
      <4>2. state[t] # TRN_STATE_TERMINATED
        BY <2>3 DEF TRYING, TRN_STATE_TERMINATED
      <4> QED BY <4>1, <4>2, Unchanged
    <3>3. /\ arm \in [Trn -> SUBSET Timers]
          /\ \A u \in hasTerminated : arm[u] = {}
          /\ \A u \in Trn \ Set(branches) : arm[u] = {}
      BY <3>2, Unchanged DEF Timers
    <3> HIDE DEF arm
    <3> QED BY Zenon, <2>1, <2>2, <3>1, <3>3, Unchanged, QueuedHandler, TerminateStep DEF SafeStep
  <2>4. CASE state[t] # TRYING
    <3>1. Terminate({}, state, armed)
      BY <1>1, <2>4 DEF HandleRetransmitInvite, Continue
    <3> QED BY Zenon, <2>1, <2>2, <3>1, Unchanged, QueuedHandler, TerminateStep DEF SafeStep
  <2> QED BY <2>3, <2>4
<1>2. CASE x = "B" /\ HandleInviteTimeout(t)
  <2> DEFINE K == TerminateSet(t, branches)
             arm == [armed EXCEPT ![t] = @ \ {"A", "ClientExpires"}]
  <2>1. /\ UNCHANGED <<branches, stopped, started, reliable>>
        /\ Dequeue(t, x) /\ last' = Nothing /\ sent' = {}
        /\ IF state[t] # TRN_STATE_TERMINATED THEN Tell(t, "408") ELSE TellNothing
        /\ connStopped' = (connStopped \/ reliable)
        /\ Terminate(K, state, arm)
    BY <1>2 DEF HandleInviteTimeout
  <2>2. released > 0 => told' = {}
    BY Zenon, <2>1, QueuedHandler DEF TellNothing
  <2>3. ClientTypeOK'
    <3>1. /\ told' \subseteq Trn \X (Responses \cup {"408"})
          /\ finals' \in [Trn -> Nat]
          /\ heard' \in BOOLEAN
      BY <2>1, Unchanged, TellType
    <3> QED BY <2>1, <3>1, Unchanged DEF ClientTypeOK
  <2>4. /\ arm \in [Trn -> SUBSET Timers]
        /\ \A u \in hasTerminated : arm[u] = {}
        /\ \A u \in Trn \ Set(branches) : arm[u] = {}
    BY Unchanged
  <2>5. K \in SUBSET Set(branches) /\ (Parent \in K => branches \subseteq K)
    BY Zenon, <2>1, Unchanged, QueuedHandler, TerminateSets
  <2> HIDE DEF K, arm
  <2> QED BY Zenon, <2>1, <2>2, <2>3, <2>4, <2>5, Unchanged, QueuedHandler, TerminateStep DEF SafeStep
<1>3. CASE x = "ClientExpires" /\ HandleExpiresTimeout(t)
  <2>1. /\ UNCHANGED <<branches, stopped, started, reliable, connStopped>>
        /\ TellNothing /\ Dequeue(t, x) /\ last' = Nothing /\ sent' = {"CANCEL"}
        /\ Terminate({}, state, armed)
    BY <1>3 DEF HandleExpiresTimeout, Continue
  <2>2. ClientTypeOK' /\ told' = {}
    BY <2>1, Unchanged DEF ClientTypeOK, Requests, TellNothing
  <2> QED BY Zenon, <2>1, <2>2, Unchanged, QueuedHandler, TerminateStep DEF SafeStep
<1>4. CASE IctHandleDelayedTerminate(t, x)
  BY <1>4, DelayedTerminateSafe DEF IctHandleDelayedTerminate
<1> QED BY <1>1, <1>2, <1>3, <1>4 DEF IctRunHandler

-----------------------------------------------------------------------------
(* Every step of an INVITE client transaction keeps the invariant.         *)
LEMMA IctNextSafe == LifeCycle /\ IctNext => SafeStep
  BY SendRequestNoTransportSafe, IctSendRequestSafe, IctReceiveResponseSafe, ExpireSafe,
     IctHandlerSafe, DropLastSafe, StopSafe DEF IctNext

-----------------------------------------------------------------------------
(* The promise to the TU: Timer B is the one that reports the timeout.     *)

(* sendRequest() starts Timer B in the parent.                             *)
LEMMA IctSendRequestKept ==
  ASSUME LifeCycle, SafeStep, Promise("B"), Reaped,
         NEW rel \in BOOLEAN, NEW expires \in BOOLEAN, IctSendRequest(rel, expires)
  PROVE  Kept("B")
<1>1. /\ ~started /\ started' = TRUE /\ told' = {} /\ finals' = finals
      /\ queued' = queued
  BY DEF IctSendRequest, TellNothing
<1>2. released' \in {0, 1}
  BY DEF SafeStep, LifeCycle, ReleasedOnce
<1>3. User!Start
  BY <1>1, <1>2 DEF User!Start
<1>4. \A t \in Tags : t # Parent /\ "B" \notin armed[t]
  BY ParentIsNotATag DEF Promise
<1>5. CASE state[Parent] = TRN_STATE_IDLE
  <2> DEFINE st == [state EXCEPT ![Parent] = TRYING]
             arm == [armed EXCEPT ![Parent] = IctStartedTimers(rel, expires)]
  <2>1. Terminate({}, st, arm)
    BY <1>5 DEF IctSendRequest, Continue
  <2>2. \A t \in Trn : finals'[t] > 0 => st[t] > PROCEEDING
    BY <1>1, <1>5, Unchanged DEF Promise, PROCEEDING, TRN_STATE_IDLE
  <2>3. (\A t \in Tags : "B" \notin arm[t]) /\ "MaxLifetime" \in arm[Parent]
    BY <1>4, Unchanged DEF Trn, IctStartedTimers
  <2> HIDE DEF st, arm
  <2>4. Promise("B")'
    BY <1>1, <2>1, <2>2, <2>3, PromiseKept DEF LifeCycle
  <2>5. Reaped'
    BY <1>1, <2>1, <2>3, ReapedKept
  <2> QED BY <1>3, <2>4, <2>5 DEF Kept, User!Next
<1>6. CASE state[Parent] # TRN_STATE_IDLE
  <2>1. Terminate({}, state, armed) /\ ~inPool
    BY <1>1, <1>6 DEF IctSendRequest, Continue, Reaped
  <2>2. \A t \in Trn : finals'[t] > 0 => state[t] > PROCEEDING
    BY <1>1 DEF Promise
  <2>3. Promise("B")'
    BY <1>1, <1>4, <2>1, <2>2, PromiseKept DEF LifeCycle
  <2>4. Reaped'
    BY <1>1, <2>1, ReapedKept
  <2> QED BY <1>3, <2>3, <2>4 DEF Kept, User!Next
<1> QED BY <1>5, <1>6

(* A response that reaches the TU is an answer of a transaction that has   *)
(* not answered before; any other is not seen.                             *)
LEMMA IctReceiveResponseKept ==
  ASSUME LifeCycle, SafeStep, Promise("B"), Reaped,
         NEW t \in Trn, NEW c \in Responses, IctReceiveResponse(t, c)
  PROVE  Kept("B")
<1> DEFINE run == RunningAfter(t, c)
<1>1. /\ LifeCycle' /\ started /\ started' = started /\ inPool /\ queued' = queued
      /\ started' = TRUE
  BY Unchanged DEF SafeStep, IctReceiveResponse, ClientTypeOK
<1>2. \A x \in Tags : "B" \notin armed[x] /\ "B" \notin run[x]
  BY RunningSubset DEF Promise, Trn
<1>3. "MaxLifetime" \in armed[Parent] => "MaxLifetime" \in run[Parent]
  BY DEF RunningAfter, CancelledBy, Trn
<1>4. "MaxLifetime" \in armed[Parent] \cup queued'[Parent]
  BY <1>1 DEF Reaped, AlwaysReaped
<1>5. \A u \in Trn : /\ state[u] \in Nat
                     /\ finals[u] > 0 => state[u] > PROCEEDING
  BY Unchanged DEF Promise, States, TRN_STATE_IDLE, TRYING, PROCEEDING, COMPLETED,
                   TRN_STATE_TERMINATED
<1>6. finals \in [Trn -> Nat] /\ run \in [Trn -> SUBSET Timers]
  BY Unchanged, RunningSubset DEF ClientTypeOK
<1> HIDE DEF run
<1>7. CASE IctOnLateResponse(t)
  <2>1. Terminate({}, state, armed) /\ TellNothing
    BY <1>7 DEF IctOnLateResponse, Continue
  <2>2. User!Silent
    BY <1>1, <2>1, SilentStep DEF Terminate
  <2>3. \A u \in Trn : finals'[u] > 0 => state[u] > PROCEEDING
    BY <1>5, <2>1 DEF TellNothing
  <2>4. Promise("B")'
    BY <1>1, <1>2, <2>1, <2>3, PromiseKept DEF LifeCycle
  <2>5. Reaped'
    BY <1>1, <1>4, <2>1, ReapedKept
  <2> QED BY <2>2, <2>4, <2>5 DEF Kept, User!Next
<1>8. ASSUME NEW K, NEW st, NEW arm, Terminate(K, st, arm), Tell(t, c),
             state[t] <= PROCEEDING,
             c = "1xx" => K = {},
             \A u \in Trn : finals[u] > 0 => st[u] > PROCEEDING,
             c \in Final => st[t] > PROCEEDING,
             \A u \in Tags : "B" \notin arm[u],
             "MaxLifetime" \in run[Parent] => "MaxLifetime" \in arm[Parent]
      PROVE  Kept("B")
  <2>1. c = "1xx" => released' = released
    BY <1>8 DEF Terminate
  <2>2. User!Answer(t, c)
    BY <1>1, <1>8, <2>1, AnswerStep
  <2>3. \A u \in Trn : finals'[u] > 0 => st[u] > PROCEEDING
    <3>1. CASE c \in Final
      BY <1>6, <1>8, <3>1 DEF Tell
    <3>2. CASE c \notin Final
      BY <1>8, <3>2 DEF Tell
    <3> QED BY <3>1, <3>2
  <2>4. Promise("B")'
    BY <1>1, <1>8, <2>3, PromiseKept DEF LifeCycle
  <2>5. "MaxLifetime" \in arm[Parent] \cup queued'[Parent]
    BY <1>3, <1>4, <1>8
  <2>6. Reaped'
    BY <1>1, <1>8, <2>5, ReapedKept
  <2> QED BY <2>2, <2>4, <2>6 DEF Kept, User!Next, Responses
<1>9. CASE c = "1xx" /\ IctOnProvisional(t)
  <2> DEFINE st == IF state[t] = PROCEEDING THEN state
                   ELSE [x \in Trn |-> IF x = t \/ (x = Parent /\ state[Parent] < PROCEEDING)
                                         THEN PROCEEDING ELSE state[x]]
  <2>1. Terminate({}, st, run) /\ Tell(t, c) /\ state[t] <= PROCEEDING
    BY <1>9 DEF IctOnProvisional, Continue, run
  <2>2. \A u \in Trn : finals[u] > 0 => st[u] > PROCEEDING
    BY <1>5, <2>1 DEF PROCEEDING
  <2> HIDE DEF st
  <2> QED BY <1>2, <1>8, <1>9, <2>1, <2>2 DEF Final
<1>10. CASE c = "2xx" /\ On2xx(t)
  <2> DEFINE st == [x \in Trn |-> IF x \in {t, Parent} THEN TRN_STATE_TERMINATED ELSE state[x]]
             K == TerminateWithParent(t, st, FindBranch(t))
  <2>1. Terminate(K, st, run) /\ Tell(t, c) /\ state[t] <= PROCEEDING
    BY <1>10 DEF On2xx, run
  <2>2. (\A u \in Trn : finals[u] > 0 => st[u] > PROCEEDING) /\ st[t] > PROCEEDING
    BY <1>5 DEF PROCEEDING, TRN_STATE_TERMINATED
  <2> HIDE DEF st, K
  <2> QED BY <1>2, <1>8, <1>10, <2>1, <2>2
<1>11. CASE c = "err" /\ OnError(t)
  <2>1. Tell(t, c) /\ state[t] <= PROCEEDING
    BY <1>11 DEF OnError
  <2>2. CASE reliable
    <3> DEFINE st == [state EXCEPT ![t] = TRN_STATE_TERMINATED]
               K == TerminateWithParent(t, st, FindBranch(t))
    <3>1. Terminate(K, st, run)
      BY <1>11, <2>2 DEF OnError, run
    <3>2. (\A u \in Trn : finals[u] > 0 => st[u] > PROCEEDING) /\ st[t] > PROCEEDING
      BY <1>5, Unchanged DEF PROCEEDING, TRN_STATE_TERMINATED
    <3> HIDE DEF st, K
    <3> QED BY <1>2, <1>8, <1>11, <2>1, <3>1, <3>2
  <2>3. CASE ~reliable
    <3> DEFINE st == [state EXCEPT ![t] = COMPLETED]
               arm == [run EXCEPT ![t] = @ \cup {"D"}]
    <3>1. Terminate({}, st, arm)
      BY <1>11, <2>3 DEF OnError, Continue, run
    <3>2. (\A u \in Trn : finals[u] > 0 => st[u] > PROCEEDING) /\ st[t] > PROCEEDING
      BY <1>5, Unchanged DEF PROCEEDING, COMPLETED
    <3>3. /\ \A u \in Tags : "B" \notin arm[u]
          /\ "MaxLifetime" \in run[Parent] => "MaxLifetime" \in arm[Parent]
      BY <1>2, <1>6 DEF Trn
    <3> HIDE DEF st, arm
    <3> QED BY <1>8, <1>11, <2>1, <3>1, <3>2, <3>3
  <2> QED BY <2>2, <2>3
<1> QED BY <1>7, <1>9, <1>10, <1>11 DEF IctReceiveResponse

(* Timer B runs in the parent, so that its terminate() releases the TU.    *)
LEMMA IctHandlerKept ==
  ASSUME LifeCycle, SafeStep, Promise("B"), Reaped,
         NEW t \in Trn, NEW x \in Timers, IctRunHandler(t, x)
  PROVE  Kept("B")
<1>0. \A u \in Tags : "B" \notin armed[u]
  BY DEF Promise
<1>1. CASE x = "A" /\ HandleRetransmitInvite(t)
  <2> DEFINE arm == IF state[t] = TRYING THEN [armed EXCEPT ![t] = @ \cup {"A"}] ELSE armed
  <2>1. /\ Dequeue(t, x) /\ TellNothing /\ started' = started
        /\ Terminate({}, state, arm)
    BY <1>1 DEF HandleRetransmitInvite, Continue
  <2>2. /\ \A u \in Tags : "B" \notin arm[u]
        /\ "MaxLifetime" \in armed[Parent] => "MaxLifetime" \in arm[Parent]
    BY <1>0, Unchanged DEF Trn
  <2> HIDE DEF arm
  <2> QED BY <1>1, <2>1, <2>2, QuietHandlerKept
<1>2. CASE x = "B" /\ HandleInviteTimeout(t)
  <2> DEFINE K == TerminateSet(t, branches)
             arm == [armed EXCEPT ![t] = @ \ {"A", "ClientExpires"}]
  <2>1. /\ Dequeue(t, x) /\ started' = started /\ Terminate(K, state, arm)
        /\ IF state[t] # TRN_STATE_TERMINATED THEN Tell(t, "408") ELSE TellNothing
    BY <1>2 DEF HandleInviteTimeout
  <2>2. t = Parent
    BY <1>2, <2>1 DEF Promise, Dequeue, Trn
  <2>3. Parent \in K
    BY <2>2 DEF TerminateSet, Set
  <2>4. /\ \A u \in Tags : "B" \notin arm[u]
        /\ "MaxLifetime" \in armed[Parent] => "MaxLifetime" \in arm[Parent]
    BY <1>0, Unchanged DEF Trn
  <2> HIDE DEF K, arm
  <2>5. CASE state[t] = TRN_STATE_TERMINATED
    BY <1>2, <2>1, <2>3, <2>4, <2>5, QuietHandlerKept
  <2>6. CASE state[t] # TRN_STATE_TERMINATED
    <3>1. Tell(t, "408") /\ finals' = finals
      BY <2>1, <2>6 DEF Tell, Final
    <3>2. Parent \notin hasTerminated /\ started' = TRUE
      BY Zenon, <2>1, <2>2, <2>6, Unchanged, QueuedHandler
    <3>3. User!TimeOut(t)
      BY <2>1, <2>3, <3>1, <3>2, TimeOutStep
    <3>4. \A u \in Trn : finals'[u] > 0 => state[u] > PROCEEDING
      BY <3>1 DEF Promise
    <3>5. \A u \in Trn : queued'[u] \subseteq queued[u]
      BY Zenon, <2>1, QueuedHandler
    <3>6. Promise("B")'
      BY <2>1, <2>4, <3>4, <3>5, PromiseKept DEF LifeCycle
    <3>7. Reaped'
      BY <2>1, <2>3, <3>2, ReapedKept
    <3> QED BY <3>3, <3>6, <3>7 DEF Kept, User!Next
  <2> QED BY <2>5, <2>6
<1>3. CASE x = "ClientExpires" /\ HandleExpiresTimeout(t)
  <2>1. /\ Dequeue(t, x) /\ TellNothing /\ started' = started
        /\ Terminate({}, state, armed)
    BY <1>3 DEF HandleExpiresTimeout, Continue
  <2> QED BY <1>0, <1>3, <2>1, QuietHandlerKept
<1>4. CASE IctHandleDelayedTerminate(t, x)
  BY <1>4, DelayedTerminateKept DEF IctHandleDelayedTerminate
<1> QED BY <1>1, <1>2, <1>3, <1>4 DEF IctRunHandler

(* Every step of an INVITE client transaction keeps the promise.           *)
LEMMA IctNextKept ==
  ASSUME LifeCycle, Promise("B"), Reaped, IctNext
  PROVE  Kept("B")
<1>1. CASE SendRequestNoTransport
  BY <1>1, SendRequestNoTransportKept
<1>2. ASSUME NEW rel \in BOOLEAN, NEW expires \in BOOLEAN, IctSendRequest(rel, expires)
      PROVE  Kept("B")
  BY <1>2, IctSendRequestSafe, IctSendRequestKept
<1>3. ASSUME NEW t \in Trn, NEW c \in Responses, IctReceiveResponse(t, c) PROVE Kept("B")
  BY <1>3, IctReceiveResponseSafe, IctReceiveResponseKept
<1>4. ASSUME NEW t \in Trn, NEW x \in Timers, IctRunHandler(t, x) PROVE Kept("B")
  BY <1>4, IctHandlerSafe, IctHandlerKept
<1>5. CASE Stop \/ \E t \in Trn : DropLast(t) \/ \E x \in Timers : Expire(t, x)
  <2>1. SafeStep
    BY <1>5, StopSafe, DropLastSafe, ExpireSafe
  <2> QED BY <1>5, <2>1, EnvironmentKept
<1> QED BY <1>1, <1>2, <1>3, <1>4, <1>5 DEF IctNext

-----------------------------------------------------------------------------
(* What the properties of retransmission and timeout rest on.              *)

(* A branch runs no timer but the one that ends it after its final         *)
(* response, so whoever retransmits or times out is the parent.            *)
BranchTimers == \A t \in Tags : armed[t] \cup queued[t] \subseteq {"D", "K"}

(* The parent of a request with at most one branch has taken note of the   *)
(* final response, whoever received it.  Branches are counted, so there    *)
(* have to be finitely many of them.                                       *)
Noted ==
  /\ IsFiniteSet(branches)
  /\ ~started => \A t \in Trn : finals[t] = 0
  /\ ~isInvite /\ Cardinality(branches) <= 1 /\ (\E t \in Trn : finals[t] > 0)
       => state[Parent] > PROCEEDING

(* A step that starts no timer in a branch but the one that ends it.       *)
LEMMA BranchTimersKept ==
  ASSUME BranchTimers, NEW K, NEW st, NEW arm, Terminate(K, st, arm),
         \A t \in Tags : arm[t] \subseteq armed[t] \cup {"D", "K"},
         \A t \in Trn : queued'[t] \subseteq queued[t]
  PROVE  BranchTimers'
<1>1. \A t \in Trn : armed'[t] \in {{}, arm[t]}
  BY DEF Terminate
<1>2. ASSUME NEW t \in Tags PROVE armed'[t] \cup queued'[t] \subseteq {"D", "K"}
  <2>1. armed[t] \cup queued[t] \subseteq {"D", "K"} /\ t \in Trn
    BY DEF BranchTimers, Trn
  <2> QED BY <1>1, <2>1
<1> QED BY <1>2 DEF BranchTimers

(* Timers of a branch stop or expire.                                      *)
LEMMA EnvironmentBranchTimers ==
  ASSUME LifeCycle, BranchTimers,
         Stop \/ \E t \in Trn : DropLast(t) \/ \E y \in Timers : Expire(t, y)
  PROVE  BranchTimers'
<1>1. \A t \in Trn : armed'[t] \cup queued'[t] \subseteq armed[t] \cup queued[t]
  BY Unchanged DEF Stop, PoolStop, DropLast, Destroy, Expire, TimerExpires
<1> QED BY <1>1 DEF BranchTimers, Trn

(* Only the parent retransmits, and only the parent times out.             *)
LEMMA TimerOfParent ==
  ASSUME BranchTimers, NEW t \in Trn, NEW x, Dequeue(t, x), x \notin {"D", "K"}
  PROVE  t = Parent
  BY DEF BranchTimers, Dequeue, Trn

(* The handlers of either kind start nothing but Timer D or K in a branch. *)
LEMMA IctBranchTimers ==
  ASSUME LifeCycle, BranchTimers, IctNext
  PROVE  BranchTimers'
<1>1. CASE SendRequestNoTransport
  BY <1>1, BranchTimersKept DEF SendRequestNoTransport
<1>2. ASSUME NEW rel \in BOOLEAN, NEW expires \in BOOLEAN, IctSendRequest(rel, expires)
      PROVE  BranchTimers'
  <2> DEFINE arm == [armed EXCEPT ![Parent] = IctStartedTimers(rel, expires)]
  <2>1. \A t \in Tags : arm[t] = armed[t]
    BY ParentIsNotATag, Unchanged DEF Trn
  <2>2. queued' = queued /\ \E st : Terminate({}, st, arm) \/ Terminate({}, st, armed)
    BY <1>2 DEF IctSendRequest, Continue
  <2> HIDE DEF arm
  <2> QED BY <2>1, <2>2, BranchTimersKept
<1>3. ASSUME NEW t \in Trn, NEW c \in Responses, IctReceiveResponse(t, c)
      PROVE  BranchTimers'
  <2> DEFINE arm == [RunningAfter(t, "err") EXCEPT ![t] = @ \cup {"D"}]
             Runs == {RunningAfter(t, k) : k \in Responses} \cup {arm, armed}
  <2>1. \A k \in Responses : \A u \in Trn : RunningAfter(t, k)[u] \subseteq armed[u]
    BY DEF RunningAfter
  <2>2. \A u \in Trn : arm[u] \subseteq armed[u] \cup {"D"}
    BY DEF RunningAfter
  <2>3. \A a \in Runs : \A u \in Tags : a[u] \subseteq armed[u] \cup {"D", "K"}
    BY Zenon, <2>1, <2>2 DEF Trn
  <2>4. queued' = queued
    BY <1>3 DEF IctReceiveResponse
  <2>5. \E K, st : \E a \in Runs : Terminate(K, st, a)
    BY <1>3 DEF IctReceiveResponse, IctOnProvisional, On2xx, OnError, IctOnLateResponse,
                Continue, Responses, Final
  <2> HIDE DEF Runs
  <2> QED BY <2>3, <2>4, <2>5, BranchTimersKept
<1>4. ASSUME NEW t \in Trn, NEW x \in Timers, IctRunHandler(t, x)
      PROVE  BranchTimers'
  <2> DEFINE arm(X) == [armed EXCEPT ![t] = X]
  <2>1. Dequeue(t, x) /\ \A u \in Trn : queued'[u] \subseteq queued[u]
    <3>1. Dequeue(t, x)
      BY <1>4 DEF IctRunHandler, HandleRetransmitInvite, HandleInviteTimeout,
                  HandleExpiresTimeout, IctHandleDelayedTerminate, DelayedTerminate
    <3> QED BY Zenon, <3>1, QueuedHandler
  <2>2. CASE x \in {"A", "B"}
    <3>1. t = Parent
      BY <2>1, <2>2, TimerOfParent
    <3>2. \A X : \A u \in Tags : arm(X)[u] = armed[u]
      BY <3>1, ParentIsNotATag, Unchanged DEF Trn
    <3>3. \E K, X : Terminate(K, state, arm(X)) \/ Terminate(K, state, armed)
      BY Zenon, <1>4, <2>2 DEF IctRunHandler, HandleRetransmitInvite, HandleInviteTimeout,
                        IctHandleDelayedTerminate, Continue
    <3> HIDE DEF arm
    <3> QED BY <2>1, <3>2, <3>3, BranchTimersKept
  <2>3. CASE x \notin {"A", "B"}
    <3>1. \E K : Terminate(K, state, armed)
      BY <1>4, <2>3 DEF IctRunHandler, HandleExpiresTimeout, IctHandleDelayedTerminate,
                        DelayedTerminate, Continue
    <3> QED BY <2>1, <3>1, BranchTimersKept
  <2> QED BY <2>2, <2>3
<1>5. CASE Stop \/ \E t \in Trn : DropLast(t) \/ \E x \in Timers : Expire(t, x)
  BY <1>5, EnvironmentBranchTimers
<1> QED BY <1>1, <1>2, <1>3, <1>4, <1>5 DEF IctNext

(* The same for a request that is not an INVITE.                           *)
LEMMA NictBranchTimers ==
  ASSUME LifeCycle, BranchTimers, NictNext
  PROVE  BranchTimers'
<1>1. CASE SendRequestNoTransport
  BY <1>1, BranchTimersKept DEF SendRequestNoTransport
<1>2. ASSUME NEW rel \in BOOLEAN, NictSendRequest(rel)
      PROVE  BranchTimers'
  <2> DEFINE arm == [armed EXCEPT ![Parent] = NictStartedTimers(rel)]
  <2>1. \A t \in Tags : arm[t] = armed[t]
    BY ParentIsNotATag, Unchanged DEF Trn
  <2>2. queued' = queued /\ \E K, st : Terminate(K, st, arm) \/ Terminate(K, st, armed)
    BY <1>2 DEF NictSendRequest, Continue
  <2> HIDE DEF arm
  <2> QED BY <2>1, <2>2, BranchTimersKept
<1>3. ASSUME NEW t \in Trn, NEW c \in Responses, NictReceiveResponse(t, c)
      PROVE  BranchTimers'
  <2> DEFINE run == [x \in Trn |-> IF x \in Quietened(t, c) THEN armed[x] \ {"E", "F"}
                                                            ELSE armed[x]]
             arm == [run EXCEPT ![t] = @ \cup {"K"}]
  <2>1. \A u \in Trn : run[u] \subseteq armed[u] /\ arm[u] \subseteq armed[u] \cup {"K"}
    OBVIOUS
  <2>2. /\ queued' = queued
        /\ \E K, st, a : Terminate(K, st, a) /\ a \in {run, arm, armed}
    BY <1>3 DEF NictReceiveResponse, NictOnProvisional, OnFinal, NictOnLateResponse, Continue
  <2> HIDE DEF run, arm
  <2> QED BY <2>1, <2>2, BranchTimersKept DEF Trn
<1>4. ASSUME NEW t \in Trn, NEW x \in Timers, NictRunHandler(t, x)
      PROVE  BranchTimers'
  <2> DEFINE arm == [armed EXCEPT ![t] = @ \cup {"E"}]
  <2>1. Dequeue(t, x) /\ \A u \in Trn : queued'[u] \subseteq queued[u]
    <3>1. Dequeue(t, x)
      BY <1>4 DEF NictRunHandler, HandleRetransmitRequest, HandleRequestTimeout,
                  NictHandleDelayedTerminate, DelayedTerminate
    <3> QED BY Zenon, <3>1, QueuedHandler
  <2>2. CASE x = "E"
    <3>1. t = Parent
      BY <2>1, <2>2, TimerOfParent
    <3>2. \A u \in Tags : arm[u] = armed[u]
      BY <3>1, ParentIsNotATag, Unchanged DEF Trn
    <3>3. \E a \in {arm, armed} : Terminate({}, state, a)
      BY <1>4, <2>2 DEF NictRunHandler, HandleRetransmitRequest, NictHandleDelayedTerminate,
                        Continue
    <3> HIDE DEF arm
    <3> QED BY <2>1, <3>2, <3>3, BranchTimersKept
  <2>3. CASE x # "E"
    <3>1. \E K : Terminate(K, state, armed)
      BY <1>4, <2>3 DEF NictRunHandler, HandleRequestTimeout, NictHandleDelayedTerminate,
                        DelayedTerminate, Continue
    <3> QED BY <2>1, <3>1, BranchTimersKept
  <2> QED BY <2>2, <2>3
<1>5. CASE Stop \/ \E t \in Trn : DropLast(t) \/ \E x \in Timers : Expire(t, x)
  BY <1>5, EnvironmentBranchTimers
<1> QED BY <1>1, <1>2, <1>3, <1>4, <1>5 DEF NictNext

-----------------------------------------------------------------------------
(* A step that creates no branch and reports no final response, and does   *)
(* not take the parent back.                                               *)
LEMMA NotedKept ==
  ASSUME Noted, isInvite' = isInvite, branches' = branches, finals' = finals,
         started => started',
         state[Parent] > PROCEEDING => state'[Parent] > PROCEEDING
  PROVE  Noted'
  BY DEF Noted

(* The parent after a step that leaves it in st and may terminate it.      *)
LEMMA ParentAfter ==
  ASSUME NEW K, NEW st, NEW arm, Terminate(K, st, arm)
  PROVE  st[Parent] > PROCEEDING => state'[Parent] > PROCEEDING
<1>1. state'[Parent] \in {st[Parent], TRN_STATE_TERMINATED}
  BY DEF Terminate, Trn
<1> QED BY <1>1 DEF PROCEEDING, TRN_STATE_TERMINATED

(* What happens before and after the responses of either kind.             *)
LEMMA HandlerNoted ==
  ASSUME LifeCycle, Noted, isInvite' = isInvite, branches' = branches,
         finals' = finals, started => started',
         \/ \E K, arm : Terminate(K, state, arm)
         \/ state' = state
         \/ state' = [state EXCEPT ![Parent] = TRN_STATE_TERMINATED]
  PROVE  Noted'
<1>1. Parent \in Trn /\ state \in [Trn -> States]
  BY Unchanged DEF Trn
<1>2. CASE \E K, arm : Terminate(K, state, arm)
  BY <1>2, ParentAfter, NotedKept
<1>3. CASE state' = state
  BY <1>3, NotedKept
<1>4. CASE state' = [state EXCEPT ![Parent] = TRN_STATE_TERMINATED]
  BY <1>1, <1>4, NotedKept DEF PROCEEDING, TRN_STATE_TERMINATED
<1> QED BY <1>2, <1>3, <1>4

(* The branch a response creates is one more of finitely many.             *)
LEMMA BranchesCounted ==
  ASSUME IsFiniteSet(branches), NEW t, branches' = FindBranch(t)
  PROVE  /\ IsFiniteSet(branches')
         /\ Cardinality(branches') <= 1 => Cardinality(branches) <= 1
         /\ t # Parent /\ Cardinality(branches') <= 1 => Cardinality(branches') = 1
<1>1. branches' = branches \/ branches' = branches \cup {t}
  BY DEF FindBranch
<1>2. IsFiniteSet(branches')
  BY <1>1, FS_AddElement
<1>3. branches \subseteq branches'
  BY DEF FindBranch
<1>4. /\ Cardinality(branches) \in Nat /\ Cardinality(branches') \in Nat
      /\ Cardinality(branches) <= Cardinality(branches')
  BY <1>2, <1>3, FS_Subset, FS_CardinalityType
<1>5. t # Parent => Cardinality(branches') # 0
  <2>1. t # Parent => branches' # {}
    BY DEF FindBranch
  <2> QED BY <1>2, <2>1, FS_EmptySet
<1> QED BY <1>2, <1>4, <1>5

(* An INVITE has nothing to note but that its branches are finitely many.  *)
LEMMA IctNoted ==
  ASSUME LifeCycle, Noted, isInvite, isInvite' = isInvite, IctNext
  PROVE  Noted'
<1>1. ASSUME NEW t \in Trn, NEW c \in Responses, IctReceiveResponse(t, c)
      PROVE  Noted'
  <2>1. IsFiniteSet(branches')
    BY <1>1, BranchesCounted DEF IctReceiveResponse, Noted
  <2>2. started' = TRUE
    BY <1>1, Unchanged DEF IctReceiveResponse, ClientTypeOK
  <2> QED BY <2>1, <2>2 DEF Noted
<1>2. CASE SendRequestNoTransport
  BY <1>2, HandlerNoted DEF SendRequestNoTransport, Tell, Final
<1>3. ASSUME NEW rel \in BOOLEAN, NEW expires \in BOOLEAN, IctSendRequest(rel, expires)
      PROVE  Noted'
  BY <1>3 DEF IctSendRequest, Noted
<1>4. ASSUME NEW t \in Trn, NEW x \in Timers, IctRunHandler(t, x)
      PROVE  Noted'
  <2>1. /\ branches' = branches /\ finals' = finals /\ started' = started
        /\ \E K, arm : Terminate(K, state, arm)
    BY <1>4 DEF IctRunHandler, HandleRetransmitInvite, HandleInviteTimeout, HandleExpiresTimeout,
                IctHandleDelayedTerminate, DelayedTerminate, Continue, Invisible, Tell,
                TellNothing, Final
  <2> QED BY <2>1, HandlerNoted
<1>5. CASE Stop \/ \E t \in Trn : DropLast(t) \/ \E x \in Timers : Expire(t, x)
  BY <1>5, HandlerNoted DEF Stop, PoolStop, DropLast, Destroy, Expire, TimerExpires, Invisible,
                            TellNothing
<1> QED BY <1>1, <1>2, <1>3, <1>4, <1>5 DEF IctNext

(* The only branch completes the parent with its final response, and the   *)
(* parent does not go back to PROCEEDING.                                  *)
LEMMA NictResponseNoted ==
  ASSUME LifeCycle, Noted, ~isInvite, isInvite' = isInvite,
         NEW t \in Trn, NEW c \in Responses, NictReceiveResponse(t, c)
  PROVE  Noted'
<1>1. branches' = FindBranch(t) /\ started' = TRUE
  BY Unchanged DEF NictReceiveResponse, ClientTypeOK
<1>2. /\ IsFiniteSet(branches')
      /\ Cardinality(branches') <= 1 => Cardinality(branches) <= 1
      /\ t # Parent /\ Cardinality(branches') <= 1 => Cardinality(FindBranch(t)) = 1
  BY Zenon, <1>1, BranchesCounted DEF Noted
<1>3. SUFFICES ASSUME Cardinality(branches') <= 1, NEW u \in Trn, finals'[u] > 0
               PROVE  state'[Parent] > PROCEEDING
  BY <1>1, <1>2 DEF Noted
<1>4. finals' = finals => state[Parent] > PROCEEDING
  BY <1>2, <1>3 DEF Noted
<1>5. Parent \in Trn
  BY DEF Trn
<1>6. CASE c = "1xx" /\ NictOnProvisional(t)
  <2> DEFINE st == [x \in Trn |-> IF x = t \/ (x = Parent /\ state[Parent] < PROCEEDING)
                                    THEN PROCEEDING ELSE state[x]]
  <2>1. Terminate({}, st, armed) /\ finals' = finals /\ state[t] <= PROCEEDING
    BY <1>6 DEF NictOnProvisional, Continue, Tell, Final
  <2>2. state[Parent] \in Nat
    BY <1>5, Unchanged DEF States, TRN_STATE_IDLE, TRYING, PROCEEDING, COMPLETED,
                           TRN_STATE_TERMINATED
  <2>3. st[Parent] > PROCEEDING
    BY <1>4, <1>5, <2>1, <2>2 DEF PROCEEDING
  <2> HIDE DEF st
  <2> QED BY <2>1, <2>3, ParentAfter
<1>7. CASE OnFinal(t, c)
  <2> DEFINE st == [x \in Trn |-> IF x = t \/ (x = Parent /\ CompletesParent(t, c))
                                    THEN COMPLETED ELSE state[x]]
  <2>1. \E K, arm : Terminate(K, st, arm)
    BY Zenon, <1>7 DEF OnFinal, Continue
  <2>2. t = Parent \/ CompletesParent(t, c)
    BY <1>2, <1>3 DEF CompletesParent
  <2>3. st[Parent] > PROCEEDING
    BY <1>5, <2>2 DEF COMPLETED, PROCEEDING
  <2> HIDE DEF st
  <2> QED BY <2>1, <2>3, ParentAfter
<1>8. CASE NictOnLateResponse(t)
  BY <1>4, <1>8, ParentAfter DEF NictOnLateResponse, Continue, TellNothing
<1> QED BY <1>6, <1>7, <1>8 DEF NictReceiveResponse

(* Every step of a non-INVITE client transaction keeps note of the         *)
(* response.                                                               *)
LEMMA NictNoted ==
  ASSUME LifeCycle, Noted, ~isInvite, isInvite' = isInvite, NictNext
  PROVE  Noted'
<1>1. ASSUME NEW t \in Trn, NEW c \in Responses, NictReceiveResponse(t, c)
      PROVE  Noted'
  BY <1>1, NictResponseNoted
<1>2. CASE SendRequestNoTransport
  BY <1>2, HandlerNoted DEF SendRequestNoTransport, Tell, Final
<1>3. ASSUME NEW rel \in BOOLEAN, NictSendRequest(rel)
      PROVE  Noted'
  BY <1>3, Unchanged DEF NictSendRequest, Noted, TellNothing, ClientTypeOK
<1>4. ASSUME NEW t \in Trn, NEW x \in Timers, NictRunHandler(t, x)
      PROVE  Noted'
  <2>1. /\ branches' = branches /\ finals' = finals /\ started' = started
        /\ \E K, arm : Terminate(K, state, arm)
    BY <1>4 DEF NictRunHandler, HandleRetransmitRequest, HandleRequestTimeout,
                NictHandleDelayedTerminate, DelayedTerminate, Continue, Invisible, Tell,
                TellNothing, Final
  <2> QED BY <2>1, HandlerNoted
<1>5. CASE Stop \/ \E t \in Trn : DropLast(t) \/ \E x \in Timers : Expire(t, x)
  BY <1>5, HandlerNoted DEF Stop, PoolStop, DropLast, Destroy, Expire, TimerExpires, Invisible,
                            TellNothing
<1> QED BY <1>1, <1>2, <1>3, <1>4, <1>5 DEF NictNext

-----------------------------------------------------------------------------
(* A parent that has taken note of a response retransmits nothing.         *)
LEMMA IctNoResend ==
  ASSUME BranchTimers, IctNext, started, state[Parent] > TRYING
  PROVE  sent' \cap {"INVITE", "request"} = {}
<1>1. CASE SendRequestNoTransport \/ \E rel, expires \in BOOLEAN : IctSendRequest(rel, expires)
  BY <1>1 DEF SendRequestNoTransport, IctSendRequest
<1>2. ASSUME NEW t \in Trn, NEW c \in Responses, IctReceiveResponse(t, c)
      PROVE  sent' \subseteq {"ACK"}
  BY <1>2 DEF IctReceiveResponse, IctOnProvisional, On2xx, OnError, IctOnLateResponse
<1>3. ASSUME NEW t \in Trn, NEW x \in Timers, IctRunHandler(t, x)
      PROVE  sent' \subseteq {"CANCEL"}
  <2>1. CASE x = "A" /\ HandleRetransmitInvite(t)
    <3>1. t = Parent
      BY <2>1, TimerOfParent DEF HandleRetransmitInvite
    <3> QED BY <2>1, <3>1 DEF HandleRetransmitInvite, TRYING
  <2>2. CASE x # "A"
    BY Zenon, <1>3, <2>2 DEF IctRunHandler, HandleInviteTimeout, HandleExpiresTimeout,
                      IctHandleDelayedTerminate, DelayedTerminate, Invisible
  <2> QED BY <1>3, <2>1, <2>2 DEF IctRunHandler, IctHandleDelayedTerminate
<1>4. CASE Stop \/ \E t \in Trn : DropLast(t) \/ \E x \in Timers : Expire(t, x)
  BY Zenon, <1>4 DEF Stop, DropLast, Expire, Invisible
<1> QED BY <1>1, <1>2, <1>3, <1>4 DEF IctNext

(* The same for Timer E, once the response was a final one.                *)
LEMMA NictNoResend ==
  ASSUME LifeCycle, BranchTimers, NictNext, started, state[Parent] > PROCEEDING
  PROVE  sent' = {}
<1>1. CASE SendRequestNoTransport \/ \E rel \in BOOLEAN : NictSendRequest(rel)
  BY <1>1 DEF SendRequestNoTransport, NictSendRequest
<1>2. ASSUME NEW t \in Trn, NEW c \in Responses, NictReceiveResponse(t, c)
      PROVE  sent' = {}
  BY <1>2 DEF NictReceiveResponse
<1>3. ASSUME NEW t \in Trn, NEW x \in Timers, NictRunHandler(t, x)
      PROVE  sent' = {}
  <2>1. CASE x = "E" /\ HandleRetransmitRequest(t)
    <3>1. t = Parent
      BY <2>1, TimerOfParent DEF HandleRetransmitRequest
    <3>2. state[t] \in Nat
      BY Unchanged DEF States, TRN_STATE_IDLE, TRYING, PROCEEDING, COMPLETED,
                       TRN_STATE_TERMINATED
    <3>3. ~(state[t] <= PROCEEDING)
      BY <3>1, <3>2 DEF PROCEEDING
    <3> QED BY <2>1, <3>3 DEF HandleRetransmitRequest
  <2>2. CASE x # "E"
    BY Zenon, <1>3, <2>2 DEF NictRunHandler, HandleRequestTimeout, NictHandleDelayedTerminate,
                      DelayedTerminate, Invisible
  <2> QED BY <1>3, <2>1, <2>2 DEF NictRunHandler, NictHandleDelayedTerminate
<1>4. CASE Stop \/ \E t \in Trn : DropLast(t) \/ \E x \in Timers : Expire(t, x)
  BY Zenon, <1>4 DEF Stop, DropLast, Expire, Invisible
<1> QED BY <1>1, <1>2, <1>3, <1>4 DEF NictNext

(* A parent that has taken note of a final response does not time out.     *)
LEMMA NictNoTimeout ==
  ASSUME LifeCycle, BranchTimers, Noted, ~isInvite, NictNext,
         Cardinality(branches') <= 1, NEW u \in Trn, finals[u] > 0
  PROVE  \A t \in Trn : <<t, "408">> \notin told'
<1>1. CASE SendRequestNoTransport \/ \E rel \in BOOLEAN : NictSendRequest(rel)
  <2>1. ~started
    BY Zenon, <1>1 DEF SendRequestNoTransport, NictSendRequest
  <2>2. finals[u] = 0
    BY <2>1 DEF Noted
  <2> QED BY <2>2
<1>2. ASSUME NEW t \in Trn, NEW c \in Responses, NictReceiveResponse(t, c)
      PROVE  told' \subseteq {<<t, c>>} /\ c # "408"
  BY <1>2 DEF NictReceiveResponse, NictOnProvisional, OnFinal, NictOnLateResponse, Tell,
              TellNothing, Responses, Final
<1>3. ASSUME NEW t \in Trn, NEW x \in Timers, NictRunHandler(t, x)
      PROVE  told' = {}
  <2>1. CASE x = "F" /\ HandleRequestTimeout(t)
    <3>1. t = Parent
      BY <2>1, TimerOfParent DEF HandleRequestTimeout
    <3>2. branches' = branches
      BY <2>1 DEF HandleRequestTimeout
    <3>3. state[Parent] > PROCEEDING /\ Parent \in Trn
      BY <3>2 DEF Noted, Trn
    <3>4. state[Parent] \in {COMPLETED, TRN_STATE_TERMINATED}
      BY <3>3, Unchanged DEF States, TRN_STATE_IDLE, TRYING, PROCEEDING, COMPLETED,
                             TRN_STATE_TERMINATED
    <3> QED BY Zenon, <2>1, <3>1, <3>4 DEF HandleRequestTimeout, TellNothing
  <2>2. CASE x # "F"
    BY <1>3, <2>2 DEF NictRunHandler, HandleRetransmitRequest, NictHandleDelayedTerminate,
                      DelayedTerminate, Invisible, TellNothing
  <2> QED BY Zenon, <1>3, <2>1, <2>2 DEF NictRunHandler, NictHandleDelayedTerminate
<1>4. CASE Stop \/ \E t \in Trn : DropLast(t) \/ \E x \in Timers : Expire(t, x)
  BY <1>4 DEF Stop, DropLast, Expire, Invisible, TellNothing
<1> QED BY Zenon, <1>1, <1>2, <1>3, <1>4 DEF NictNext

-----------------------------------------------------------------------------
(* The inductive invariant of the client transactions of either kind.      *)
ClientInv ==
  /\ isInvite \in BOOLEAN
  /\ LifeCycle
  /\ PooledIsLive
  /\ (isInvite => Promise("B")) /\ (~isInvite => Promise("F"))
  /\ Reaped
  /\ BranchTimers
  /\ Noted

(* The invariant holds before sendRequest().                               *)
LEMMA InitClientInv == Init => ClientInv /\ User!Init
<1> SUFFICES ASSUME Init PROVE ClientInv /\ User!Init
  OBVIOUS
<1>1. ClientInit /\ isInvite \in BOOLEAN
  BY DEF Init
<1>2. LifeCycle /\ (\A x : Promise(x)) /\ Reaped /\ User!Init
  BY <1>1, InitLifeCycle, InitPromise
<1>3. PooledIsLive /\ BranchTimers
  BY <1>1 DEF ClientInit, TrnInit, PooledIsLive, BranchTimers, Trn, TRN_STATE_IDLE,
              TRN_STATE_TERMINATED
<1>4. Noted
  BY <1>1, FS_EmptySet DEF ClientInit, TrnInit, Noted
<1> QED BY <1>1, <1>2, <1>3, <1>4 DEF ClientInv

(* Every step of either kind keeps the invariant, and is a step of what    *)
(* SIPClientUser promises.                                                 *)
LEMMA ClientStep ==
  ASSUME ClientInv, Next
  PROVE  ClientInv' /\ SafeStep /\ User!Next
<1>1. isInvite' = isInvite /\ isInvite \in BOOLEAN
  BY DEF Next, ClientInv
<1>2. CASE isInvite
  <2>1. IctNext
    BY <1>2 DEF Next
  <2>2. LifeCycle /\ Promise("B") /\ Reaped /\ BranchTimers /\ Noted
    BY <1>2 DEF ClientInv
  <2>3. SafeStep /\ Kept("B") /\ BranchTimers' /\ Noted'
    BY Zenon, <1>1, <1>2, <2>1, <2>2, IctNextSafe, IctNextKept, IctBranchTimers, IctNoted
  <2>4. PooledIsLive'
    BY <1>1, <1>2 DEF PooledIsLive
  <2> QED BY <1>1, <1>2, <2>3, <2>4 DEF ClientInv, SafeStep, Kept
<1>3. CASE ~isInvite
  <2>1. NictNext
    BY <1>3 DEF Next
  <2>2. NictLifeCycle /\ LifeCycle /\ Promise("F") /\ Reaped /\ BranchTimers /\ Noted
    BY <1>3 DEF ClientInv, PooledIsLive, NictLifeCycle, Live
  <2>3. SafeStep /\ Kept("F") /\ BranchTimers' /\ Noted' /\ Live'
    BY Zenon, <1>1, <1>3, <2>1, <2>2, NictNextSafe, NictNextKept, PooledIsLiveStep, NictBranchTimers,
       NictNoted
  <2>4. PooledIsLive'
    BY <2>3 DEF PooledIsLive, Live
  <2> QED BY <1>1, <1>3, <2>3, <2>4 DEF ClientInv, SafeStep, Kept
<1> QED BY <1>2, <1>3

(* The invariant is about the variables of the model only.                 *)
LEMMA ClientStutter == ClientInv /\ UNCHANGED <<vars, isInvite>> => ClientInv'
<1> SUFFICES ASSUME ClientInv, UNCHANGED <<vars, isInvite>> PROVE ClientInv'
  OBVIOUS
<1>1. LifeCycle'
  BY LifeCycleStutter DEF ClientInv
<1>2. UNCHANGED <<trnVars, clientVars, isInvite>>
  BY DEF vars
<1>3. PooledIsLive' /\ BranchTimers' /\ Noted'
  BY <1>2 DEF ClientInv, trnVars, clientVars, PooledIsLive, BranchTimers, Noted
<1>4. (isInvite => Promise("B"))' /\ (~isInvite => Promise("F"))' /\ Reaped'
  BY <1>2 DEF ClientInv, trnVars, clientVars, Promise, Reaped, AlwaysReaped
<1> QED BY <1>1, <1>2, <1>3, <1>4 DEF ClientInv

(* The invariant holds of every behaviour of a client transaction of       *)
(* either kind, for any set of To-tags.                                    *)
THEOREM Invariance == Spec => []ClientInv
<1>1. ClientInv /\ [Next]_<<vars, isInvite>> => ClientInv'
  BY ClientStep, ClientStutter
<1> QED BY InitClientInv, <1>1, PTL DEF Spec

(* Type correctness: every variable of the model keeps its type.           *)
THEOREM TypeCorrect == Spec => []TypeOK
<1>1. ClientInv => TypeOK
  BY DEF ClientInv, LifeCycle
<1> QED BY Invariance, <1>1, PTL

(* terminate() releases the TU exactly once, and then the pool no longer   *)
(* has the transaction.                                                    *)
THEOREM ReleasedOnceHolds == Spec => []ReleasedOnce
<1>1. ClientInv => ReleasedOnce
  BY DEF ClientInv, LifeCycle
<1> QED BY Invariance, <1>1, PTL

(* terminate() of the parent leaves no branch and no timer behind.         *)
THEOREM NothingOutlivesParentHolds == Spec => []NothingOutlivesParent
<1>1. ClientInv => NothingOutlivesParent
  BY DEF ClientInv, LifeCycle
<1> QED BY Invariance, <1>1, PTL

(* While a request is in the pool, the timer of its maximum lifetime runs  *)
(* or its handler is queued, for any number of branches.                   *)
THEOREM AlwaysReapedHolds == Spec => []AlwaysReaped
<1>1. ClientInv => AlwaysReaped
  BY DEF ClientInv, Reaped
<1> QED BY Invariance, <1>1, PTL

(* Every request other than an INVITE that the pool finds is live, so the  *)
(* setState() calls on the parent in SIPNict::onReceivedMessage() never    *)
(* throw.                                                                  *)
THEOREM PooledIsLiveHolds == Spec => []PooledIsLive
<1>1. ClientInv => PooledIsLive
  BY DEF ClientInv
<1> QED BY Invariance, <1>1, PTL

(* After _terminateCallback the response callback is never called, also    *)
(* not by a Timer B or F handler that was queued before.                   *)
THEOREM SilentAfterReleaseHolds == Spec => SilentAfterRelease
<1>1. ClientInv /\ [Next]_<<vars, isInvite>> => [released > 0 => told' = {}]_vars
  BY ClientStep DEF SafeStep
<1> QED BY Invariance, <1>1, PTL DEF Spec, SilentAfterRelease

(* TERMINATED is never left, as setState() promises.                       *)
THEOREM TerminatedIsFinalHolds == Spec => TerminatedIsFinal
<1>1. ClientInv /\ [Next]_<<vars, isInvite>>
        => [\A t \in Trn : state[t] = TRN_STATE_TERMINATED
                            => state'[t] = TRN_STATE_TERMINATED]_trnVars
  BY ClientStep DEF SafeStep, vars
<1> QED BY Invariance, <1>1, PTL DEF Spec, TerminatedIsFinal

(* While at most one branch has answered, the state test in                *)
(* SIPNict::handleRequestTimeout() keeps a 408 from following a final      *)
(* response, also when its handler was queued.                             *)
THEOREM NoTimeoutAfterFinalHolds == Spec => NoTimeoutAfterFinal
<1>1. ClientInv /\ [Next]_<<vars, isInvite>>
        => [/\ ~isInvite
            /\ Cardinality(branches') <= 1
            /\ \E t \in Trn : finals[t] > 0
            => \A t \in Trn : <<t, "408">> \notin told']_vars
  BY NictNoTimeout DEF ClientInv, Next
<1> QED BY Invariance, <1>1, PTL DEF Spec, NoTimeoutAfterFinal

(* A response the parent has taken note of stops the retransmission of the *)
(* request, also when the handler of Timer A or E was queued.              *)
THEOREM NoResendAfterResponseHolds == Spec => NoResendAfterResponse
<1>1. ClientInv /\ [Next]_<<vars, isInvite>>
        => [started /\ state[Parent] > (IF isInvite THEN TRYING ELSE PROCEEDING)
            => sent' \cap {"INVITE", "request"} = {}]_vars
  BY IctNoResend, NictNoResend DEF ClientInv, Next
<1> QED BY Invariance, <1>1, PTL DEF Spec, NoResendAfterResponse

(* The client transaction of either kind implements what SIPClientUser     *)
(* promises the B2B transaction that uses it, for any number of branches.  *)
THEOREM KeepsUserPromiseHolds == Spec => KeepsUserPromise
<1>1. ClientInv /\ [Next]_<<vars, isInvite>> => [User!Next]_(User!userVars)
  <2>1. ClientInv /\ Next => User!Next
    BY ClientStep
  <2>2. UNCHANGED vars => UNCHANGED User!userVars
    BY DEF vars, trnVars, clientVars, User!userVars
  <2> QED BY <2>1, <2>2
<1> QED BY InitClientInv, Invariance, <1>1, PTL DEF Spec, KeepsUserPromise, User!Spec
=============================================================================
