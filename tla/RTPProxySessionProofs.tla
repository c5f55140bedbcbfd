----------------------- MODULE RTPProxySessionProofs -----------------------
(***************************************************************************)
(* One RTPProxySession keeps the promise its manager relies on, for any    *)
(* media, speakers and request types; and, as long as nothing is spoilt    *)
(* and no PRACK is passed, its relays join the parties of the last offer   *)
(* and its answer, and an offer that was passed on can be answered.        *)
(***************************************************************************)
EXTENDS RTPProxySession, TLAPS

Fields == {"state", "leg", "expecting", "offered", "negotiated", "relay", "dest",
           "lastOffer", "lastAck", "ends"}

(* What a handler leaves of session s: its state, the fields it has, and a *)
(* state file that holds that state, if any was written; none is by a      *)
(* handler that throws.                                                    *)
Leaves(s, o) ==
  /\ DOMAIN o = {"s", "out", "saved"}
  /\ o.out = "refused" => o.saved = {}
  /\ o.s.state = s.state
  /\ DOMAIN o.s = DOMAIN s
  /\ o.saved \in {{}, {s.state}}

(* Stopping relays leaves the state of the session alone.                  *)
LEMMA StopLeaves ==
  ASSUME NEW s, Fields \subseteq DOMAIN s, NEW ms
  PROVE  Stop(s, ms).state = s.state /\ DOMAIN Stop(s, ms) = DOMAIN s
  BY DEF Stop, Fields

(* The four ways in which a handler returns leave the state alone.         *)
LEMMA OutcomeLeaves ==
  ASSUME NEW s, Fields \subseteq DOMAIN s
  PROVE  /\ Leaves(s, Refused(s)) /\ Refused(s).saved = {}
         /\ Leaves(s, Rewritten(s)) /\ Rewritten(s).saved = {}
         /\ Leaves(s, Dumped(s)) /\ Leaves(s, Ignored(s)) /\ Ignored(s).saved = {}
  BY DEF Leaves, Refused, Rewritten, Dumped, Ignored, Outcome

(* handleInitialSDPOffer() leaves the state alone and saves nothing.       *)
LEMMA InitialOfferLeaves ==
  ASSUME NEW s, Fields \subseteq DOMAIN s, NEW sdp, NEW created, NEW opened
  PROVE  /\ Leaves(s, InitialSDPOffer(s, sdp, created, opened))
         /\ InitialSDPOffer(s, sdp, created, opened).saved = {}
<1> DEFINE cleared == [s EXCEPT !.offered = {}, !.leg = <<NoLeg, NoLeg>>,
                                !.lastOffer = 0, !.expecting = TRUE]
           done == opened \cap Reached(sdp)
           closed == Stop(cleared, created \cap Reached(sdp))
           next == [SetDest(closed, done, 1, [m \in Media |-> OfferAddress(sdp, m)]) EXCEPT
                      !.leg[1] = [id |-> sdp.id, origin |-> sdp.who],
                      !.relay = [m \in Media |->
                                   IF m \in done THEN "open" ELSE @[m]],
                      !.offered = done]
           last == [next EXCEPT !.ends = <<sdp.who, Nowhere>>]
<1>1. cleared.state = s.state /\ DOMAIN cleared = DOMAIN s
  BY DEF Fields
<1>2. closed.state = s.state /\ DOMAIN closed = DOMAIN s
  BY Zenon, <1>1, StopLeaves
<1>3. next.state = s.state /\ DOMAIN next = DOMAIN s
  BY <1>2 DEF Fields, SetDest
<1>4. last.state = s.state /\ DOMAIN last = DOMAIN s
  BY <1>3 DEF Fields
<1>5. InitialSDPOffer(s, sdp, created, opened)
        \in {Refused(cleared), Refused(next), Rewritten(last)}
  BY DEF InitialSDPOffer
<1> HIDE DEF cleared, next, last
<1> QED BY <1>1, <1>3, <1>4, <1>5, OutcomeLeaves DEF Leaves

(* handleSDPOffer() leaves the state alone and saves nothing.              *)
LEMMA OfferLeaves ==
  ASSUME NEW s, Fields \subseteq DOMAIN s, NEW sdp, NEW created, NEW opened
  PROVE  /\ Leaves(s, SDPOffer(s, sdp, created, opened))
         /\ SDPOffer(s, sdp, created, opened).saved = {}
<1> DEFINE leg == IF s.leg[1] = NoLeg /\ s.leg[2] = NoLeg THEN 0 ELSE LegOf(s, sdp)
           reached == Reached(sdp)
           gone == (s.negotiated \ sdp.media) \cap reached
           kept == sdp.media \cap reached
           stopped == Stop(s, Media)
           next == [SetDest(Stop(s, gone), kept \ sdp.held, leg,
                            [m \in Media |-> sdp.who]) EXCEPT
                      !.lastOffer = leg, !.negotiated = @ \ gone,
                      !.offered = (@ \ gone) \cup kept]
           last == [next EXCEPT !.ends = <<sdp.who, Nowhere>>]
           again == InitialSDPOffer(stopped, sdp, created, opened)
<1>1. stopped.state = s.state /\ DOMAIN stopped = DOMAIN s
  BY StopLeaves
<1>2. next.state = s.state /\ DOMAIN next = DOMAIN s
  BY StopLeaves DEF Fields, SetDest
<1>3. last.state = s.state /\ DOMAIN last = DOMAIN s
  BY <1>2 DEF Fields
<1>4. SDPOffer(s, sdp, created, opened) \in {Refused(s), again, Refused(next), Rewritten(last)}
  BY DEF SDPOffer
<1> HIDE DEF stopped, next, last
<1>5. Leaves(s, again) /\ again.saved = {}
  BY <1>1, InitialOfferLeaves DEF Leaves
<1> HIDE DEF again
<1> QED BY <1>2, <1>3, <1>4, <1>5, OutcomeLeaves DEF Leaves

(* handleInitialSDPAnswer() leaves the state alone.                        *)
LEMMA InitialAnswerLeaves ==
  ASSUME NEW s, Fields \subseteq DOMAIN s, NEW sdp
  PROVE  Leaves(s, InitialSDPAnswer(s, sdp))
<1> DEFINE given == [s EXCEPT !.expecting = FALSE]
           dead == {m \in s.offered \cap sdp.media : s.relay[m] = "closed"}
           reached == {m \in Media : \A d \in dead : Rank[m] <= Rank[d]}
           kept == s.offered \cap sdp.media \cap reached
           gone == (s.offered \ sdp.media) \cap reached
           next == [SetDest(Stop(given, gone), kept, 2,
                            [m \in Media |-> AnswerAddress(sdp, m)]) EXCEPT
                      !.leg[2] = [id |-> sdp.id, origin |-> sdp.who],
                      !.negotiated = (@ \ gone) \cup kept,
                      !.relay = [m \in Media |-> IF m \in kept \ dead
                                                 THEN "started" ELSE @[m]]]
           last == [next EXCEPT !.ends[2] = sdp.who]
<1>1. given.state = s.state /\ DOMAIN given = DOMAIN s
  BY DEF Fields
<1>2. Stop(given, gone).state = s.state /\ DOMAIN Stop(given, gone) = DOMAIN s
  BY Zenon, <1>1, StopLeaves
<1>3. next.state = s.state /\ DOMAIN next = DOMAIN s
  BY <1>2 DEF Fields, SetDest
<1>4. last.state = s.state /\ DOMAIN last = DOMAIN s
  BY <1>3 DEF Fields
<1>5. InitialSDPAnswer(s, sdp) \in {Refused(given), Refused(next), Dumped(last)}
  BY DEF InitialSDPAnswer
<1> HIDE DEF given, next, last
<1> QED BY <1>1, <1>3, <1>4, <1>5, OutcomeLeaves DEF Leaves

(* handleSDPAnswer() leaves the state alone.                               *)
LEMMA AnswerLeaves ==
  ASSUME NEW s, Fields \subseteq DOMAIN s, NEW sdp
  PROVE  Leaves(s, SDPAnswer(s, sdp))
<1> DEFINE known == LegOf(s, sdp)
           leg == IF known # 0 THEN known ELSE 3 - s.lastOffer
           gone == s.offered \ sdp.media
           kept == s.offered \cap sdp.media
           next == [SetDest(Stop(s, gone), kept, leg,
                            [m \in Media |-> AnswerAddress(sdp, m)]) EXCEPT
                      !.leg[leg] = IF known # 0 THEN @
                                   ELSE [id |-> sdp.id, origin |-> sdp.who],
                      !.lastOffer = 0,
                      !.negotiated = (@ \ gone) \cup kept]
           last == [next EXCEPT !.ends[2] = sdp.who]
<1>1. Stop(s, gone).state = s.state /\ DOMAIN Stop(s, gone) = DOMAIN s
  BY StopLeaves
<1>2. next.state = s.state /\ DOMAIN next = DOMAIN s
  BY <1>1 DEF Fields, SetDest
<1>3. last.state = s.state /\ DOMAIN last = DOMAIN s
  BY <1>2 DEF Fields
<1>4. SDPAnswer(s, sdp) \in {Refused(s), Dumped(last)}
  BY DEF SDPAnswer
<1> HIDE DEF next, last
<1> QED BY <1>2, <1>3, <1>4, OutcomeLeaves DEF Leaves

(* The wrappers of handleSDP that move the state on.                       *)
LEMMA ThenMoves ==
  ASSUME NEW s, Fields \subseteq DOMAIN s, NEW o, Leaves(s, o), NEW st
  PROVE  /\ DOMAIN Then(o, st) = {"s", "out", "saved"} /\ Then(o, st).out = o.out
         /\ Then(o, st).saved = o.saved /\ DOMAIN Then(o, st).s = DOMAIN s
         /\ o.out = "refused" => Then(o, st).s.state = s.state
         /\ o.out # "refused" => Then(o, st).s.state = st
  BY DEF Then, Leaves, Fields

(* handleSDP() sets NEGOTIATED after an answer that was not refused.       *)
LEMMA AnsweredMoves ==
  ASSUME NEW s, Fields \subseteq DOMAIN s, NEW o, Leaves(s, o)
  PROVE  /\ DOMAIN Answered(o) = {"s", "out", "saved"} /\ Answered(o).out = o.out
         /\ Answered(o).saved = o.saved /\ DOMAIN Answered(o).s = DOMAIN s
         /\ o.out = "refused" => Answered(o).s.state = s.state
         /\ o.out # "refused" => Answered(o).s.state = "NEGOTIATED"
<1> DEFINE p == Then(o, "NEGOTIATED")
<1>1. /\ DOMAIN p = {"s", "out", "saved"} /\ p.out = o.out /\ p.saved = o.saved
      /\ DOMAIN p.s = DOMAIN s
      /\ o.out # "refused" => p.s.state = "NEGOTIATED"
  BY ThenMoves
<1>2. Answered(o) = IF o.out = "refused" THEN o ELSE [p EXCEPT !.s.expecting = FALSE]
  BY DEF Answered
<1> HIDE DEF p
<1> QED BY <1>1, <1>2 DEF Leaves, Fields

(* Keeping the SDP of an ACK leaves state and file alone.                  *)
LEMMA AckMoves ==
  ASSUME NEW o, DOMAIN o = {"s", "out", "saved"}, Fields \subseteq DOMAIN o.s, NEW rt
  PROVE  /\ StoreAck(o, rt).s.state = o.s.state /\ StoreAck(o, rt).saved = o.saved
         /\ DOMAIN StoreAck(o, rt).s = DOMAIN o.s
         /\ ClearAck(o, rt).s.state = o.s.state /\ ClearAck(o, rt).saved = o.saved
         /\ DOMAIN ClearAck(o, rt).s = DOMAIN o.s
  BY DEF StoreAck, ClearAck, Fields

(* One call of handleSDP is one of the outcomes the manager expects.       *)
LEMMA HandleKeepsPromise ==
  ASSUME NEW s, Fields \subseteq DOMAIN s, s.state \in States,
         NEW rt \in RequestTypes, NEW sdp, NEW created, NEW opened
  PROVE  LET h == HandleSDP(s, rt, sdp, created, opened)
         IN  /\ DOMAIN h.s = DOMAIN s
             /\ [state |-> h.s.state, saved |-> h.saved] \in Outcomes(s.state, rt)
<1> DEFINE h == HandleSDP(s, rt, sdp, created, opened)
           io == InitialSDPOffer(s, sdp, created, opened)
           of == SDPOffer(s, sdp, created, opened)
           an == SDPAnswer(s, sdp)
           ia == InitialOrLaterAnswer(s, sdp)
<1> SUFFICES /\ DOMAIN h.s = DOMAIN s
             /\ [state |-> h.s.state, saved |-> h.saved] \in Outcomes(s.state, rt)
  OBVIOUS
<1>1. /\ Leaves(s, io) /\ io.saved = {} /\ Leaves(s, of) /\ of.saved = {}
      /\ Leaves(s, an) /\ Leaves(s, ia)
  BY InitialOfferLeaves, OfferLeaves, AnswerLeaves, InitialAnswerLeaves DEF InitialOrLaterAnswer
<1>2. [state |-> s.state, saved |-> {}] \in Outcomes(s.state, rt)
  BY DEF Outcomes
<1>3. rt \in Offers(s.state) => [state |-> Waiting(rt), saved |-> {}] \in Outcomes(s.state, rt)
  BY DEF Outcomes
<1>4. ASSUME rt \in Answers(s.state), NEW f \in {{}, {s.state}}
      PROVE  [state |-> "NEGOTIATED", saved |-> f] \in Outcomes(s.state, rt)
  BY <1>4 DEF Outcomes
<1>5. CASE s.state = "IDLE" /\ rt \in Offers("IDLE")
  <2>1. h = Then(io, Waiting(rt))
    BY <1>5 DEF HandleSDP
  <2> HIDE DEF h, io
  <2>2. h.saved = {} /\ DOMAIN h.s = DOMAIN s /\ h.s.state \in {s.state, Waiting(rt)}
    BY <1>1, <2>1, ThenMoves
  <2> QED BY <1>2, <1>3, <1>5, <2>2
<1>6. CASE s.state = "NEGOTIATED" /\ rt \in Offers("NEGOTIATED")
  <2>1. h = ClearAck(Then(of, Waiting(rt)), rt)
    BY <1>6 DEF HandleSDP, Offers
  <2> DEFINE p == Then(of, Waiting(rt))
  <2> HIDE DEF h, of
  <2>2. /\ DOMAIN p = {"s", "out", "saved"} /\ p.saved = {} /\ DOMAIN p.s = DOMAIN s
        /\ p.s.state \in {s.state, Waiting(rt)}
    BY <1>1, ThenMoves
  <2> HIDE DEF p
  <2>3. h = ClearAck(p, rt)
    BY <2>1 DEF p
  <2>4. h.s.state = p.s.state /\ h.saved = {} /\ DOMAIN h.s = DOMAIN s
    BY <2>2, <2>3, AckMoves
  <2> QED BY <1>2, <1>3, <1>6, <2>2, <2>4
<1>7. CASE s.state = "PRACK_WAITING_ANSWER" /\ rt \in Answers(s.state)
  <2>1. h = Answered(an)
    BY <1>7 DEF HandleSDP
  <2> HIDE DEF h, an
  <2>2. /\ DOMAIN h.s = DOMAIN s
        /\ \/ h.s.state = s.state /\ h.saved = {}
           \/ h.s.state = "NEGOTIATED" /\ h.saved \in {{}, {s.state}}
    BY <1>1, <2>1, AnsweredMoves DEF Leaves
  <2> QED BY Zenon, <1>2, <1>4, <1>7, <2>2
<1>8. CASE /\ s.state \in {"INVITE_WAITING_ANSWER_RESPONSE", "INVITE_WAITING_ANSWER_ACK_OR_PRACK"}
           /\ rt \in Answers(s.state)
  <2>1. h = StoreAck(Answered(ia), rt)
    BY <1>8 DEF HandleSDP
  <2> DEFINE p == Answered(ia)
  <2> HIDE DEF h, ia
  <2>2. /\ DOMAIN p = {"s", "out", "saved"} /\ DOMAIN p.s = DOMAIN s
        /\ \/ p.s.state = s.state /\ p.saved = {}
           \/ p.s.state = "NEGOTIATED" /\ p.saved \in {{}, {s.state}}
    BY <1>1, AnsweredMoves DEF Leaves
  <2> HIDE DEF p
  <2>3. h = StoreAck(p, rt)
    BY <2>1 DEF p
  <2>4. h.s.state = p.s.state /\ h.saved = p.saved /\ DOMAIN h.s = DOMAIN s
    BY <2>2, <2>3, AckMoves
  <2> QED BY <1>2, <1>4, <1>8, <2>2, <2>4
<1>9. CASE /\ ~(s.state = "IDLE" /\ rt \in Offers("IDLE"))
           /\ ~(s.state = "NEGOTIATED" /\ rt \in Offers("NEGOTIATED"))
           /\ ~(s.state = "PRACK_WAITING_ANSWER" /\ rt \in Answers(s.state))
           /\ ~(/\ s.state \in {"INVITE_WAITING_ANSWER_RESPONSE",
                                "INVITE_WAITING_ANSWER_ACK_OR_PRACK"}
                /\ rt \in Answers(s.state))
  <2>1. h \in {Outcome(s, "stored"), Ignored(s)}
    BY <1>9 DEF HandleSDP
  <2>2. h.s = s /\ h.saved = {}
    BY <2>1 DEF Outcome, Ignored
  <2> HIDE DEF h
  <2> QED BY <1>2, <2>2
<1> QED BY <1>5, <1>6, <1>7, <1>8, <1>9

-----------------------------------------------------------------------------
(* The inductive invariant of the refinement: the object keeps its fields, *)
(* and its state is one of the abstract ones.                              *)
IInv == Fields \subseteq DOMAIN session /\ session.state \in States

(* A session starts in IDLE.                                               *)
LEMMA NewSessionIsIdle == Fields \subseteq DOMAIN NewSession /\ NewSession.state = "IDLE"
  BY DEF NewSession, Fields

(* What RTPOfferAnswer allows are states.                                  *)
LEMMA OutcomesAreStates ==
  ASSUME NEW st \in States, NEW rt, NEW o \in Outcomes(st, rt)
  PROVE  o.state \in States
<1>1. rt \in Offers(st) => Waiting(rt) \in States
  BY DEF Offers, Waiting, States
<1> QED BY <1>1 DEF Outcomes, States

(* One step of the session is a step of the promise, or leaves it alone.   *)
LEMMA NextKeepsPromise ==
  ASSUME IInv, [Next]_vars
  PROVE  /\ IInv'
         /\ \/ \E rt \in RequestTypes : OfferAnswer!HandleSDP(rt)
            \/ session'.state = session.state /\ saved' = saved
<1>1. ASSUME NEW rt \in RequestTypes, NEW sdp, NEW created, NEW opened,
             Handle(rt, sdp, created, opened)
      PROVE  IInv' /\ OfferAnswer!HandleSDP(rt)
  <2> DEFINE h == HandleSDP(session, rt, sdp, created, opened)
             o == [state |-> h.s.state, saved |-> h.saved]
  <2>1. session' = h.s /\ saved' = h.saved
    BY <1>1 DEF Handle
  <2>2. DOMAIN h.s = DOMAIN session /\ o \in Outcomes(session.state, rt)
    BY HandleKeepsPromise DEF IInv
  <2>3. o.state = h.s.state /\ o.saved = h.saved
    OBVIOUS
  <2> HIDE DEF h, o
  <2>4. session'.state = o.state /\ saved' = o.saved /\ DOMAIN session' = DOMAIN session
    BY <2>1, <2>2, <2>3
  <2>5. o.state \in States
    BY <2>2, OutcomesAreStates DEF IInv
  <2>6. IInv'
    BY <2>4, <2>5 DEF IInv
  <2>7. OfferAnswer!Outcomes(session.state, rt) = Outcomes(session.state, rt)
    BY DEF OfferAnswer!Outcomes, Outcomes, OfferAnswer!Offers, Offers, OfferAnswer!Answers, Answers,
           OfferAnswer!Waiting, Waiting
  <2> QED BY <2>2, <2>4, <2>6, <2>7 DEF OfferAnswer!HandleSDP
<1>2. CASE StopSession
  <2>1. session' = Stop(session, Media) /\ saved' = saved
    BY <1>2 DEF StopSession
  <2>2. session'.state = session.state /\ DOMAIN session' = DOMAIN session
    BY <2>1, StopLeaves DEF IInv
  <2> QED BY <2>1, <2>2 DEF IInv
<1>3. CASE UNCHANGED vars
  BY <1>3 DEF vars, IInv
<1> QED BY <1>1, <1>2, <1>3 DEF Next

(* The session implements RTPOfferAnswer, whatever the media, the speakers *)
(* and the request types: its state follows the offers and answers of the  *)
(* call, and handleSDP writes a state file only on an answer it accepts.   *)
THEOREM KeepsOfferAnswerHolds == Spec => KeepsOfferAnswer
<1>1. Init => IInv /\ OfferAnswer!Init
  BY NewSessionIsIdle DEF Init, IInv, States, OfferAnswer!Init
<1>2. IInv /\ [Next]_vars =>
        /\ IInv'
        /\ [\E rt \in RequestTypes : OfferAnswer!HandleSDP(rt)]_<<session.state, saved>>
  BY NextKeepsPromise
<1> QED BY <1>1, <1>2, PTL DEF Spec, KeepsOfferAnswer, OfferAnswer!Spec

-----------------------------------------------------------------------------
(* The fields of a session and of what a handler makes of it.              *)
Shaped(s) ==
  /\ Fields \subseteq DOMAIN s
  /\ s.offered \subseteq Media /\ s.negotiated \subseteq Media
  /\ s.relay \in [Media -> {"closed", "open", "started"}]
  /\ s.lastOffer \in 0 .. 2
  /\ DOMAIN s.leg = 1 .. 2 /\ DOMAIN s.ends = 1 .. 2
  /\ DOMAIN s.dest = Media /\ \A m \in Media : DOMAIN s.dest[m] = 1 .. 2

(* What a body with media ms is made of.                                   *)
LEMMA BodyIs ==
  ASSUME NEW vs, NEW sdp \in Bodies(vs)
  PROVE  /\ sdp.media \subseteq Media
         /\ \E v \in vs : sdp.who = v.who /\ sdp.id = v.id
         /\ sdp.fault = "none" => sdp.fault \notin sdp.media /\ Reached(sdp) = Media
<1>1. PICK v \in vs, c \in Contents :
        sdp = [who |-> v.who, id |-> v.id, media |-> c.media, held |-> c.held, fault |-> c.fault]
  BY DEF Bodies
<1>2. c.media \subseteq Media
  BY DEF Contents
<1> QED BY <1>1, <1>2, MediaAssumption DEF Reached

(* Stopping relays changes the relays only.                                *)
LEMMA StopIs ==
  ASSUME NEW s, Shaped(s), NEW ms
  PROVE  /\ Shaped(Stop(s, ms))
         /\ \A m \in Media : Stop(s, ms).relay[m] = IF m \in ms THEN "closed" ELSE s.relay[m]
         /\ Stop(s, ms).leg = s.leg /\ Stop(s, ms).expecting = s.expecting
         /\ Stop(s, ms).offered = s.offered /\ Stop(s, ms).negotiated = s.negotiated
         /\ Stop(s, ms).dest = s.dest /\ Stop(s, ms).lastOffer = s.lastOffer
         /\ Stop(s, ms).ends = s.ends
<1>1. /\ Stop(s, ms).relay = [m \in Media |-> IF m \in ms THEN "closed" ELSE s.relay[m]]
      /\ DOMAIN Stop(s, ms) = DOMAIN s
      /\ Stop(s, ms).leg = s.leg /\ Stop(s, ms).expecting = s.expecting
      /\ Stop(s, ms).offered = s.offered /\ Stop(s, ms).negotiated = s.negotiated
      /\ Stop(s, ms).dest = s.dest /\ Stop(s, ms).lastOffer = s.lastOffer
      /\ Stop(s, ms).ends = s.ends
  BY DEF Stop, Shaped, Fields
<1>2. Stop(s, ms).relay \in [Media -> {"closed", "open", "started"}]
  BY <1>1 DEF Shaped
<1>3. Shaped(Stop(s, ms))
  BY <1>1, <1>2 DEF Shaped
<1> QED BY <1>1, <1>3

(* The four ways in which a handler returns leave the session alone.       *)
LEMMA OutcomeIs ==
  ASSUME NEW s
  PROVE  /\ Refused(s).s = s /\ Refused(s).out = "refused"
         /\ Rewritten(s).s = s /\ Rewritten(s).out # "refused"
         /\ Dumped(s).s = s /\ Dumped(s).out # "refused"
         /\ Ignored(s).s = s /\ Ignored(s).out # "refused"
  BY DEF Refused, Rewritten, Dumped, Ignored, Outcome

(* A well-formed body.                                                     *)
Clean(sdp) == sdp.fault = "none" /\ sdp.fault \notin sdp.media /\ Reached(sdp) = Media

(* Session t is what an initial offer makes of session s.                  *)
Offered(s, sdp, opened, t) ==
  /\ t.expecting = TRUE /\ t.lastOffer = 0
  /\ t.leg[1] = [id |-> sdp.id, origin |-> sdp.who] /\ t.leg[2] = NoLeg
  /\ t.ends[1] = sdp.who /\ t.offered = opened
  /\ \A m \in Media :
       /\ t.relay[m] = "started" => s.relay[m] = "started"
       /\ m \in opened => t.relay[m] = "open" /\ t.dest[m][1] = OfferAddress(sdp, m)

(* An offer that opens the session, or one that opens it again.            *)
LEMMA InitialOfferIs ==
  ASSUME NEW s, Shaped(s), NEW sdp, sdp.media \subseteq Media,
         NEW created, NEW opened \in SUBSET Media
  PROVE  LET o == InitialSDPOffer(s, sdp, created, opened) IN
         /\ Shaped(o.s)
         /\ Clean(sdp) => o.out # "refused" /\ Offered(s, sdp, opened, o.s)
<1> DEFINE cleared == [s EXCEPT !.offered = {}, !.leg = <<NoLeg, NoLeg>>,
                                !.lastOffer = 0, !.expecting = TRUE]
           done == opened \cap Reached(sdp)
           closed == Stop(cleared, created \cap Reached(sdp))
           placed == SetDest(closed, done, 1, [m \in Media |-> OfferAddress(sdp, m)])
           next == [placed EXCEPT
                      !.leg[1] = [id |-> sdp.id, origin |-> sdp.who],
                      !.relay = [m \in Media |->
                                   IF m \in done THEN "open" ELSE @[m]],
                      !.offered = done]
           last == [next EXCEPT !.ends = <<sdp.who, Nowhere>>]
           o == InitialSDPOffer(s, sdp, created, opened)
<1>1. /\ Shaped(cleared) /\ cleared.relay = s.relay /\ cleared.expecting = TRUE
      /\ cleared.dest = s.dest /\ cleared.ends = s.ends
      /\ cleared.lastOffer = 0 /\ cleared.leg[2] = NoLeg
  <2>1. /\ DOMAIN cleared = DOMAIN s /\ cleared.offered = {} /\ cleared.negotiated = s.negotiated
        /\ cleared.relay = s.relay /\ cleared.lastOffer = 0 /\ cleared.leg = <<NoLeg, NoLeg>>
        /\ cleared.ends = s.ends /\ cleared.dest = s.dest /\ cleared.expecting = TRUE
    BY DEF Shaped, Fields
  <2>2. DOMAIN <<NoLeg, NoLeg>> = 1 .. 2 /\ <<NoLeg, NoLeg>>[2] = NoLeg
    OBVIOUS
  <2> HIDE DEF cleared
  <2> QED BY <2>1, <2>2 DEF Shaped
<1> HIDE DEF cleared
<1>2. /\ Shaped(closed) /\ closed.expecting = TRUE /\ closed.dest = s.dest /\ closed.ends = s.ends
      /\ closed.lastOffer = 0 /\ closed.leg[2] = NoLeg
      /\ \A m \in Media : closed.relay[m] = "started" => s.relay[m] = "started"
  BY <1>1, StopIs
<1> HIDE DEF closed
<1>3. /\ placed.dest = [m \in Media |->
                          IF m \in done THEN [closed.dest[m] EXCEPT ![1] = OfferAddress(sdp, m)]
                                        ELSE closed.dest[m]]
      /\ DOMAIN placed = DOMAIN closed /\ placed.offered = closed.offered
      /\ placed.negotiated = closed.negotiated /\ placed.relay = closed.relay
      /\ placed.lastOffer = closed.lastOffer /\ placed.leg = closed.leg
      /\ placed.ends = closed.ends /\ placed.expecting = closed.expecting
  BY Zenon, <1>2 DEF SetDest, Shaped, Fields
<1>4. Shaped(placed) /\ \A m \in done \cap Media : placed.dest[m][1] = OfferAddress(sdp, m)
  <2> HIDE DEF placed, done
  <2>1. ASSUME NEW m \in Media
        PROVE  /\ DOMAIN placed.dest[m] = 1 .. 2
               /\ m \in done => placed.dest[m][1] = OfferAddress(sdp, m)
    <3>1. placed.dest[m] = IF m \in done THEN [closed.dest[m] EXCEPT ![1] = OfferAddress(sdp, m)]
                                          ELSE closed.dest[m]
      BY <1>3
    <3>2. DOMAIN closed.dest[m] = 1 .. 2
      BY <1>2 DEF Shaped
    <3> QED BY <3>1, <3>2
  <2>2. DOMAIN placed.dest = Media
    BY <1>3
  <2> QED BY <1>2, <1>3, <2>1, <2>2 DEF Shaped
<1> HIDE DEF placed, done
<1>5. /\ DOMAIN next = DOMAIN placed /\ next.negotiated = placed.negotiated
      /\ next.leg = [placed.leg EXCEPT ![1] = [id |-> sdp.id, origin |-> sdp.who]]
      /\ next.relay = [m \in Media |-> IF m \in done THEN "open" ELSE placed.relay[m]]
      /\ next.offered = done /\ next.lastOffer = placed.lastOffer
      /\ next.dest = placed.dest /\ next.ends = placed.ends /\ next.expecting = placed.expecting
  BY <1>4 DEF Shaped, Fields
<1> HIDE DEF next
<1>6. /\ Shaped(next) /\ next.leg[1] = [id |-> sdp.id, origin |-> sdp.who]
      /\ next.leg[2] = NoLeg /\ next.lastOffer = 0
      /\ \A m \in Media : next.relay[m] = IF m \in done THEN "open" ELSE placed.relay[m]
  <2>1. /\ DOMAIN next.leg = 1 .. 2 /\ next.leg[1] = [id |-> sdp.id, origin |-> sdp.who]
        /\ next.leg[2] = NoLeg /\ next.lastOffer = 0
    BY <1>2, <1>3, <1>4, <1>5 DEF Shaped
  <2>2. next.relay \in [Media -> {"closed", "open", "started"}]
    BY <1>4, <1>5 DEF Shaped
  <2>3. done \subseteq Media
    BY DEF done
  <2> QED BY <1>4, <1>5, <2>1, <2>2, <2>3 DEF Shaped
<1>7. /\ DOMAIN last = DOMAIN next /\ last.negotiated = next.negotiated /\ last.leg = next.leg
      /\ last.relay = next.relay /\ last.offered = next.offered
      /\ last.lastOffer = next.lastOffer /\ last.dest = next.dest
      /\ last.ends = <<sdp.who, Nowhere>> /\ last.expecting = next.expecting
  BY <1>6 DEF Shaped, Fields
<1> HIDE DEF last
<1>8. Shaped(last) /\ last.ends[1] = sdp.who
  <2>1. DOMAIN <<sdp.who, Nowhere>> = 1 .. 2 /\ <<sdp.who, Nowhere>>[1] = sdp.who
    OBVIOUS
  <2> QED BY <1>6, <1>7, <2>1 DEF Shaped
<1>9. /\ o \in {Refused(cleared), Refused(next), Rewritten(last)}
      /\ sdp.fault = "none" /\ sdp.fault \notin sdp.media => o = Rewritten(last)
  BY DEF InitialSDPOffer, cleared, closed, placed, next, last, done
<1>10. Shaped(o.s)
  BY <1>1, <1>6, <1>8, <1>9, OutcomeIs
<1>11. ASSUME Clean(sdp)
       PROVE  o.out # "refused" /\ Offered(s, sdp, opened, o.s)
  <2>1. o.s = last /\ o.out # "refused"
    BY <1>9, <1>11, OutcomeIs DEF Clean
  <2>2. done = opened
    BY <1>11 DEF done, Clean
  <2>3. /\ last.expecting = TRUE /\ last.leg[1] = [id |-> sdp.id, origin |-> sdp.who]
        /\ last.leg[2] = NoLeg /\ last.lastOffer = 0
        /\ last.ends[1] = sdp.who /\ last.offered = opened
    BY Zenon, <1>2, <1>3, <1>5, <1>6, <1>7, <1>8, <2>2
  <2>4. ASSUME NEW m \in Media
        PROVE  /\ last.relay[m] = "started" => s.relay[m] = "started"
               /\ m \in opened => /\ last.relay[m] = "open"
                                  /\ last.dest[m][1] = OfferAddress(sdp, m)
    BY <1>2, <1>3, <1>4, <1>5, <1>6, <1>7, <2>2
  <2> HIDE DEF o
  <2> QED BY Zenon, <2>1, <2>3, <2>4 DEF Offered
<1> QED BY Zenon, <1>10, <1>11

(* The answer to such an offer.                                            *)
LEMMA InitialAnswerIs ==
  ASSUME NEW s, Shaped(s), NEW sdp, sdp.media \subseteq Media
  PROVE  LET o == InitialSDPAnswer(s, sdp) IN
         /\ Shaped(o.s)
         /\ sdp.fault = "none" /\ (\A m \in s.offered : s.relay[m] # "closed") =>
              /\ o.out # "refused"
              /\ o.s.leg[1] = s.leg[1] /\ o.s.leg[2] = [id |-> sdp.id, origin |-> sdp.who]
              /\ o.s.ends[1] = s.ends[1] /\ o.s.ends[2] = sdp.who
              /\ o.s.lastOffer = s.lastOffer
              /\ \A m \in Media : o.s.relay[m] = "started" =>
                   \/ s.relay[m] = "started"
                   \/ /\ m \in s.offered /\ m \in o.s.negotiated
                      /\ o.s.dest[m][1] = s.dest[m][1]
                      /\ o.s.dest[m][2] = OfferAddress(sdp, m)
<1> DEFINE given == [s EXCEPT !.expecting = FALSE]
           dead == {m \in s.offered \cap sdp.media : s.relay[m] = "closed"}
           reached == {m \in Media : \A d \in dead : Rank[m] <= Rank[d]}
           kept == s.offered \cap sdp.media \cap reached
           gone == (s.offered \ sdp.media) \cap reached
           closed == Stop(given, gone)
           placed == SetDest(closed, kept, 2, [m \in Media |-> AnswerAddress(sdp, m)])
           next == [placed EXCEPT
                      !.leg[2] = [id |-> sdp.id, origin |-> sdp.who],
                      !.negotiated = (@ \ gone) \cup kept,
                      !.relay = [m \in Media |-> IF m \in kept \ dead
                                                 THEN "started" ELSE @[m]]]
           last == [next EXCEPT !.ends[2] = sdp.who]
           o == InitialSDPAnswer(s, sdp)
<1>1. /\ Shaped(given) /\ given.relay = s.relay /\ given.dest = s.dest /\ given.ends = s.ends
      /\ given.leg = s.leg /\ given.negotiated = s.negotiated /\ given.lastOffer = s.lastOffer
  <2>1. /\ DOMAIN given = DOMAIN s /\ given.offered = s.offered /\ given.negotiated = s.negotiated
        /\ given.relay = s.relay /\ given.lastOffer = s.lastOffer /\ given.leg = s.leg
        /\ given.ends = s.ends /\ given.dest = s.dest
    BY DEF Shaped, Fields
  <2> HIDE DEF given
  <2> QED BY <2>1 DEF Shaped
<1>2. kept \subseteq Media /\ gone \subseteq Media
  BY DEF Shaped
<1>3. /\ dead = {} => kept = s.offered \cap sdp.media
      /\ (\A m \in s.offered : s.relay[m] # "closed") => dead = {}
  BY DEF Shaped
<1> HIDE DEF given, kept, gone, dead
<1>4. /\ Shaped(closed) /\ closed.leg = s.leg /\ closed.dest = s.dest /\ closed.ends = s.ends
      /\ closed.negotiated = s.negotiated /\ closed.lastOffer = s.lastOffer
      /\ \A m \in Media : closed.relay[m] = "started" => s.relay[m] = "started"
  BY <1>1, StopIs
<1> HIDE DEF closed
<1>5. /\ placed.dest = [m \in Media |->
                          IF m \in kept THEN [closed.dest[m] EXCEPT ![2] = AnswerAddress(sdp, m)]
                                        ELSE closed.dest[m]]
      /\ DOMAIN placed = DOMAIN closed /\ placed.offered = closed.offered
      /\ placed.negotiated = closed.negotiated /\ placed.relay = closed.relay
      /\ placed.lastOffer = closed.lastOffer /\ placed.leg = closed.leg
      /\ placed.ends = closed.ends
  BY <1>4 DEF SetDest, Shaped, Fields
<1> HIDE DEF placed
<1>6. /\ Shaped(placed)
      /\ \A m \in kept : /\ placed.dest[m][2] = AnswerAddress(sdp, m)
                         /\ placed.dest[m][1] = s.dest[m][1]
  <2>1. ASSUME NEW m \in Media
        PROVE  /\ DOMAIN placed.dest[m] = 1 .. 2
               /\ m \in kept => /\ placed.dest[m][2] = AnswerAddress(sdp, m)
                                /\ placed.dest[m][1] = s.dest[m][1]
    <3>1. placed.dest[m] = IF m \in kept THEN [s.dest[m] EXCEPT ![2] = AnswerAddress(sdp, m)]
                                         ELSE s.dest[m]
      BY <1>4, <1>5
    <3>2. DOMAIN s.dest[m] = 1 .. 2
      BY DEF Shaped
    <3> QED BY <3>1, <3>2
  <2>2. DOMAIN placed.dest = Media
    BY <1>5
  <2> QED BY <1>2, <1>4, <1>5, <2>1, <2>2 DEF Shaped
<1>7. /\ DOMAIN next = DOMAIN placed /\ next.negotiated = (placed.negotiated \ gone) \cup kept
      /\ next.leg = [placed.leg EXCEPT ![2] = [id |-> sdp.id, origin |-> sdp.who]]
      /\ next.relay = [m \in Media |-> IF m \in kept \ dead THEN "started" ELSE placed.relay[m]]
      /\ next.offered = placed.offered /\ next.lastOffer = placed.lastOffer
      /\ next.dest = placed.dest /\ next.ends = placed.ends
  BY <1>6 DEF Shaped, Fields
<1> HIDE DEF next
<1>8. /\ Shaped(next) /\ next.leg[1] = s.leg[1]
      /\ next.leg[2] = [id |-> sdp.id, origin |-> sdp.who]
      /\ \A m \in Media : next.relay[m] = IF m \in kept \ dead THEN "started" ELSE placed.relay[m]
  <2>1. /\ DOMAIN next.leg = 1 .. 2 /\ next.leg[1] = s.leg[1]
        /\ next.leg[2] = [id |-> sdp.id, origin |-> sdp.who]
    BY <1>4, <1>5, <1>6, <1>7 DEF Shaped
  <2>2. next.relay \in [Media -> {"closed", "open", "started"}]
    BY <1>6, <1>7 DEF Shaped
  <2>3. next.negotiated \subseteq Media
    BY <1>2, <1>6, <1>7 DEF Shaped
  <2>4. Shaped(next)
    BY <1>6, <1>7, <2>1, <2>2, <2>3 DEF Shaped
  <2> QED BY <1>7, <2>1, <2>4
<1>9. /\ DOMAIN last = DOMAIN next /\ last.negotiated = next.negotiated /\ last.leg = next.leg
      /\ last.relay = next.relay /\ last.offered = next.offered
      /\ last.lastOffer = next.lastOffer /\ last.dest = next.dest
      /\ last.ends = [next.ends EXCEPT ![2] = sdp.who]
  BY <1>8 DEF Shaped, Fields
<1> HIDE DEF last
<1>10. Shaped(last) /\ last.ends[1] = s.ends[1] /\ last.ends[2] = sdp.who
  <2>1. /\ DOMAIN last.ends = 1 .. 2 /\ last.ends[2] = sdp.who /\ last.ends[1] = s.ends[1]
    BY SMTT(30), <1>4, <1>5, <1>7, <1>8, <1>9 DEF Shaped
  <2> QED BY <1>8, <1>9, <2>1 DEF Shaped
<1>11. /\ o \in {Refused(given), Refused(next), Dumped(last)}
       /\ sdp.fault = "none" /\ dead = {} => o = Dumped(last)
  BY Zenon DEF InitialSDPAnswer, given, dead, kept, gone, closed, placed, next, last
<1>12. Shaped(o.s)
  BY <1>1, <1>8, <1>10, <1>11, OutcomeIs
<1>13. ASSUME sdp.fault = "none", \A m \in s.offered : s.relay[m] # "closed"
       PROVE  /\ o.out # "refused"
              /\ o.s.leg[1] = s.leg[1] /\ o.s.leg[2] = [id |-> sdp.id, origin |-> sdp.who]
              /\ o.s.ends[1] = s.ends[1] /\ o.s.ends[2] = sdp.who
              /\ o.s.lastOffer = s.lastOffer
              /\ \A m \in Media : o.s.relay[m] = "started" =>
                   \/ s.relay[m] = "started"
                   \/ /\ m \in s.offered /\ m \in o.s.negotiated
                      /\ o.s.dest[m][1] = s.dest[m][1]
                      /\ o.s.dest[m][2] = OfferAddress(sdp, m)
  <2>1. o.s = last /\ o.out # "refused"
    BY <1>3, <1>11, <1>13, OutcomeIs
  <2>2. \A m \in Media : AnswerAddress(sdp, m) = OfferAddress(sdp, m)
    BY <1>13, MediaAssumption DEF AnswerAddress
  <2>3. ASSUME NEW m \in Media, last.relay[m] = "started", s.relay[m] # "started"
        PROVE  /\ m \in s.offered /\ m \in last.negotiated
               /\ last.dest[m][1] = s.dest[m][1] /\ last.dest[m][2] = OfferAddress(sdp, m)
    <3>1. m \in kept
      BY <1>4, <1>5, <1>8, <1>9, <2>3
    <3>2. m \in s.offered
      BY <3>1 DEF kept
    <3> QED BY <1>6, <1>7, <1>9, <2>2, <3>1, <3>2
  <2>4. last.lastOffer = s.lastOffer
    BY <1>4, <1>5, <1>7, <1>9
  <2> HIDE DEF o
  <2> QED BY Zenon, <1>8, <1>9, <1>10, <2>1, <2>3, <2>4
<1> QED BY <1>12, <1>13

(* An offer within the session, from the leg the code finds for it.        *)
LEMMA OfferIs ==
  ASSUME NEW s, Shaped(s), NEW sdp, sdp.media \subseteq Media,
         NEW created, NEW opened \in SUBSET Media
  PROVE  LET o == SDPOffer(s, sdp, created, opened)
             leg == LegOf(s, sdp) IN
         /\ Shaped(o.s)
         /\ /\ sdp.fault = "none" /\ sdp.fault \notin sdp.media /\ Reached(sdp) = Media
            /\ o.out # "refused"
            => \/ o = InitialSDPOffer(Stop(s, Media), sdp, created, opened)
               \/ /\ leg \in {1, 2} /\ o.s.lastOffer = leg
                  /\ ~(s.leg[1] = NoLeg /\ s.leg[2] = NoLeg) /\ (Ambiguous(s) => s.leg[1] = NoLeg)
                  /\ o.s.leg = s.leg /\ o.s.expecting = s.expecting /\ o.s.ends[1] = sdp.who
                  /\ \A m \in Media : o.s.relay[m] = "started" =>
                       /\ s.relay[m] = "started"
                       /\ m \in s.negotiated =>
                            /\ m \in o.s.offered
                            /\ o.s.dest[m][leg] = IF m \in sdp.held THEN s.dest[m][leg] ELSE sdp.who
                            /\ o.s.dest[m][3 - leg] = s.dest[m][3 - leg]
<1> DEFINE leg == IF s.leg[1] = NoLeg /\ s.leg[2] = NoLeg THEN 0 ELSE LegOf(s, sdp)
           fresh == leg = 0 \/ ~(sdp.media \subseteq s.negotiated)
           gone == (s.negotiated \ sdp.media) \cap Reached(sdp)
           kept == sdp.media \cap Reached(sdp)
           closed == Stop(s, gone)
           set == kept \ sdp.held
           placed == SetDest(closed, set, leg, [m \in Media |-> sdp.who])
           next == [placed EXCEPT !.lastOffer = leg, !.negotiated = @ \ gone,
                                  !.offered = (@ \ gone) \cup kept]
           last == [next EXCEPT !.ends = <<sdp.who, Nowhere>>]
           again == InitialSDPOffer(Stop(s, Media), sdp, created, opened)
           o == SDPOffer(s, sdp, created, opened)
<1>1. /\ leg \in {0, 1, 2}
      /\ leg # 0 => leg = LegOf(s, sdp) /\ ~(s.leg[1] = NoLeg /\ s.leg[2] = NoLeg)
  BY DEF LegOf
<1>2. Shaped(again.s)
  BY Zenon, StopIs, InitialOfferIs
<1>3. /\ \/ o \in {Refused(s), again}
         \/ ~fresh /\ o \in {Refused(next), Rewritten(last)}
      /\ sdp.fault = "none" /\ sdp.fault \notin sdp.media =>
           \/ o = Refused(s) \/ o = again
           \/ ~fresh /\ o = Rewritten(last) /\ (Ambiguous(s) => s.leg[1] = NoLeg)
  BY DEF SDPOffer
<1> HIDE DEF leg, gone, kept, set, again, o
<1>4. /\ Shaped(closed) /\ closed.leg = s.leg /\ closed.dest = s.dest /\ closed.ends = s.ends
      /\ closed.negotiated = s.negotiated /\ closed.expecting = s.expecting
      /\ \A m \in Media : closed.relay[m] = IF m \in gone THEN "closed" ELSE s.relay[m]
  BY StopIs
<1> HIDE DEF closed
<1>5. /\ placed.dest = [m \in Media |-> IF m \in set THEN [closed.dest[m] EXCEPT ![leg] = sdp.who]
                                                    ELSE closed.dest[m]]
      /\ DOMAIN placed = DOMAIN closed /\ placed.offered = closed.offered
      /\ placed.negotiated = closed.negotiated /\ placed.relay = closed.relay
      /\ placed.lastOffer = closed.lastOffer /\ placed.leg = closed.leg
      /\ placed.ends = closed.ends /\ placed.expecting = closed.expecting
  BY <1>4 DEF SetDest, Shaped, Fields
<1> HIDE DEF placed
<1>6. /\ Shaped(placed)
      /\ leg \in {1, 2} => \A m \in Media :
           /\ placed.dest[m][leg] = IF m \in set THEN sdp.who ELSE s.dest[m][leg]
           /\ placed.dest[m][3 - leg] = s.dest[m][3 - leg]
  <2>1. ASSUME NEW m \in Media
        PROVE  /\ DOMAIN placed.dest[m] = 1 .. 2
               /\ leg \in {1, 2} =>
                    /\ placed.dest[m][leg] = IF m \in set THEN sdp.who ELSE s.dest[m][leg]
                    /\ placed.dest[m][3 - leg] = s.dest[m][3 - leg]
    <3>1. placed.dest[m] = IF m \in set THEN [s.dest[m] EXCEPT ![leg] = sdp.who]
                                        ELSE s.dest[m]
      BY <1>4, <1>5
    <3>2. DOMAIN s.dest[m] = 1 .. 2
      BY DEF Shaped
    <3> QED BY <3>1, <3>2
  <2>2. DOMAIN placed.dest = Media
    BY <1>5
  <2> QED BY <1>4, <1>5, <2>1, <2>2 DEF Shaped
<1>7. /\ DOMAIN next = DOMAIN placed /\ next.negotiated = placed.negotiated \ gone
      /\ next.leg = placed.leg /\ next.relay = placed.relay
      /\ next.offered = (placed.offered \ gone) \cup kept /\ next.lastOffer = leg
      /\ next.dest = placed.dest /\ next.ends = placed.ends /\ next.expecting = placed.expecting
  BY <1>6 DEF Shaped, Fields
<1> HIDE DEF next
<1>8. Shaped(next)
  <2>1. next.negotiated \subseteq Media /\ next.offered \subseteq Media
    BY <1>6, <1>7 DEF Shaped, kept
  <2>2. next.lastOffer \in 0 .. 2
    BY <1>1, <1>7
  <2> QED BY <1>6, <1>7, <2>1, <2>2 DEF Shaped
<1>9. /\ DOMAIN last = DOMAIN next /\ last.negotiated = next.negotiated /\ last.leg = next.leg
      /\ last.relay = next.relay /\ last.offered = next.offered
      /\ last.lastOffer = next.lastOffer /\ last.dest = next.dest
      /\ last.ends = <<sdp.who, Nowhere>> /\ last.expecting = next.expecting
  BY <1>8 DEF Shaped, Fields
<1> HIDE DEF last
<1>10. Shaped(last) /\ last.ends[1] = sdp.who
  <2>1. DOMAIN <<sdp.who, Nowhere>> = 1 .. 2 /\ <<sdp.who, Nowhere>>[1] = sdp.who
    OBVIOUS
  <2> QED BY <1>8, <1>9, <2>1 DEF Shaped
<1>11. Shaped(o.s)
  BY <1>2, <1>3, <1>8, <1>10, OutcomeIs
<1>12. ASSUME sdp.fault = "none", sdp.fault \notin sdp.media, Reached(sdp) = Media,
              o.out # "refused", o # again
       PROVE  /\ leg \in {1, 2} /\ leg = LegOf(s, sdp) /\ o.s.lastOffer = leg
              /\ ~(s.leg[1] = NoLeg /\ s.leg[2] = NoLeg) /\ (Ambiguous(s) => s.leg[1] = NoLeg)
              /\ o.s.leg = s.leg /\ o.s.expecting = s.expecting /\ o.s.ends[1] = sdp.who
              /\ \A m \in Media : o.s.relay[m] = "started" =>
                   /\ s.relay[m] = "started"
                   /\ m \in s.negotiated =>
                        /\ m \in o.s.offered
                        /\ o.s.dest[m][leg] = IF m \in sdp.held THEN s.dest[m][leg] ELSE sdp.who
                        /\ o.s.dest[m][3 - leg] = s.dest[m][3 - leg]
  <2>1. /\ o.s = last /\ leg \in {1, 2} /\ leg = LegOf(s, sdp)
        /\ ~(s.leg[1] = NoLeg /\ s.leg[2] = NoLeg) /\ (Ambiguous(s) => s.leg[1] = NoLeg)
    BY <1>1, <1>3, <1>12, OutcomeIs
  <2>2. gone = s.negotiated \ sdp.media /\ kept = sdp.media
    BY <1>12 DEF gone, kept, Shaped
  <2>3. ASSUME NEW m \in Media, last.relay[m] = "started"
        PROVE  /\ s.relay[m] = "started"
               /\ m \in s.negotiated =>
                    /\ m \in last.offered
                    /\ last.dest[m][leg] = IF m \in sdp.held THEN s.dest[m][leg] ELSE sdp.who
                    /\ last.dest[m][3 - leg] = s.dest[m][3 - leg]
    <3>1. m \notin gone /\ s.relay[m] = "started"
      BY <1>4, <1>5, <1>7, <1>9, <2>3
    <3>2. m \in s.negotiated => m \in kept /\ (m \in set <=> m \notin sdp.held)
      BY <2>2, <3>1 DEF set
    <3>3. /\ last.dest[m][leg] = IF m \in set THEN sdp.who ELSE s.dest[m][leg]
          /\ last.dest[m][3 - leg] = s.dest[m][3 - leg]
      BY <1>6, <1>7, <1>9, <2>1
    <3> QED BY <1>7, <1>9, <3>1, <3>2, <3>3
  <2> QED BY Zenon, <1>4, <1>5, <1>7, <1>9, <1>10, <2>1, <2>3
<1> QED BY <1>11, <1>12 DEF o, again

(* What SDPAnswer makes of s, for a body taken for the given leg; known    *)
(* says that the leg was the sender's before.                              *)
TakenFor(s, sdp, leg, known, t) ==
  /\ leg \in {1, 2}
  /\ t.leg[3 - leg] = s.leg[3 - leg]
  /\ t.leg[leg] = IF known THEN s.leg[leg] ELSE [id |-> sdp.id, origin |-> sdp.who]
  /\ t.ends[1] = s.ends[1] /\ t.ends[2] = sdp.who /\ t.lastOffer = 0
  /\ \A m \in Media : t.relay[m] = "started" =>
       /\ s.relay[m] = "started"
       /\ m \in s.offered => /\ m \in t.negotiated
                             /\ t.dest[m][leg] = OfferAddress(sdp, m)
                             /\ t.dest[m][3 - leg] = s.dest[m][3 - leg]

(* The answer to it.                                                       *)
LEMMA AnswerIs ==
  ASSUME NEW s, Shaped(s), NEW sdp, sdp.media \subseteq Media
  PROVE  LET o == SDPAnswer(s, sdp)
             leg == IF LegOf(s, sdp) # 0 THEN LegOf(s, sdp) ELSE 3 - s.lastOffer IN
         /\ Shaped(o.s)
         /\ sdp.fault = "none" /\ ~Ambiguous(s) /\ s.lastOffer # 0 =>
              o.out # "refused" /\ TakenFor(s, sdp, leg, LegOf(s, sdp) # 0, o.s)
<1> DEFINE known == LegOf(s, sdp)
           leg == IF known # 0 THEN known ELSE 3 - s.lastOffer
           gone == s.offered \ sdp.media
           kept == s.offered \cap sdp.media
           closed == Stop(s, gone)
           placed == SetDest(closed, kept, leg, [m \in Media |-> AnswerAddress(sdp, m)])
           there == [id |-> sdp.id, origin |-> sdp.who]
           next == [placed EXCEPT !.leg[leg] = IF known # 0 THEN @ ELSE [id |-> sdp.id, origin |-> sdp.who],
                                  !.lastOffer = 0,
                                  !.negotiated = (@ \ gone) \cup kept]
           last == [next EXCEPT !.ends[2] = sdp.who]
           o == SDPAnswer(s, sdp)
<1>1. known \in {0, 1, 2} /\ (s.lastOffer # 0 => leg \in {1, 2})
  BY DEF LegOf, Shaped
<1>2. /\ o \in {Refused(s), Dumped(last)}
      /\ sdp.fault = "none" /\ ~Ambiguous(s) /\ s.lastOffer # 0 => o = Dumped(last)
  BY DEF SDPAnswer
<1>3. kept \subseteq Media /\ gone \subseteq Media
  BY DEF Shaped
<1> HIDE DEF known, leg, gone, kept, o
<1>4. /\ Shaped(closed) /\ closed.leg = s.leg /\ closed.dest = s.dest /\ closed.ends = s.ends
      /\ closed.negotiated = s.negotiated
      /\ \A m \in Media : closed.relay[m] = IF m \in gone THEN "closed" ELSE s.relay[m]
  BY StopIs
<1> HIDE DEF closed
<1>5. /\ placed.dest = [m \in Media |->
                          IF m \in kept THEN [closed.dest[m] EXCEPT ![leg] = AnswerAddress(sdp, m)]
                                        ELSE closed.dest[m]]
      /\ DOMAIN placed = DOMAIN closed /\ placed.offered = closed.offered
      /\ placed.negotiated = closed.negotiated /\ placed.relay = closed.relay
      /\ placed.lastOffer = closed.lastOffer /\ placed.leg = closed.leg
      /\ placed.ends = closed.ends
  BY <1>4 DEF SetDest, Shaped, Fields
<1> HIDE DEF placed
<1>6. /\ Shaped(placed)
      /\ leg \in {1, 2} => \A m \in kept : /\ placed.dest[m][leg] = AnswerAddress(sdp, m)
                                           /\ placed.dest[m][3 - leg] = s.dest[m][3 - leg]
  <2>1. ASSUME NEW m \in Media
        PROVE  /\ DOMAIN placed.dest[m] = 1 .. 2
               /\ m \in kept /\ leg \in {1, 2} =>
                    /\ placed.dest[m][leg] = AnswerAddress(sdp, m)
                    /\ placed.dest[m][3 - leg] = s.dest[m][3 - leg]
    <3>1. placed.dest[m] = IF m \in kept THEN [s.dest[m] EXCEPT ![leg] = AnswerAddress(sdp, m)]
                                         ELSE s.dest[m]
      BY <1>4, <1>5
    <3>2. DOMAIN s.dest[m] = 1 .. 2
      BY DEF Shaped
    <3> QED BY <3>1, <3>2
  <2>2. DOMAIN placed.dest = Media
    BY <1>5
  <2> QED BY <1>3, <1>4, <1>5, <2>1, <2>2 DEF Shaped
<1>7. /\ DOMAIN next = DOMAIN placed /\ next.negotiated = (placed.negotiated \ gone) \cup kept
      /\ next.leg = [placed.leg EXCEPT ![leg] = IF known # 0 THEN placed.leg[leg] ELSE there]
      /\ next.relay = placed.relay /\ next.offered = placed.offered /\ next.lastOffer = 0
      /\ next.dest = placed.dest /\ next.ends = placed.ends
  BY <1>6 DEF Shaped, Fields
<1> HIDE DEF next
<1>8. /\ Shaped(next)
      /\ leg \in {1, 2} => /\ next.leg[3 - leg] = s.leg[3 - leg]
                           /\ next.leg[leg] = IF known # 0 THEN s.leg[leg] ELSE there
  <2>1. next.negotiated \subseteq Media
    BY <1>3, <1>6, <1>7 DEF Shaped
  <2>2. DOMAIN next.leg = 1 .. 2
    BY <1>6, <1>7 DEF Shaped
  <2>3. Shaped(next)
    BY <1>6, <1>7, <2>1, <2>2 DEF Shaped
  <2>4. placed.leg = s.leg /\ DOMAIN s.leg = 1 .. 2
    BY <1>4, <1>5 DEF Shaped
  <2>5. leg \in {1, 2} => /\ next.leg[3 - leg] = s.leg[3 - leg]
                          /\ next.leg[leg] = IF known # 0 THEN s.leg[leg] ELSE there
    BY <1>7, <2>4
  <2> QED BY <2>3, <2>5
<1>9. /\ DOMAIN last = DOMAIN next /\ last.negotiated = next.negotiated /\ last.leg = next.leg
      /\ last.relay = next.relay /\ last.offered = next.offered
      /\ last.lastOffer = next.lastOffer /\ last.dest = next.dest
      /\ last.ends = [next.ends EXCEPT ![2] = sdp.who]
  BY <1>8 DEF Shaped, Fields
<1> HIDE DEF last
<1>10. Shaped(last) /\ last.ends[1] = s.ends[1] /\ last.ends[2] = sdp.who
  <2>1. DOMAIN last.ends = 1 .. 2 /\ last.ends[2] = sdp.who /\ last.ends[1] = s.ends[1]
    BY <1>4, <1>5, <1>7, <1>8, <1>9 DEF Shaped
  <2> QED BY <1>8, <1>9, <2>1 DEF Shaped
<1>11. Shaped(o.s)
  BY <1>2, <1>10, OutcomeIs
<1>12. ASSUME sdp.fault = "none", ~Ambiguous(s), s.lastOffer # 0
       PROVE  o.out # "refused" /\ TakenFor(s, sdp, leg, known # 0, o.s)
  <2>1. o.s = last /\ o.out # "refused" /\ leg \in {1, 2}
    BY <1>1, <1>2, <1>12, OutcomeIs
  <2>2. \A m \in Media : AnswerAddress(sdp, m) = OfferAddress(sdp, m)
    BY <1>12, MediaAssumption DEF AnswerAddress
  <2>3. ASSUME NEW m \in Media, last.relay[m] = "started"
        PROVE  /\ s.relay[m] = "started"
               /\ m \in s.offered => /\ m \in last.negotiated
                                     /\ last.dest[m][leg] = OfferAddress(sdp, m)
                                     /\ last.dest[m][3 - leg] = s.dest[m][3 - leg]
    <3>1. m \notin gone /\ s.relay[m] = "started"
      BY <1>4, <1>5, <1>7, <1>9, <2>3
    <3>2. m \in s.offered => m \in kept
      BY <3>1 DEF gone, kept
    <3> QED BY <1>6, <1>7, <1>9, <2>1, <2>2, <3>1, <3>2
  <2>4. last.lastOffer = 0
    BY <1>7, <1>9
  <2> QED BY Zenon, <1>8, <1>9, <1>10, <2>1, <2>3, <2>4 DEF TakenFor, there
<1> QED BY Zenon, <1>11, <1>12 DEF o, leg, known

(* The same session but for the state and the flags handleSDP sets last.   *)
Like(a, b) ==
  /\ DOMAIN a = DOMAIN b
  /\ a.leg = b.leg /\ a.offered = b.offered /\ a.negotiated = b.negotiated
  /\ a.relay = b.relay /\ a.dest = b.dest /\ a.lastOffer = b.lastOffer /\ a.ends = b.ends

(* Alike sessions have the same types.                                     *)
LEMMA LikeIsShaped ==
  ASSUME NEW a, NEW b, Like(a, b), Shaped(b)
  PROVE  Shaped(a)
  BY DEF Like, Shaped

(* Setting the state changes nothing else.                                 *)
LEMMA ThenIsLike ==
  ASSUME NEW o, DOMAIN o = {"s", "out", "saved"}, Fields \subseteq DOMAIN o.s, NEW st
  PROVE  Like(Then(o, st).s, o.s) /\ Then(o, st).s.expecting = o.s.expecting
  BY DEF Then, Like, Fields

(* Setting NEGOTIATED changes the state and the expected answer only.      *)
LEMMA AnsweredIsLike ==
  ASSUME NEW o, DOMAIN o = {"s", "out", "saved"}, Fields \subseteq DOMAIN o.s
  PROVE  Like(Answered(o).s, o.s) /\ (o.out # "refused" => Answered(o).s.expecting = FALSE)
  BY DEF Then, Answered, Like, Fields

(* Keeping the SDP of an ACK changes no leg and no relay.                  *)
LEMMA AckIsLike ==
  ASSUME NEW o, DOMAIN o = {"s", "out", "saved"}, Fields \subseteq DOMAIN o.s, NEW rt
  PROVE  /\ Like(StoreAck(o, rt).s, o.s) /\ StoreAck(o, rt).s.expecting = o.s.expecting
         /\ StoreAck(o, rt).out = o.out
         /\ Like(ClearAck(o, rt).s, o.s) /\ ClearAck(o, rt).s.expecting = o.s.expecting
         /\ ClearAck(o, rt).out = o.out
  BY DEF StoreAck, ClearAck, Like, Fields

(* Being alike is transitive.                                              *)
LEMMA LikeTwice ==
  ASSUME NEW a, NEW b, NEW c, Like(a, b), Like(b, c)
  PROVE  Like(a, c)
  BY DEF Like

(* What one call of handleSDP makes of a session, by case.                 *)
Handled(s, rt, sdp, created, opened) ==
  LET h == HandleSDP(s, rt, sdp, created, opened)
      offer == InitialSDPOffer(s, sdp, created, opened)
      later == SDPOffer(s, sdp, created, opened)
      answer == SDPAnswer(s, sdp)
      any == InitialOrLaterAnswer(s, sdp)
  IN  /\ s.state = "IDLE" /\ rt \in Offers(s.state) =>
           Like(h.s, offer.s) /\ h.s.expecting = offer.s.expecting /\ h.out = offer.out
           /\ (h.out # "refused" => h.s.state = Waiting(rt))
      /\ s.state = "NEGOTIATED" /\ rt \in Offers(s.state) =>
           Like(h.s, later.s) /\ h.s.expecting = later.s.expecting /\ h.out = later.out
           /\ (h.out # "refused" => h.s.state = Waiting(rt))
      /\ s.state = "PRACK_WAITING_ANSWER" /\ rt \in Answers(s.state) =>
           Like(h.s, answer.s) /\ h.out = answer.out
      /\ /\ s.state \in {"INVITE_WAITING_ANSWER_RESPONSE", "INVITE_WAITING_ANSWER_ACK_OR_PRACK"}
         /\ rt \in Answers(s.state)
         => /\ Like(h.s, any.s) /\ h.out = any.out
            /\ h.out # "refused" => h.s.expecting = FALSE /\ h.s.state = "NEGOTIATED"
      /\ s.state \in States /\ rt \notin Offers(s.state) \cup Answers(s.state) =>
           h.s = s

(* handleSDP() calls the handler of its state and request type.            *)
LEMMA HandleIs ==
  ASSUME NEW s, Fields \subseteq DOMAIN s, NEW rt, NEW sdp, NEW created, NEW opened
  PROVE  Handled(s, rt, sdp, created, opened)
<1> DEFINE h == HandleSDP(s, rt, sdp, created, opened)
           offer == InitialSDPOffer(s, sdp, created, opened)
           later == SDPOffer(s, sdp, created, opened)
           answer == SDPAnswer(s, sdp)
           any == InitialOrLaterAnswer(s, sdp)
<1>1. Leaves(s, offer) /\ Leaves(s, later) /\ Leaves(s, answer) /\ Leaves(s, any)
  BY InitialOfferLeaves, OfferLeaves, AnswerLeaves, InitialAnswerLeaves DEF InitialOrLaterAnswer
<1>2. \A o : Leaves(s, o) => DOMAIN o = {"s", "out", "saved"} /\ Fields \subseteq DOMAIN o.s
  BY DEF Leaves
<1>3. ASSUME s.state = "IDLE", rt \in Offers(s.state)
      PROVE  /\ Like(h.s, offer.s) /\ h.s.expecting = offer.s.expecting /\ h.out = offer.out
             /\ h.out # "refused" => h.s.state = Waiting(rt)
  <2>1. h = Then(offer, Waiting(rt))
    BY <1>3 DEF HandleSDP
  <2> HIDE DEF h, offer
  <2> QED BY <1>1, <1>2, <2>1, ThenIsLike, ThenMoves
<1>4. ASSUME s.state = "NEGOTIATED", rt \in Offers(s.state)
      PROVE  /\ Like(h.s, later.s) /\ h.s.expecting = later.s.expecting /\ h.out = later.out
             /\ h.out # "refused" => h.s.state = Waiting(rt)
  <2> DEFINE p == Then(later, Waiting(rt))
  <2>1. h = ClearAck(p, rt)
    BY <1>4 DEF HandleSDP, Offers
  <2> HIDE DEF h, later
  <2>2. /\ DOMAIN p = {"s", "out", "saved"} /\ DOMAIN p.s = DOMAIN s /\ p.out = later.out
        /\ Like(p.s, later.s) /\ p.s.expecting = later.s.expecting
        /\ p.out # "refused" => p.s.state = Waiting(rt)
    BY <1>1, <1>2, ThenMoves, ThenIsLike
  <2> HIDE DEF p
  <2>3. Like(h.s, p.s) /\ h.s.expecting = p.s.expecting /\ h.out = p.out /\ h.s.state = p.s.state
    BY <2>1, <2>2, AckIsLike, AckMoves
  <2> QED BY <2>2, <2>3, LikeTwice
<1>5. ASSUME s.state = "PRACK_WAITING_ANSWER", rt \in Answers(s.state)
      PROVE  Like(h.s, answer.s) /\ h.out = answer.out
  <2>1. h = Answered(answer)
    BY <1>5 DEF HandleSDP
  <2> HIDE DEF h, answer
  <2> QED BY Zenon, <1>1, <1>2, <2>1, AnsweredIsLike, AnsweredMoves
<1>6. ASSUME s.state \in {"INVITE_WAITING_ANSWER_RESPONSE", "INVITE_WAITING_ANSWER_ACK_OR_PRACK"},
             rt \in Answers(s.state)
      PROVE  /\ Like(h.s, any.s) /\ h.out = any.out
             /\ h.out # "refused" => h.s.expecting = FALSE /\ h.s.state = "NEGOTIATED"
  <2> DEFINE p == Answered(any)
  <2>1. h = StoreAck(p, rt)
    BY <1>6 DEF HandleSDP
  <2> HIDE DEF h, any
  <2>2. /\ DOMAIN p = {"s", "out", "saved"} /\ DOMAIN p.s = DOMAIN s /\ p.out = any.out
        /\ Like(p.s, any.s) /\ (any.out # "refused" => p.s.expecting = FALSE)
        /\ any.out # "refused" => p.s.state = "NEGOTIATED"
    BY Zenon, <1>1, <1>2, AnsweredMoves, AnsweredIsLike
  <2> HIDE DEF p
  <2>3. Like(h.s, p.s) /\ h.s.expecting = p.s.expecting /\ h.out = p.out /\ h.s.state = p.s.state
    BY <2>1, <2>2, AckIsLike, AckMoves
  <2> QED BY <2>2, <2>3, LikeTwice
<1>7. ASSUME s.state \in States, rt \notin Offers(s.state) \cup Answers(s.state)
      PROVE  h.s = s
  <2>1. h \in {Outcome(s, "stored"), Ignored(s)}
    BY <1>7 DEF HandleSDP
  <2> QED BY <2>1 DEF Outcome, Ignored
<1> QED BY Zenon, <1>3, <1>4, <1>5, <1>6, <1>7 DEF Handled

(* Whatever the body says, the session keeps its shape.                    *)
LEMMA HandleIsShaped ==
  ASSUME NEW s, Shaped(s), s.state \in States, NEW rt, NEW sdp, sdp.media \subseteq Media,
         NEW created, NEW opened \in SUBSET Media
  PROVE  Shaped(HandleSDP(s, rt, sdp, created, opened).s)
<1> DEFINE h == HandleSDP(s, rt, sdp, created, opened)
           offer == InitialSDPOffer(s, sdp, created, opened)
           later == SDPOffer(s, sdp, created, opened)
           answer == SDPAnswer(s, sdp)
           any == InitialOrLaterAnswer(s, sdp)
<1>1. Shaped(offer.s) /\ Shaped(later.s) /\ Shaped(answer.s) /\ Shaped(any.s)
  BY ZenonT(30), InitialOfferIs, OfferIs, AnswerIs, InitialAnswerIs DEF InitialOrLaterAnswer
<1>2. Fields \subseteq DOMAIN s
  BY DEF Shaped
<1>3. Handled(s, rt, sdp, created, opened)
  BY <1>2, HandleIs
<1>4. /\ s.state = "IDLE" /\ rt \in Offers(s.state) => Like(h.s, offer.s)
      /\ s.state = "NEGOTIATED" /\ rt \in Offers(s.state) => Like(h.s, later.s)
      /\ s.state = "PRACK_WAITING_ANSWER" /\ rt \in Answers(s.state) => Like(h.s, answer.s)
      /\ /\ s.state \in {"INVITE_WAITING_ANSWER_RESPONSE", "INVITE_WAITING_ANSWER_ACK_OR_PRACK"}
         /\ rt \in Answers(s.state)
         => Like(h.s, any.s)
      /\ rt \notin Offers(s.state) \cup Answers(s.state) => h.s = s
  BY <1>3 DEF Handled
<1>5. rt \in Offers(s.state) => s.state \in {"IDLE", "NEGOTIATED"}
  BY DEF Offers
<1>6. rt \in Answers(s.state) =>
        s.state \in {"PRACK_WAITING_ANSWER", "INVITE_WAITING_ANSWER_RESPONSE",
                     "INVITE_WAITING_ANSWER_ACK_OR_PRACK"}
  BY Zenon DEF Answers
<1> HIDE DEF h, offer, later, answer, any
<1>7. Shaped(h.s)
  BY <1>1, <1>4, <1>5, <1>6, LikeIsShaped
<1> QED BY SMTT(30), <1>7 DEF h

-----------------------------------------------------------------------------
(* An answer that is awaited can be handled, whoever shares a session id   *)
(* with whom: the media of an initial offer have not been closed, and a    *)
(* later offer was taken only when its legs could be told apart.           *)
Opened(s) == s.expecting = TRUE /\ \A m \in s.offered : s.relay[m] # "closed"
Asked(s) == s.expecting = FALSE /\ s.lastOffer \in {1, 2} /\ ~Ambiguous(s)
LegsAreLegs(s) ==
  \A i \in 1 .. 2 : s.leg[i] = [id |-> s.leg[i].id, origin |-> s.leg[i].origin]
Ready(s) ==
  /\ s.state # "PRACK_WAITING_ANSWER"
  /\ LegsAreLegs(s)
  /\ s.state \in {"INVITE_WAITING_ANSWER_RESPONSE", "INVITE_WAITING_ANSWER_ACK_OR_PRACK"} =>
       Opened(s) \/ Asked(s)
  /\ s.state = "NEGOTIATED" => s.expecting = FALSE

(* Alike sessions have alike legs and offers.                              *)
LEMMA LikeIsReady ==
  ASSUME NEW a, NEW b, Like(a, b)
  PROVE  /\ LegsAreLegs(b) => LegsAreLegs(a)
         /\ a.expecting = b.expecting /\ Opened(b) => Opened(a)
         /\ a.expecting = b.expecting /\ Asked(b) => Asked(a)
  BY DEF Like, LegsAreLegs, Opened, Asked, Ambiguous, SameIds

(* An initial offer opens the session.                                     *)
LEMMA OfferOpens ==
  ASSUME NEW s, Shaped(s), NEW sdp, sdp.media \subseteq Media, Clean(sdp),
         NEW created, NEW opened \in SUBSET Media
  PROVE  LET o == InitialSDPOffer(s, sdp, created, opened)
         IN  LegsAreLegs(o.s) /\ Opened(o.s)
<1> DEFINE o == InitialSDPOffer(s, sdp, created, opened)
<1>1. Offered(s, sdp, opened, o.s)
  BY Zenon, InitialOfferIs
<1> HIDE DEF o
<1>2. LegsAreLegs(o.s)
  BY <1>1 DEF Offered, LegsAreLegs, NoLeg
<1>3. Opened(o.s)
  BY <1>1 DEF Offered, Opened, Shaped
<1> QED BY <1>2, <1>3 DEF o

(* A later offer that is not refused tells the legs apart, or opens the    *)
(* session again.                                                          *)
LEMMA LaterOfferAsks ==
  ASSUME NEW s, Shaped(s), LegsAreLegs(s), s.expecting = FALSE,
         NEW sdp, sdp.media \subseteq Media, Clean(sdp),
         NEW created, NEW opened \in SUBSET Media,
         SDPOffer(s, sdp, created, opened).out # "refused"
  PROVE  LET o == SDPOffer(s, sdp, created, opened)
         IN  LegsAreLegs(o.s) /\ (Opened(o.s) \/ Asked(o.s))
<1> DEFINE o == SDPOffer(s, sdp, created, opened)
           again == InitialSDPOffer(Stop(s, Media), sdp, created, opened)
<1>1. \/ o = again
      \/ /\ o.s.lastOffer \in {1, 2} /\ o.s.leg = s.leg /\ o.s.expecting = s.expecting
         /\ ~(s.leg[1] = NoLeg /\ s.leg[2] = NoLeg) /\ (Ambiguous(s) => s.leg[1] = NoLeg)
  BY OfferIs DEF Clean
<1>2. LegsAreLegs(again.s) /\ Opened(again.s)
  <2>1. Shaped(Stop(s, Media))
    BY Zenon, StopIs
  <2> QED BY Zenon, <2>1, OfferOpens
<1> HIDE DEF o, again
<1>3. Ambiguous(s) /\ s.leg[1] = NoLeg => s.leg[2] = NoLeg
  BY DEF Ambiguous, SameIds, LegsAreLegs, NoLeg
<1>4. LegsAreLegs(o.s) /\ (Opened(o.s) \/ Asked(o.s))
  BY <1>1, <1>2, <1>3 DEF Asked, LegsAreLegs, Ambiguous, SameIds
<1> QED BY <1>4 DEF o

(* The awaited answer is not refused, and leaves two legs.                 *)
LEMMA AnswerIsTaken ==
  ASSUME NEW s, Shaped(s), LegsAreLegs(s), Opened(s) \/ Asked(s),
         NEW sdp, sdp.media \subseteq Media, sdp.fault = "none"
  PROVE  LET o == InitialOrLaterAnswer(s, sdp)
         IN  o.out # "refused" /\ LegsAreLegs(o.s)
<1>1. CASE Opened(s)
  <2> DEFINE o == InitialSDPAnswer(s, sdp)
  <2>1. InitialOrLaterAnswer(s, sdp) = o
    BY Zenon, <1>1 DEF InitialOrLaterAnswer, Opened
  <2>2. /\ o.out # "refused"
        /\ o.s.leg[1] = s.leg[1] /\ o.s.leg[2] = [id |-> sdp.id, origin |-> sdp.who]
    BY ZenonT(30), <1>1, InitialAnswerIs DEF Opened
  <2> HIDE DEF o
  <2>3. LegsAreLegs(o.s)
    BY <2>2 DEF LegsAreLegs
  <2> QED BY Zenon, <2>1, <2>2, <2>3
<1>2. CASE Asked(s)
  <2> DEFINE o == SDPAnswer(s, sdp)
             known == LegOf(s, sdp)
             leg == IF known # 0 THEN known ELSE 3 - s.lastOffer
  <2>1. InitialOrLaterAnswer(s, sdp) = o
    BY Zenon, <1>2 DEF InitialOrLaterAnswer, Asked
  <2>2. s.lastOffer # 0
    BY <1>2 DEF Asked
  <2>3. /\ o.out # "refused" /\ leg \in {1, 2}
        /\ o.s.leg[3 - leg] = s.leg[3 - leg]
        /\ o.s.leg[leg] = IF known # 0 THEN s.leg[leg] ELSE [id |-> sdp.id, origin |-> sdp.who]
    <3>1. o.out # "refused" /\ TakenFor(s, sdp, leg, known # 0, o.s)
      BY Zenon, <1>2, <2>2, AnswerIs DEF Asked
    <3> HIDE DEF o, known, leg
    <3> QED BY Zenon, <3>1 DEF TakenFor
  <2> HIDE DEF o, known, leg
  <2>4. LegsAreLegs(o.s)
    BY <2>3 DEF LegsAreLegs
  <2> QED BY Zenon, <2>1, <2>3, <2>4
<1> QED BY <1>1, <1>2

(* Every body that is not refused leaves a session whose answer, if one is *)
(* awaited, can be handled.                                                *)
LEMMA HandleKeepsReady ==
  ASSUME "PRACK" \notin RequestTypes,
         NEW s, Shaped(s), s.state \in States, Ready(s),
         NEW rt \in RequestTypes, NEW sdp, sdp.media \subseteq Media, Clean(sdp),
         NEW created, NEW opened \in SUBSET Media,
         HandleSDP(s, rt, sdp, created, opened).out # "refused"
  PROVE  Ready(HandleSDP(s, rt, sdp, created, opened).s)
<1> DEFINE h == HandleSDP(s, rt, sdp, created, opened)
           Wait == {"INVITE_WAITING_ANSWER_RESPONSE", "INVITE_WAITING_ANSWER_ACK_OR_PRACK"}
<1>1. Handled(s, rt, sdp, created, opened)
  BY HandleIs DEF Shaped
<1>2. h.out # "refused"
  BY Zenon
<1>3. LegsAreLegs(s)
  BY DEF Ready
<1>4. CASE s.state = "IDLE" /\ rt \in Offers(s.state)
  <2> DEFINE offer == InitialSDPOffer(s, sdp, created, opened)
  <2>1. Like(h.s, offer.s) /\ h.s.expecting = offer.s.expecting /\ h.s.state = Waiting(rt)
    BY Zenon, <1>1, <1>2, <1>4 DEF Handled
  <2>2. LegsAreLegs(offer.s) /\ Opened(offer.s)
    BY Zenon, OfferOpens
  <2>3. h.s.state \in Wait
    BY Zenon, <1>4, <2>1 DEF Offers, Waiting
  <2> HIDE DEF h, offer
  <2> QED BY <2>1, <2>2, <2>3, LikeIsReady DEF Ready, h
<1>5. CASE s.state = "NEGOTIATED" /\ rt \in Offers(s.state)
  <2> DEFINE later == SDPOffer(s, sdp, created, opened)
  <2>1. /\ Like(h.s, later.s) /\ h.s.expecting = later.s.expecting /\ h.s.state = Waiting(rt)
        /\ later.out # "refused"
    BY Zenon, <1>1, <1>2, <1>5 DEF Handled
  <2>2. LegsAreLegs(later.s) /\ (Opened(later.s) \/ Asked(later.s))
    BY Zenon, <1>3, <1>5, <2>1, LaterOfferAsks DEF Ready
  <2>3. h.s.state \in Wait
    BY Zenon, <1>5, <2>1 DEF Offers, Waiting
  <2> HIDE DEF h, later
  <2> QED BY <2>1, <2>2, <2>3, LikeIsReady DEF Ready, h
<1>6. CASE s.state \in Wait /\ rt \in Answers(s.state)
  <2> DEFINE any == InitialOrLaterAnswer(s, sdp)
  <2>1. Like(h.s, any.s) /\ h.s.expecting = FALSE /\ h.s.state = "NEGOTIATED"
    BY Zenon, <1>1, <1>2, <1>6 DEF Handled
  <2>2. LegsAreLegs(any.s)
    BY Zenon, <1>3, <1>6, AnswerIsTaken DEF Ready, Clean
  <2> HIDE DEF h, any
  <2> QED BY <2>1, <2>2, LikeIsReady DEF Ready, h
<1>7. CASE rt \notin Offers(s.state) \cup Answers(s.state)
  <2>1. h.s = s
    BY <1>1, <1>7 DEF Handled
  <2> QED BY Zenon, <2>1
<1>8. rt \in Offers(s.state) => s.state \in {"IDLE", "NEGOTIATED"}
  BY DEF Offers
<1>9. rt \in Answers(s.state) => s.state \in Wait
  BY DEF Answers, Ready
<1> QED BY <1>4, <1>5, <1>6, <1>7, <1>8, <1>9

-----------------------------------------------------------------------------
(* Who is joined by the relays, where the parties can be told apart, as    *)
(* long as nothing has been spoilt and no PRACK carries an offer (nothing  *)
(* in the repository passes one).                                          *)
Leg(v) == [id |-> v.id, origin |-> v.who]

(* The two legs are those of two different parties of the call.            *)
Parties(s, vs) ==
  \E v, w \in vs : s.leg[1] = Leg(v) /\ s.leg[2] = Leg(w) /\ v.who # w.who

(* The first offer, or one that opened the session again: its media are    *)
(* open, none is relayed yet.                                              *)
FirstOffer(s, vs) ==
  /\ s.expecting = TRUE /\ s.lastOffer = 0
  /\ \E v \in vs : s.leg[1] = Leg(v) /\ s.ends[1] = v.who
  /\ \A m \in Media :
       /\ s.relay[m] # "started"
       /\ m \in s.offered => s.relay[m] = "open" /\ s.dest[m][1] = s.ends[1]

(* What is relayed is of the media ms, and goes to the parties of the legs. *)
Relays(s, ms) ==
  \A m \in Media : s.relay[m] = "started" =>
    /\ m \in ms
    /\ s.dest[m][1] = s.leg[1].origin /\ s.dest[m][2] = s.leg[2].origin

(* A later offer: the leg it was taken for is that of who made it.         *)
LaterOffer(s, vs) ==
  /\ s.expecting = FALSE
  /\ Parties(s, vs)
  /\ s.lastOffer \in {1, 2} /\ s.leg[s.lastOffer].origin = s.ends[1]
  /\ Relays(s, s.offered)

(* The answer has been handled.                                            *)
Talking(s, vs) ==
  /\ s.expecting = FALSE
  /\ Parties(s, vs)
  /\ {s.leg[1].origin, s.leg[2].origin} = {s.ends[1], s.ends[2]}
  /\ Relays(s, s.negotiated)

Joined(s, vs) ==
  /\ s.state # "PRACK_WAITING_ANSWER"
  /\ s.state = "IDLE" => \A m \in Media : s.relay[m] # "started"
  /\ s.state \in {"INVITE_WAITING_ANSWER_RESPONSE", "INVITE_WAITING_ANSWER_ACK_OR_PRACK"} =>
       FirstOffer(s, vs) \/ LaterOffer(s, vs)
  /\ s.state = "NEGOTIATED" => Talking(s, vs)

(* The code tells the two legs apart, and takes a body for the leg of the  *)
(* party that sent it.                                                     *)
LEMMA LegsApart ==
  ASSUME NEW s, NEW vs, Distinguishable(vs), Parties(s, vs),
         NEW sdp, NEW v \in vs, sdp.who = v.who, sdp.id = v.id
  PROVE  /\ ~Ambiguous(s) /\ LegOf(s, sdp) \in {0, 1, 2}
         /\ LegOf(s, sdp) # 0 => s.leg[LegOf(s, sdp)].origin = sdp.who
<1>1. PICK x \in vs, y \in vs : s.leg[1] = Leg(x) /\ s.leg[2] = Leg(y) /\ x.who # y.who
  BY DEF Parties
<1>2. /\ s.leg[1].id = x.id /\ s.leg[1].origin = x.who
      /\ s.leg[2].id = y.id /\ s.leg[2].origin = y.who
  BY <1>1 DEF Leg
<1>3. ~Ambiguous(s)
  BY <1>1, <1>2 DEF Ambiguous
<1>4. ~SameIds(s) => \A u, w \in vs : u.id = w.id => u.who = w.who
  BY <1>2 DEF SameIds, Distinguishable
<1>5. LegOf(s, sdp) \in {0, 1, 2}
  BY DEF LegOf
<1>6. LegOf(s, sdp) = 1 => s.leg[1].origin = sdp.who
  BY <1>2, <1>4 DEF LegOf
<1>7. LegOf(s, sdp) = 2 => s.leg[2].origin = sdp.who
  BY <1>2, <1>4 DEF LegOf
<1> QED BY <1>3, <1>5, <1>6, <1>7

(* None of the predicates looks at what a Like session may change.         *)
LEMMA LikeIsJoined ==
  ASSUME NEW a, NEW b, Like(a, b), a.expecting = b.expecting, NEW vs
  PROVE  /\ FirstOffer(b, vs) => FirstOffer(a, vs)
         /\ LaterOffer(b, vs) => LaterOffer(a, vs)
         /\ Talking(b, vs) => Talking(a, vs)
<1>1. FirstOffer(b, vs) => FirstOffer(a, vs)
  BY Zenon DEF Like, FirstOffer
<1>2. Parties(b, vs) => Parties(a, vs)
  BY Zenon DEF Like, Parties
<1>3. /\ Relays(b, b.offered) => Relays(a, a.offered)
      /\ Relays(b, b.negotiated) => Relays(a, a.negotiated)
  BY Zenon DEF Like, Relays
<1>4. LaterOffer(b, vs) => LaterOffer(a, vs)
  BY Zenon, <1>2, <1>3 DEF Like, LaterOffer
<1>5. Talking(b, vs) => Talking(a, vs)
  BY Zenon, <1>2, <1>3 DEF Like, Talking
<1> QED BY <1>1, <1>4, <1>5

(* The first offer of a session opens it for the answer of the other       *)
(* party.                                                                  *)
LEMMA FirstOfferIsMade ==
  ASSUME NEW s, Shaped(s), \A m \in Media : s.relay[m] # "started", NEW vs,
         NEW sdp, NEW v \in vs, sdp.who = v.who, sdp.id = v.id, sdp.held = {},
         sdp.media \subseteq Media, Clean(sdp), NEW created, NEW opened \in SUBSET Media
  PROVE  FirstOffer(InitialSDPOffer(s, sdp, created, opened).s, vs)
<1> DEFINE o == InitialSDPOffer(s, sdp, created, opened)
<1>1. Offered(s, sdp, opened, o.s)
  BY Zenon, InitialOfferIs
<1> HIDE DEF o
<1>2. o.s.leg[1] = Leg(v) /\ o.s.ends[1] = v.who
  BY <1>1 DEF Leg, Offered
<1>3. \A m \in Media : OfferAddress(sdp, m) = o.s.ends[1]
  BY <1>1 DEF OfferAddress, Offered
<1>4. FirstOffer(o.s, vs)
  BY <1>1, <1>2, <1>3 DEF FirstOffer, Offered
<1> QED BY <1>4 DEF o

(* An offer within a call is taken for the leg of its party, or opens the  *)
(* session again.                                                          *)
LEMMA LaterOfferIsMade ==
  ASSUME NEW s, Shaped(s), NEW vs, Distinguishable(vs), Talking(s, vs),
         NEW sdp, NEW v \in vs, sdp.who = v.who, sdp.id = v.id,
         sdp.media \subseteq Media, Clean(sdp), NEW created, NEW opened \in SUBSET Media,
         SDPOffer(s, sdp, created, opened).out # "refused",
         sdp.held # {} => SDPOffer(s, sdp, created, opened).s.lastOffer # 0
  PROVE  LET o == SDPOffer(s, sdp, created, opened)
         IN  FirstOffer(o.s, vs) \/ LaterOffer(o.s, vs)
<1> DEFINE o == SDPOffer(s, sdp, created, opened)
           leg == LegOf(s, sdp)
           again == InitialSDPOffer(Stop(s, Media), sdp, created, opened)
<1>1. leg \in {0, 1, 2} /\ (leg # 0 => s.leg[leg].origin = sdp.who)
  <2>1. Parties(s, vs)
    BY Zenon DEF Talking
  <2> QED BY <2>1, LegsApart
<1>2. \/ o = again
      \/ /\ leg \in {1, 2} /\ o.s.lastOffer = leg
         /\ o.s.leg = s.leg /\ o.s.expecting = s.expecting /\ o.s.ends[1] = sdp.who
         /\ \A m \in Media : o.s.relay[m] = "started" =>
              /\ s.relay[m] = "started"
              /\ m \in s.negotiated =>
                   /\ m \in o.s.offered
                   /\ o.s.dest[m][leg] = IF m \in sdp.held THEN s.dest[m][leg] ELSE sdp.who
                   /\ o.s.dest[m][3 - leg] = s.dest[m][3 - leg]
  BY OfferIs DEF Clean
<1>3. CASE o = again
  <2>1. Shaped(Stop(s, Media)) /\ \A m \in Media : Stop(s, Media).relay[m] # "started"
    BY Zenon, StopIs
  <2>2. again.s.lastOffer = 0
    <3> DEFINE stopped == Stop(s, Media)
    <3> HIDE DEF stopped
    <3>1. Shaped(stopped)
      BY Zenon, <2>1 DEF stopped
    <3>2. Offered(stopped, sdp, opened, InitialSDPOffer(stopped, sdp, created, opened).s)
      BY Zenon, <3>1, InitialOfferIs
    <3> QED BY Zenon, <3>2 DEF Offered, stopped
  <2>3. sdp.held = {}
    BY Zenon, <1>3, <2>2
  <2>4. FirstOffer(again.s, vs)
    BY Zenon, <2>1, <2>3, FirstOfferIsMade
  <2> QED BY Zenon, <1>3, <2>4
<1> HIDE DEF o, leg, again
<1>4. CASE o # again
  <2>1. Parties(o.s, vs)
    BY <1>2, <1>4 DEF Talking, Parties
  <2>2. o.s.expecting = FALSE
    BY <1>2, <1>4 DEF Talking
  <2>3. o.s.lastOffer \in {1, 2} /\ o.s.leg[o.s.lastOffer].origin = o.s.ends[1]
    BY <1>1, <1>2, <1>4
  <2>4. ASSUME NEW m \in Media, o.s.relay[m] = "started"
        PROVE  m \in o.s.offered /\ \A i \in {1, 2} : o.s.dest[m][i] = o.s.leg[i].origin
    <3>1. s.relay[m] = "started"
      BY <1>2, <1>4, <2>4
    <3>2. m \in s.negotiated /\ \A i \in {1, 2} : s.dest[m][i] = s.leg[i].origin
      BY <3>1 DEF Talking, Relays
    <3>3. /\ m \in o.s.offered /\ leg \in {1, 2}
          /\ o.s.dest[m][leg] = IF m \in sdp.held THEN s.dest[m][leg] ELSE sdp.who
          /\ o.s.dest[m][3 - leg] = s.dest[m][3 - leg] /\ o.s.leg = s.leg
      BY <1>2, <1>4, <2>4, <3>2
    <3>4. o.s.dest[m][leg] = s.leg[leg].origin /\ o.s.dest[m][3 - leg] = s.leg[3 - leg].origin
      BY <1>1, <3>2, <3>3
    <3> QED BY <3>3, <3>4
  <2> QED BY Zenon, <2>1, <2>2, <2>3, <2>4 DEF LaterOffer, Relays, o
<1> QED BY <1>3, <1>4 DEF o

(* An answer that is handled joins its party to the offerer.               *)
LEMMA FirstAnswerJoins ==
  ASSUME NEW s, Shaped(s), NEW vs, FirstOffer(s, vs),
         NEW sdp, NEW v \in vs, sdp.who = v.who, sdp.id = v.id, sdp.who # s.ends[1],
         sdp.media \subseteq Media, sdp.fault = "none", sdp.held = {},
         NEW t, Like(t, InitialSDPAnswer(s, sdp).s), t.expecting = FALSE
  PROVE  Talking(t, vs)
<1> DEFINE o == InitialSDPAnswer(s, sdp)
<1>1. \A m \in s.offered : s.relay[m] # "closed"
  BY DEF FirstOffer, Shaped
<1>2. /\ o.out # "refused"
      /\ o.s.leg[1] = s.leg[1] /\ o.s.leg[2] = [id |-> sdp.id, origin |-> sdp.who]
      /\ o.s.ends[1] = s.ends[1] /\ o.s.ends[2] = sdp.who
      /\ \A m \in Media : o.s.relay[m] = "started" =>
           \/ s.relay[m] = "started"
           \/ /\ m \in s.offered /\ m \in o.s.negotiated
              /\ o.s.dest[m][1] = s.dest[m][1]
              /\ o.s.dest[m][2] = OfferAddress(sdp, m)
  BY <1>1, InitialAnswerIs
<1> HIDE DEF o
<1>3. Like(t, o.s)
  BY DEF o
<1>4. /\ t.leg = o.s.leg /\ t.ends = o.s.ends /\ t.relay = o.s.relay /\ t.dest = o.s.dest
      /\ t.negotiated = o.s.negotiated
  BY <1>3 DEF Like
<1>5. PICK u \in vs : s.leg[1] = Leg(u) /\ s.ends[1] = u.who
  BY DEF FirstOffer
<1>6. Parties(t, vs)
  BY Zenon, <1>2, <1>4, <1>5 DEF Parties, Leg
<1>7. t.leg[1].origin = t.ends[1] /\ t.leg[2].origin = t.ends[2] /\ t.ends[2] = sdp.who
  BY <1>2, <1>4, <1>5 DEF Leg
<1>8. ASSUME NEW m \in Media, t.relay[m] = "started"
      PROVE  m \in t.negotiated /\ t.dest[m][1] = t.ends[1] /\ t.dest[m][2] = t.ends[2]
  <2>1. s.relay[m] # "started" /\ (m \in s.offered => s.dest[m][1] = s.ends[1])
    BY Zenon DEF FirstOffer
  <2>2. /\ m \in s.offered /\ m \in o.s.negotiated
        /\ o.s.dest[m][1] = s.dest[m][1] /\ o.s.dest[m][2] = OfferAddress(sdp, m)
    BY <1>2, <1>4, <1>8, <2>1
  <2>3. OfferAddress(sdp, m) = sdp.who
    BY DEF OfferAddress
  <2> QED BY <1>2, <1>4, <2>1, <2>2, <2>3
<1>9. Talking(t, vs)
  BY <1>6, <1>7, <1>8 DEF Talking, Relays
<1> QED BY <1>2, <1>9 DEF o

(* It joins its party to the offerer.                                      *)
LEMMA LaterAnswerJoins ==
  ASSUME NEW s, Shaped(s), NEW vs, Distinguishable(vs), LaterOffer(s, vs),
         NEW sdp, NEW v \in vs, sdp.who = v.who, sdp.id = v.id, sdp.who # s.ends[1],
         sdp.media \subseteq Media, sdp.fault = "none", sdp.held = {},
         NEW t, Like(t, SDPAnswer(s, sdp).s), t.expecting = FALSE
  PROVE  Talking(t, vs)
<1> DEFINE o == SDPAnswer(s, sdp)
           known == LegOf(s, sdp)
           leg == IF known # 0 THEN known ELSE 3 - s.lastOffer
<1>1. ~Ambiguous(s) /\ known \in {0, 1, 2} /\ (known # 0 => s.leg[known].origin = sdp.who)
  BY LegsApart DEF LaterOffer
<1>2. s.lastOffer \in {1, 2} /\ s.leg[s.lastOffer].origin = s.ends[1]
  BY Zenon DEF LaterOffer
<1>3. /\ o.out # "refused" /\ leg \in {1, 2}
      /\ o.s.leg[3 - leg] = s.leg[3 - leg]
      /\ o.s.leg[leg] = IF known # 0 THEN s.leg[leg] ELSE [id |-> sdp.id, origin |-> sdp.who]
      /\ o.s.ends[1] = s.ends[1] /\ o.s.ends[2] = sdp.who
      /\ \A m \in Media : o.s.relay[m] = "started" =>
           /\ s.relay[m] = "started"
           /\ m \in s.offered =>
                /\ m \in o.s.negotiated
                /\ o.s.dest[m][leg] = OfferAddress(sdp, m)
                /\ o.s.dest[m][3 - leg] = s.dest[m][3 - leg]
  <2>1. s.lastOffer # 0
    BY <1>2
  <2>2. o.out # "refused" /\ TakenFor(s, sdp, leg, known # 0, o.s)
    BY Zenon, <1>1, <2>1, AnswerIs
  <2> HIDE DEF o, known, leg
  <2> QED BY Zenon, <2>2 DEF TakenFor
<1> HIDE DEF o, known
<1>4. leg = 3 - s.lastOffer /\ 3 - leg = s.lastOffer
  BY <1>1, <1>2
<1> HIDE DEF leg
<1>5. Like(t, o.s)
  BY DEF o
<1>6. /\ t.leg = o.s.leg /\ t.ends = o.s.ends /\ t.relay = o.s.relay /\ t.dest = o.s.dest
      /\ t.negotiated = o.s.negotiated
  BY <1>5 DEF Like
<1>7. Parties(t, vs)
  <2>1. PICK x \in vs, y \in vs : s.leg[1] = Leg(x) /\ s.leg[2] = Leg(y) /\ x.who # y.who
    BY DEF LaterOffer, Parties
  <2>2. CASE known # 0
    <3>1. t.leg[1] = s.leg[1] /\ t.leg[2] = s.leg[2]
      BY <1>3, <1>6, <2>2
    <3> QED BY <2>1, <3>1 DEF Parties
  <2>3. CASE known = 0
    <3>1. t.leg[leg] = Leg(v) /\ t.leg[3 - leg] = s.leg[3 - leg]
      BY <1>3, <1>6, <2>3 DEF Leg
    <3>2. CASE leg = 1
      <4>1. t.leg[1] = Leg(v) /\ t.leg[2] = Leg(y) /\ y.who = s.ends[1]
        BY <1>2, <1>4, <2>1, <3>1, <3>2 DEF Leg
      <4> QED BY Zenon, <4>1 DEF Parties
    <3>3. CASE leg = 2
      <4>1. t.leg[2] = Leg(v) /\ t.leg[1] = Leg(x) /\ x.who = s.ends[1]
        BY <1>2, <1>4, <2>1, <3>1, <3>3 DEF Leg
      <4> QED BY <4>1 DEF Parties
    <3> QED BY <1>3, <3>2, <3>3
  <2> QED BY <2>2, <2>3
<1>8. t.leg[leg].origin = sdp.who /\ t.leg[3 - leg].origin = s.ends[1]
  <2>1. CASE known # 0
    BY <1>1, <1>2, <1>3, <1>4, <1>6, <2>1 DEF leg
  <2>2. CASE known = 0
    BY <1>2, <1>3, <1>4, <1>6, <2>2
  <2> QED BY Zenon, <2>1, <2>2
<1>9. {t.leg[1].origin, t.leg[2].origin} = {t.ends[1], t.ends[2]}
  BY <1>3, <1>6, <1>8
<1>10. ASSUME NEW m \in Media, t.relay[m] = "started"
       PROVE  /\ m \in t.negotiated
              /\ t.dest[m][1] = t.leg[1].origin /\ t.dest[m][2] = t.leg[2].origin
  <2>1. s.relay[m] = "started"
    BY <1>3, <1>6, <1>10
  <2>2. m \in s.offered /\ \A i \in {1, 2} : s.dest[m][i] = s.leg[i].origin
    BY <2>1 DEF LaterOffer, Relays
  <2>3. /\ m \in t.negotiated /\ t.dest[m][leg] = OfferAddress(sdp, m)
        /\ t.dest[m][3 - leg] = s.dest[m][3 - leg]
    BY Zenon, <1>3, <1>6, <1>10, <2>2
  <2>4. OfferAddress(sdp, m) = sdp.who
    BY Zenon DEF OfferAddress
  <2>5. t.dest[m][leg] = t.leg[leg].origin /\ t.dest[m][3 - leg] = t.leg[3 - leg].origin
    <3>1. s.leg[3 - leg].origin = s.ends[1] /\ 3 - leg \in {1, 2}
      BY <1>2, <1>3, <1>4
    <3>2. s.dest[m][3 - leg] = s.leg[3 - leg].origin
      BY Zenon, <2>2, <3>1
    <3> QED BY Zenon, <1>8, <2>3, <2>4, <3>1, <3>2
  <2> QED BY <1>3, <2>3, <2>5
<1>11. Talking(t, vs)
  BY <1>7, <1>9, <1>10 DEF Talking, Relays
<1> QED BY <1>3, <1>11 DEF o

(* Every body that is not refused keeps offers and answers joined.         *)
LEMMA HandleKeepsJoined ==
  ASSUME "PRACK" \notin RequestTypes,
         NEW s, Shaped(s), s.state \in States, NEW vs, Distinguishable(vs), Joined(s, vs),
         NEW rt \in RequestTypes, NEW sdp \in Bodies(vs), sdp.fault = "none",
         rt \in Answers(s.state) => sdp.who # s.ends[1],
         NEW created, NEW opened \in SUBSET Media,
         HandleSDP(s, rt, sdp, created, opened).out # "refused",
         sdp.held # {} => HandleSDP(s, rt, sdp, created, opened).s.lastOffer # 0
  PROVE  Joined(HandleSDP(s, rt, sdp, created, opened).s, vs)
<1> DEFINE h == HandleSDP(s, rt, sdp, created, opened)
           Wait == {"INVITE_WAITING_ANSWER_RESPONSE", "INVITE_WAITING_ANSWER_ACK_OR_PRACK"}
<1>1. PICK v \in vs : sdp.who = v.who /\ sdp.id = v.id
  BY BodyIs
<1>2. sdp.media \subseteq Media /\ Clean(sdp)
  BY BodyIs DEF Clean
<1>3. Handled(s, rt, sdp, created, opened)
  BY HandleIs DEF Shaped
<1>4. h.out # "refused" /\ (sdp.held # {} => h.s.lastOffer # 0)
  BY Zenon
<1>5. CASE s.state = "IDLE" /\ rt \in Offers(s.state)
  <2> DEFINE offer == InitialSDPOffer(s, sdp, created, opened)
  <2>1. Like(h.s, offer.s) /\ h.s.expecting = offer.s.expecting /\ h.s.state = Waiting(rt)
    BY Zenon, <1>3, <1>4, <1>5 DEF Handled
  <2>2. FirstOffer(offer.s, vs)
    <3>1. Offered(s, sdp, opened, offer.s)
      BY Zenon, <1>2, InitialOfferIs
    <3>2. sdp.held = {}
      BY Zenon, <1>4, <2>1, <3>1 DEF Like, Offered
    <3> QED BY <1>1, <1>2, <1>5, <3>2, FirstOfferIsMade DEF Joined
  <2>3. h.s.state \in Wait
    BY Zenon, <1>5, <2>1 DEF Offers, Waiting
  <2> HIDE DEF h, offer
  <2>4. FirstOffer(h.s, vs)
    BY Zenon, <2>1, <2>2, LikeIsJoined
  <2> QED BY Zenon, <2>3, <2>4 DEF Joined, h
<1>6. CASE s.state = "NEGOTIATED" /\ rt \in Offers(s.state)
  <2> DEFINE later == SDPOffer(s, sdp, created, opened)
  <2>1. /\ Like(h.s, later.s) /\ h.s.expecting = later.s.expecting /\ h.s.state = Waiting(rt)
        /\ later.out # "refused"
    BY Zenon, <1>3, <1>4, <1>6 DEF Handled
  <2>2. FirstOffer(later.s, vs) \/ LaterOffer(later.s, vs)
    <3>1. sdp.held # {} => later.s.lastOffer # 0
      BY Zenon, <1>4, <2>1 DEF Like
    <3>2. Talking(s, vs)
      BY Zenon, <1>6 DEF Joined
    <3> QED BY Zenon, <1>1, <1>2, <2>1, <3>1, <3>2, LaterOfferIsMade
  <2>3. h.s.state \in Wait
    BY Zenon, <1>6, <2>1 DEF Offers, Waiting
  <2> HIDE DEF h, later
  <2>4. FirstOffer(h.s, vs) \/ LaterOffer(h.s, vs)
    BY <2>1, <2>2, LikeIsJoined
  <2> QED BY Zenon, <2>3, <2>4 DEF Joined, h
<1>7. CASE s.state \in Wait /\ rt \in Answers(s.state)
  <2>1. Like(h.s, InitialOrLaterAnswer(s, sdp).s) /\ h.s.expecting = FALSE /\ h.s.state = "NEGOTIATED"
    BY Zenon, <1>3, <1>4, <1>7 DEF Handled
  <2>2. FirstOffer(s, vs) \/ LaterOffer(s, vs)
    BY SMTT(30), <1>7 DEF Joined
  <2> HIDE DEF h
  <2>3. CASE FirstOffer(s, vs)
    <3> DEFINE a == InitialSDPAnswer(s, sdp)
    <3>1. Like(h.s, a.s)
      BY <2>1, <2>3 DEF InitialOrLaterAnswer, FirstOffer
    <3>2. a.s.lastOffer = 0
      <4>1. \A m \in s.offered : s.relay[m] # "closed"
        BY <2>3 DEF FirstOffer, Shaped
      <4>2. a.s.lastOffer = s.lastOffer
        BY Zenon, <1>2, <4>1, InitialAnswerIs
      <4> QED BY Zenon, <2>3, <4>2 DEF FirstOffer
    <3>3. sdp.held = {}
      BY Zenon, <1>4, <3>1, <3>2 DEF Like
    <3> QED BY Zenon, <1>1, <1>2, <1>7, <2>1, <2>3, <3>1, <3>3, FirstAnswerJoins DEF Joined, h
  <2>4. CASE LaterOffer(s, vs)
    <3> DEFINE a == SDPAnswer(s, sdp)
    <3>1. Like(h.s, a.s)
      BY <2>1, <2>4 DEF InitialOrLaterAnswer, LaterOffer
    <3>2. a.s.lastOffer = 0
      <4>1. ~Ambiguous(s) /\ s.lastOffer # 0
        BY <1>1, <2>4, LegsApart DEF LaterOffer
      <4> DEFINE known == LegOf(s, sdp)
                 leg == IF known # 0 THEN known ELSE 3 - s.lastOffer
      <4>2. TakenFor(s, sdp, leg, known # 0, a.s)
        BY Zenon, <1>2, <4>1, AnswerIs
      <4> QED BY Zenon, <4>2 DEF TakenFor
    <3>3. sdp.held = {}
      BY Zenon, <1>4, <3>1, <3>2 DEF Like
    <3> QED BY Zenon, <1>1, <1>2, <1>7, <2>1, <2>4, <3>1, <3>3, LaterAnswerJoins DEF Joined, h
  <2> QED BY Zenon, <2>2, <2>3, <2>4
<1>8. CASE rt \notin Offers(s.state) \cup Answers(s.state)
  <2>1. h.s = s
    BY <1>3, <1>8 DEF Handled
  <2> QED BY Zenon, <2>1
<1>9. rt \in Offers(s.state) => s.state \in {"IDLE", "NEGOTIATED"}
  BY DEF Offers
<1>10. rt \in Answers(s.state) => s.state \in Wait
  BY DEF Answers, Joined
<1> QED BY <1>5, <1>6, <1>7, <1>8, <1>9, <1>10

-----------------------------------------------------------------------------
(* The types, for every set of request types.                              *)
Types == IInv /\ Shaped(session) /\ voices \in VoiceSets /\ saved \subseteq States /\ spoilt \in BOOLEAN

(* The relays that are opened are of media of the body.                    *)
LEMMA RelayedIsMedia ==
  ASSUME NEW rt, NEW sdp, sdp.media \in SUBSET Media, NEW r \in Relayed(rt, sdp)
  PROVE  r[2] \in SUBSET Media
<1> DEFINE pairs == {p \in (SUBSET sdp.media) \X (SUBSET sdp.media) : p[2] \subseteq p[1]}
           some == {<<sdp.media, o>> : o \in SUBSET sdp.media}
<1>1. r = <<{}, {}>> \/ r \in pairs \/ r \in some
  BY DEF Relayed
<1>2. CASE r = <<{}, {}>>
  BY <1>2
<1>3. CASE r \in pairs
  BY <1>3
<1>4. CASE r \in some
  BY <1>4
<1> QED BY <1>1, <1>2, <1>3, <1>4

(* A new session has the types.                                            *)
LEMMA InitIsTyped == Init => Types
<1> SUFFICES ASSUME Init PROVE Types
  OBVIOUS
<1>1. IInv
  BY Zenon, NewSessionIsIdle DEF Init, IInv, States
<1>2. Shaped(NewSession)
  BY NewSessionIsIdle DEF Shaped, NewSession
<1> QED BY Zenon, <1>1, <1>2 DEF Init, Types

(* Every call keeps them.                                                  *)
LEMMA NextKeepsTypes ==
  ASSUME Types, [Next]_vars
  PROVE  Types'
<1>1. IInv'
  BY NextKeepsPromise DEF Types
<1>2. ASSUME NEW rt \in RequestTypes, NEW sdp \in Bodies(voices), NEW r \in Relayed(rt, sdp),
             Handle(rt, sdp, r[1], r[2])
      PROVE  Types'
  <2> DEFINE h == HandleSDP(session, rt, sdp, r[1], r[2])
             o == [state |-> h.s.state, saved |-> h.saved]
  <2>1. session' = h.s /\ saved' = h.saved /\ voices' = voices /\ spoilt' \in BOOLEAN
    BY <1>2 DEF Handle, Types
  <2>2. sdp.media \subseteq Media
    BY BodyIs
  <2>3. r[2] \in SUBSET Media
    BY <2>2, RelayedIsMedia
  <2>4. Shaped(h.s)
    BY Zenon, <2>2, <2>3, HandleIsShaped DEF Types, IInv
  <2>5. o \in Outcomes(session.state, rt)
    BY HandleKeepsPromise DEF Types, IInv
  <2>6. o.saved = h.saved
    OBVIOUS
  <2> HIDE DEF h, o
  <2>7. h.saved \subseteq States
    BY <2>5, <2>6 DEF Outcomes, Types, IInv
  <2> QED BY <1>1, <2>1, <2>4, <2>7 DEF Types
<1>3. CASE StopSession
  <2>1. session' = Stop(session, Media) /\ saved' = saved /\ voices' = voices /\ spoilt' = TRUE
    BY <1>3 DEF StopSession
  <2>2. Shaped(Stop(session, Media))
    BY StopIs DEF Types
  <2> QED BY <1>1, <2>1, <2>2 DEF Types
<1>4. CASE UNCHANGED vars
  BY <1>1, <1>4 DEF vars, Types
<1> QED BY <1>2, <1>3, <1>4 DEF Next

(* The fields of a session keep their types through every handler, refused *)
(* bodies and stops included.                                              *)
THEOREM TypeCorrect == Spec => []TypeOK
<1>1. Types => TypeOK
  BY DEF Types, IInv, Shaped, TypeOK
<1> QED BY InitIsTyped, NextKeepsTypes, <1>1, PTL DEF Spec

(* The inductive invariant: until something is spoilt, the answer that is  *)
(* awaited can be handled; and where the parties can be told apart, the    *)
(* session joins those of the last offer and its answer.                   *)
Sound ==
  /\ Types
  /\ ~spoilt => Ready(session)
  /\ ~spoilt /\ Distinguishable(voices) => Joined(session, voices)

(* Every call keeps an unspoilt session sound.                             *)
LEMMA NextKeepsSound ==
  ASSUME "PRACK" \notin RequestTypes, Sound, [Next]_vars
  PROVE  Sound'
<1>1. Types'
  BY NextKeepsTypes DEF Sound
<1>2. ASSUME NEW rt \in RequestTypes, NEW sdp \in Bodies(voices), NEW r \in Relayed(rt, sdp),
             Handle(rt, sdp, r[1], r[2]), ~spoilt'
      PROVE  /\ Ready(session)'
             /\ Distinguishable(voices)' => Joined(session, voices)'
  <2> DEFINE h == HandleSDP(session, rt, sdp, r[1], r[2])
  <2>1. /\ session' = h.s /\ voices' = voices
        /\ rt \in Answers(session.state) => sdp.who # session.ends[1]
        /\ ~spoilt /\ sdp.fault = "none" /\ h.out # "refused"
        /\ sdp.held # {} => h.s.lastOffer # 0
    BY Zenon, <1>2 DEF Handle
  <2>2. r[2] \in SUBSET Media
    BY BodyIs, RelayedIsMedia
  <2>3. sdp.media \subseteq Media /\ Clean(sdp)
    BY <2>1, BodyIs DEF Clean
  <2>4. Ready(h.s)
    BY <2>1, <2>2, <2>3, HandleKeepsReady DEF Sound, Types, IInv
  <2>5. Distinguishable(voices) => Joined(h.s, voices)
    BY <2>1, <2>2, HandleKeepsJoined DEF Sound, Types, IInv
  <2> HIDE DEF h
  <2> QED BY <2>1, <2>4, <2>5
<1>3. StopSession => spoilt'
  BY DEF StopSession
<1>4. UNCHANGED vars => Sound'
  BY DEF vars, Sound, Types, IInv
<1> QED BY <1>1, <1>2, <1>3, <1>4 DEF Next, Sound

(* So every unspoilt session is sound, when no PRACK is passed.            *)
LEMMA Soundness ==
  ASSUME "PRACK" \notin RequestTypes
  PROVE  Spec => []Sound
<1>1. Init => Sound
  <2> SUFFICES ASSUME Init PROVE Sound
    OBVIOUS
  <2>1. Joined(NewSession, voices)
    BY DEF Joined, NewSession
  <2>2. Ready(NewSession)
    BY DEF Ready, LegsAreLegs, NewSession, NoLeg
  <2> QED BY <2>1, <2>2, InitIsTyped DEF Init, Sound
<1>2. Sound /\ [Next]_vars => Sound'
  BY NextKeepsSound
<1> QED BY <1>1, <1>2, PTL DEF Spec

(* A running relay joins the party that offered last to the one that       *)
(* answered it, for every set of media and all parties that can be told    *)
(* apart, in a system that passes no PRACK to handleSDP (no caller in the  *)
(* repository does).                                                       *)
THEOREM RelayJoinsPartiesHolds ==
  ASSUME "PRACK" \notin RequestTypes
  PROVE  Spec => []RelayJoinsParties
<1>1. Sound => RelayJoinsParties
  BY DEF Sound, Joined, Talking, Relays, RelayJoinsParties
<1> QED BY <1>1, Soundness, PTL

(* An offer that was passed on can be answered, whoever shares a session   *)
(* id with whom, in such a system.                                         *)
THEOREM AnswerableOfferHolds ==
  ASSUME "PRACK" \notin RequestTypes
  PROVE  Spec => []AnswerableOffer
<1>1. Sound => AnswerableOffer
  <2> SUFFICES ASSUME Sound, NEW sdp \in Bodies(voices),
                      NEW rt \in Answers(session.state) \cap RequestTypes,
                      ~spoilt, sdp.who # session.ends[1], sdp.fault = "none"
               PROVE  HandleSDP(session, rt, sdp, {}, {}).out # "refused"
    BY DEF AnswerableOffer
  <2> DEFINE h == HandleSDP(session, rt, sdp, {}, {})
             any == InitialOrLaterAnswer(session, sdp)
  <2>1. Shaped(session) /\ Ready(session)
    BY DEF Sound, Types
  <2>2. session.state \in {"INVITE_WAITING_ANSWER_RESPONSE", "INVITE_WAITING_ANSWER_ACK_OR_PRACK"}
    BY <2>1 DEF Answers, Ready
  <2>3. LegsAreLegs(session) /\ (Opened(session) \/ Asked(session))
    BY <2>1, <2>2 DEF Ready
  <2>4. Handled(session, rt, sdp, {}, {})
    BY SMTT(30), <2>1, HandleIs DEF Shaped
  <2>5. h.out = any.out
    BY Zenon, <2>2, <2>4 DEF Handled
  <2>6. sdp.media \subseteq Media
    BY BodyIs
  <2>7. any.out # "refused"
    BY Zenon, <2>1, <2>3, <2>6, AnswerIsTaken
  <2> QED BY Zenon, <2>5, <2>7
<1> QED BY <1>1, Soundness, PTL
=============================================================================
