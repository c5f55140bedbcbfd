-------------------------- MODULE RTPProxySession --------------------------
(***************************************************************************)
(* One RTPProxySession: the offer/answer machine of a call's media relay.  *)
(* A session is a value (the object's fields); every handler is an         *)
(* operator from a session and an SDP body to an outcome.  The manager's   *)
(* module (RTPProxyManager) holds the objects and interleaves the threads. *)
(*                                                                         *)
(* An SDP body is abstracted to what the handlers tell apart: who wrote    *)
(* it (the origin address of its o-line, also where its media is to be     *)
(* sent), the session id of its o-line, its media lines, the media it puts *)
(* on hold with the address 0.0.0.0, and a fault: an o-line that does not  *)
(* parse, or a medium that has no address.                                 *)
(***************************************************************************)
EXTENDS Naturals, FiniteSets, RTPSessionTypes

CONSTANTS
  Media,        \* the media lines in use, among "audio", "video" and "fax"
  VoiceSets     \* who may speak in a call: sets of [who, id] records

ASSUME MediaAssumption == Media \subseteq {"audio", "video", "fax"}

\* 0.0.0.0, which IPAddress::isValid() refuses: a medium on hold, or the
\* default of an address that was never set.
Nowhere == "nowhere"
NoLeg == [id |-> 0, origin |-> Nowhere]

\* The handlers treat audio, then video, then fax.
Rank == [audio |-> 1, video |-> 2, fax |-> 3]
Before(m) == {n \in Media : Rank[n] < Rank[m]}

\* A new session.  ends is no field of the code: it records the party that
\* made the last offer and the address its answer gave for the media.
NewSession ==
  [state |-> "IDLE", leg |-> <<NoLeg, NoLeg>>, expecting |-> FALSE,
   offered |-> {}, negotiated |-> {}, relay |-> [m \in Media |-> "closed"],
   dest |-> [m \in Media |-> <<Nowhere, Nowhere>>], lastOffer |-> 0,
   lastAck |-> FALSE, ends |-> <<Nowhere, Nowhere>>]

\* What a handler leaves: the session, what became of the SDP, and the state
\* dumpStateFile wrote (saved is {} when nothing was written).
Outcome(s, out) == [s |-> s, out |-> out, saved |-> {}]
Ignored(s) == Outcome(s, "ignored")
Refused(s) == Outcome(s, "refused")
Rewritten(s) ==
  Outcome(s, IF s.offered = {} THEN "unchanged" ELSE "rewritten")
Dumped(s) == IF s.offered = {} THEN Outcome(s, "unchanged")
             ELSE [Outcome(s, "rewritten") EXCEPT !.saved = {s.state}]

Stop(s, ms) ==
  [s EXCEPT !.relay = [m \in Media |-> IF m \in ms THEN "closed" ELSE @[m]]]
SetDest(s, ms, i, addr) ==
  [s EXCEPT !.dest = [m \in Media |->
     IF m \in ms THEN [@[m] EXCEPT ![i] = addr[m]] ELSE @[m]]]

\* Where the sender of an offer, and of an answer, wants medium m: in an
\* answer a missing address is the default one.
OfferAddress(sdp, m) == IF m \in sdp.held THEN Nowhere ELSE sdp.who
AnswerAddress(sdp, m) == IF sdp.fault = m THEN Nowhere ELSE OfferAddress(sdp, m)
\* The media handled before an offer without an address throws.
Reached(sdp) ==
  IF sdp.fault \in sdp.media THEN Before(sdp.fault) ELSE Media

(* Mutant: the state file is written on the offer already. *)
InitialSDPOffer_Dumps(s, sdp, created, opened) ==
  LET cleared == [s EXCEPT !.offered = {}, !.leg = <<NoLeg, NoLeg>>,
                           !.lastOffer = 0, !.expecting = TRUE]
      done == opened \cap Reached(sdp)
      closed == Stop(cleared, created \cap Reached(sdp))
      next == [SetDest(closed, done, 1, [m \in Media |-> OfferAddress(sdp, m)]) EXCEPT
                 !.leg[1] = [id |-> sdp.id, origin |-> sdp.who],
                 !.relay = [m \in Media |->
                              IF m \in done THEN "open" ELSE @[m]],
                 !.offered = done]
  IN  IF sdp.fault = "origin" THEN Refused(cleared)
      ELSE IF sdp.fault \in sdp.media THEN Refused(next)
      ELSE Dumped([next EXCEPT !.ends = <<sdp.who, Nowhere>>])
\* created: the media for which the address checks ask for a relay;
\* opened: those among them for which a free pair of ports was found.
InitialSDPOffer(s, sdp, created, opened) ==
  LET cleared == [s EXCEPT !.offered = {}, !.leg = <<NoLeg, NoLeg>>,
                           !.lastOffer = 0, !.expecting = TRUE]
      done == opened \cap Reached(sdp)
      closed == Stop(cleared, created \cap Reached(sdp))
      next == [SetDest(closed, done, 1, [m \in Media |-> OfferAddress(sdp, m)]) EXCEPT
                 !.leg[1] = [id |-> sdp.id, origin |-> sdp.who],
                 !.relay = [m \in Media |->
                              IF m \in done THEN "open" ELSE @[m]],
                 !.offered = done]
  IN  IF sdp.fault = "origin" THEN Refused(cleared)
      ELSE IF sdp.fault \in sdp.media THEN Refused(next)
      ELSE Rewritten([next EXCEPT !.ends = <<sdp.who, Nowhere>>])

\* Media of the offer absent from the answer are stopped; the others take the
\* answerer's address.  start() throws on a relay that was closed meanwhile.
\* (setInactive(), called when nothing was offered, only restarts the clock
\* of a relay that does not run, and is left out.)
InitialSDPAnswer(s, sdp) ==
  LET given == [s EXCEPT !.expecting = FALSE]
      dead == {m \in s.offered \cap sdp.media : s.relay[m] = "closed"}
      reached == {m \in Media : \A d \in dead : Rank[m] <= Rank[d]}
      kept == s.offered \cap sdp.media \cap reached
      gone == (s.offered \ sdp.media) \cap reached
      next == [SetDest(Stop(given, gone), kept, 2,
                       [m \in Media |-> AnswerAddress(sdp, m)]) EXCEPT
                 !.leg[2] = [id |-> sdp.id, origin |-> sdp.who],
                 !.negotiated = (@ \ gone) \cup kept,
                 !.relay = [m \in Media |-> IF m \in kept \ dead
                                            THEN "started" ELSE @[m]]]
  IN  IF sdp.fault = "origin" THEN Refused(given)
      ELSE IF dead # {} THEN Refused(next)
      ELSE Dumped([next EXCEPT !.ends[2] = sdp.who])

\* Both legs use the same session id: then they are told apart by origin.
SameIds(s) == s.leg[1].id = s.leg[2].id
Ambiguous(s) == SameIds(s) /\ s.leg[1].origin = s.leg[2].origin
(* Mutant: a body from neither leg has a number of its own. *)
LegOf_Third(s, sdp) ==
  LET matches(i) == IF SameIds(s) THEN s.leg[i].origin = sdp.who
                                  ELSE s.leg[i].id = sdp.id
  IN  IF matches(1) THEN 1 ELSE IF matches(2) THEN 2 ELSE 3
\* The leg an SDP body comes from, 0 when neither.
LegOf(s, sdp) ==
  LET matches(i) == IF SameIds(s) THEN s.leg[i].origin = sdp.who
                                  ELSE s.leg[i].id = sdp.id
  IN  IF matches(1) THEN 1 ELSE IF matches(2) THEN 2 ELSE 0

(* Mutant: the leg of the offer is not remembered. *)
SDPOffer_ForgetsLeg(s, sdp, created, opened) ==
  LET leg == IF s.leg[1] = NoLeg /\ s.leg[2] = NoLeg THEN 0
             ELSE LegOf(s, sdp)
      fresh == leg = 0 \/ ~(sdp.media \subseteq s.negotiated)
      reached == Reached(sdp)
      gone == (s.negotiated \ sdp.media) \cap reached
      kept == sdp.media \cap reached
      next == [SetDest(Stop(s, gone), kept \ sdp.held, leg,
                       [m \in Media |-> sdp.who]) EXCEPT
                 !.negotiated = @ \ gone,
                 !.offered = (@ \ gone) \cup kept]
  IN  IF \/ sdp.fault = "origin"
         \/ s.leg[1] # NoLeg /\ Ambiguous(s) THEN Refused(s)
      ELSE IF fresh
           THEN InitialSDPOffer(Stop(s, Media), sdp, created, opened)
      ELSE IF sdp.fault \in sdp.media THEN Refused(next)
      ELSE Rewritten([next EXCEPT !.ends = <<sdp.who, Nowhere>>])
\* An offer within the session.  One from neither leg, or with a medium that
\* is not negotiated, stops the relays and is an initial offer again.  A
\* medium put on hold is offered, and keeps the address it had.
SDPOffer(s, sdp, created, opened) ==
  LET leg == IF s.leg[1] = NoLeg /\ s.leg[2] = NoLeg THEN 0
             ELSE LegOf(s, sdp)
      fresh == leg = 0 \/ ~(sdp.media \subseteq s.negotiated)
      reached == Reached(sdp)
      gone == (s.negotiated \ sdp.media) \cap reached
      kept == sdp.media \cap reached
      next == [SetDest(Stop(s, gone), kept \ sdp.held, leg,
                       [m \in Media |-> sdp.who]) EXCEPT
                 !.lastOffer = leg, !.negotiated = @ \ gone,
                 !.offered = (@ \ gone) \cup kept]
  IN  IF \/ sdp.fault = "origin"
         \/ s.leg[1] # NoLeg /\ Ambiguous(s) THEN Refused(s)
      ELSE IF fresh
           THEN InitialSDPOffer(Stop(s, Media), sdp, created, opened)
      ELSE IF sdp.fault \in sdp.media THEN Refused(next)
      ELSE Rewritten([next EXCEPT !.ends = <<sdp.who, Nowhere>>])

(* Mutant: an unknown answerer takes the leg of the offerer. *)
SDPAnswer_SameLeg(s, sdp) ==
  LET known == LegOf(s, sdp)
      leg == IF known # 0 THEN known ELSE s.lastOffer
      gone == s.offered \ sdp.media
      kept == s.offered \cap sdp.media
      next == [SetDest(Stop(s, gone), kept, leg,
                       [m \in Media |-> AnswerAddress(sdp, m)]) EXCEPT
                 !.leg[leg] = IF known # 0 THEN @
                              ELSE [id |-> sdp.id, origin |-> sdp.who],
                 !.lastOffer = 0,
                 !.negotiated = (@ \ gone) \cup kept]
  IN  IF \/ sdp.fault = "origin"
         \/ Ambiguous(s)
         \/ known = 0 /\ s.lastOffer = 0 THEN Refused(s)
      ELSE Dumped([next EXCEPT !.ends[2] = sdp.who])
\* The answer to such an offer.  One from neither leg takes the place of the
\* leg that did not make the offer.
SDPAnswer(s, sdp) ==
  LET known == LegOf(s, sdp)
      leg == IF known # 0 THEN known ELSE 3 - s.lastOffer
      gone == s.offered \ sdp.media
      kept == s.offered \cap sdp.media
      next == [SetDest(Stop(s, gone), kept, leg,
                       [m \in Media |-> AnswerAddress(sdp, m)]) EXCEPT
                 !.leg[leg] = IF known # 0 THEN @
                              ELSE [id |-> sdp.id, origin |-> sdp.who],
                 !.lastOffer = 0,
                 !.negotiated = (@ \ gone) \cup kept]
  IN  IF \/ sdp.fault = "origin"
         \/ Ambiguous(s)
         \/ known = 0 /\ s.lastOffer = 0 THEN Refused(s)
      ELSE Dumped([next EXCEPT !.ends[2] = sdp.who])

InitialOrLaterAnswer(s, sdp) ==
  IF s.expecting THEN InitialSDPAnswer(s, sdp) ELSE SDPAnswer(s, sdp)

\* The state moves on only when the handler did not throw, and after it wrote
\* the state file.
Then(o, st) == IF o.out = "refused" THEN o ELSE [o EXCEPT !.s.state = st]
Answered(o) == IF o.out = "refused" THEN o
               ELSE [Then(o, "NEGOTIATED") EXCEPT !.s.expecting = FALSE]

StoreAck(o, rt) ==
  IF o.out # "refused" /\ rt = "INVITE_ACK"
  THEN [o EXCEPT !.s.lastAck = TRUE] ELSE o
ClearAck(o, rt) ==
  IF o.out # "refused" /\ rt = "INVITE_RESPONSE"
  THEN [o EXCEPT !.s.lastAck = FALSE] ELSE o

HandleSDP(s, rt, sdp, created, opened) ==
  CASE s.state = "IDLE" /\ rt \in Offers("IDLE") ->
         Then(InitialSDPOffer(s, sdp, created, opened), Waiting(rt))
    [] s.state = "NEGOTIATED" /\ rt \in Offers("NEGOTIATED") ->
         ClearAck(Then(SDPOffer(s, sdp, created, opened), Waiting(rt)), rt)
    [] s.state = "PRACK_WAITING_ANSWER" /\ rt \in Answers(s.state) ->
         Answered(SDPAnswer(s, sdp))
    [] s.state \in {"INVITE_WAITING_ANSWER_RESPONSE",
                    "INVITE_WAITING_ANSWER_ACK_OR_PRACK"}
       /\ rt \in Answers(s.state) ->
         StoreAck(Answered(InitialOrLaterAnswer(s, sdp)), rt)
    [] s.state = "NEGOTIATED" /\ rt = "INVITE_ACK" /\ s.lastAck ->
         Outcome(s, "stored")
    [] OTHER -> Ignored(s)

\* What a body can say.  Of one whose o-line does not parse nothing else is
\* looked at; one in which a medium has no address has none for the session
\* either, and then no other medium is on hold.
Contents ==
  {c \in [media : SUBSET Media, held : SUBSET Media,
          fault : Media \cup {"none", "origin"}] :
     \/ c.fault = "origin" /\ c.media = {} /\ c.held = {}
     \/ c.fault \in c.media /\ c.held = {}
     \/ c.fault = "none" /\ c.media # {} /\ c.held \subseteq c.media}

\* The bodies the speakers of a call can send.
Bodies(vs) ==
  {[who |-> v.who, id |-> v.id, media |-> c.media, held |-> c.held,
    fault |-> c.fault] : v \in vs, c \in Contents}

VARIABLES
  session,  \* the session
  voices,   \* who speaks in this call
  saved,    \* the state the last handler wrote to the state file, if any
  spoilt    \* a body was refused or gave no address, or stop() was called

vars == <<session, voices, saved, spoilt>>

Init ==
  /\ session = NewSession
  /\ voices \in VoiceSets
  /\ saved = {}
  /\ spoilt = FALSE

\* One call of handleSDP, under _csStateMutex.  The party that answers is not
\* the one that made the offer.  A body that puts a medium on hold spoils the
\* session unless it is an offer that keeps the address given before.
Handle(rt, sdp, created, opened) ==
  \E h \in {HandleSDP(session, rt, sdp, created, opened)} :
    /\ rt \in Answers(session.state) => sdp.who # session.ends[1]
    /\ session' = h.s
    /\ saved' = h.saved
    /\ spoilt' = \/ spoilt \/ h.out = "refused" \/ sdp.fault # "none"
                 \/ sdp.held # {} /\ h.s.lastOffer = 0
    /\ UNCHANGED voices

\* removeSession and the housekeeping timer stop a session that a thread may
\* be about to handle.
StopSession ==
  /\ session' = Stop(session, Media)
  /\ spoilt' = TRUE
  /\ UNCHANGED <<voices, saved>>

\* The relays asked for, and those opened: none for a body that is no offer,
\* that does not parse, or that changes no more than the addresses of a session.
\* Which were asked for in vain only matters in IDLE: in NEGOTIATED all have
\* been stopped before.
Relayed(rt, sdp) ==
  CASE rt \notin Offers(session.state) \/ sdp.fault = "origin" -> {<<{}, {}>>}
    [] session.state = "IDLE" ->
         {r \in (SUBSET sdp.media) \X (SUBSET sdp.media) : r[2] \subseteq r[1]}
    [] LegOf(session, sdp) # 0 /\ sdp.media \subseteq session.negotiated -> {<<{}, {}>>}
    [] OTHER -> {<<sdp.media, o>> : o \in SUBSET sdp.media}

Next ==
  \/ \E rt \in RequestTypes, sdp \in Bodies(voices) :
       \E r \in Relayed(rt, sdp) : Handle(rt, sdp, r[1], r[2])
  \/ StopSession

Spec == Init /\ [][Next]_vars

-----------------------------------------------------------------------------
(* The fields keep their types: the states, the media of the offer, the     *)
(* relay of each medium, the leg of the last offer.                         *)
TypeOK ==
  /\ session.state \in States
  /\ session.offered \cup session.negotiated \subseteq Media
  /\ session.relay \in [Media -> {"closed", "open", "started"}]
  /\ session.lastOffer \in 0..2
  /\ saved \subseteq States
  /\ spoilt \in BOOLEAN

(* The session ids tell the parties of the call apart, or all of them use   *)
(* one and are told apart by their addresses.                               *)
Distinguishable(vs) ==
  \/ \A v, w \in vs : v.id = w.id
  \/ \A v, w \in vs : v.id = w.id => v.who = w.who

(* A running relay sends each side's media to the other: once an answer has *)
(* been handled the two destinations of every started medium are those of   *)
(* the party that offered last and of the one that answered it, through     *)
(* changed session ids, replaced parties, media that come, go or are put on *)
(* hold.  It needs Distinguishable: when only some of the parties share a   *)
(* session id, handleSDPOffer and handleSDPAnswer, which look at the origin *)
(* only when the ids of both legs are equal, take one party for the other.  *)
RelayJoinsParties ==
  session.state = "NEGOTIATED" /\ ~spoilt /\ Distinguishable(voices) =>
    \A m \in Media : session.relay[m] = "started" =>
      {session.dest[m][1], session.dest[m][2]}
        = {session.ends[1], session.ends[2]}

(* An offer that was passed on can be answered: while a session waits for   *)
(* an answer, a well-formed one from the other side is not refused with an  *)
(* exception, whichever leg it comes from (handleInitialSDPAnswer after an  *)
(* initial offer, handleSDPAnswer with _lastOfferIndex after a later one),  *)
(* and also where parties share a session id and are taken for each other.  *)
AnswerableOffer ==
  ~spoilt =>
    \A sdp \in Bodies(voices), rt \in Answers(session.state) \cap RequestTypes :
      sdp.who # session.ends[1] /\ sdp.fault = "none"
      => HandleSDP(session, rt, sdp, {}, {}).out # "refused"

(* The session keeps the promise its manager relies on: it implements       *)
(* RTPOfferAnswer, state and state file included.                           *)
OfferAnswer == INSTANCE RTPOfferAnswer WITH state <- session.state
KeepsOfferAnswer == OfferAnswer!Spec
=============================================================================
