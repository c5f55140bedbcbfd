------------------------- MODULE MCRTPProxySession -------------------------
(***************************************************************************)
(* Four kinds of call: both sides, and the party that replaces one of      *)
(* them, use the same session id; one side changes its id; one side is     *)
(* replaced by a third party with an id of its own; two parties share an   *)
(* id that the third does not use.                                         *)
(***************************************************************************)
EXTENDS RTPProxySession

V(w, i) == [who |-> w, id |-> i]
MCVoiceSets == {{V("a", 1), V("b", 1), V("c", 1)},
                {V("a", 1), V("b", 2), V("b", 3)},
                {V("a", 1), V("b", 2), V("c", 3)},
                {V("a", 1), V("b", 1), V("c", 2)}}

\* The view: a destination is not looked at until it is set again.  No handler
\* reads one; a relay is opened with the first destination and started with
\* the second, so that no destination of a closed relay, and no second one of
\* an open relay, is ever that of a started one.
Used(m, i) == \/ session.relay[m] = "started"
              \/ session.relay[m] = "open" /\ i = 1
View ==
  <<voices, saved, spoilt,
    [session EXCEPT !.dest = [m \in Media |->
       [i \in {1, 2} |-> IF Used(m, i) THEN @[m][i] ELSE Nowhere]]]>>
=============================================================================
