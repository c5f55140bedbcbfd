--------------------------- MODULE SIPClientUser ----------------------------
(***************************************************************************)
(* What a client transaction promises its user (TU), whichever state       *)
(* machine runs it: callbacks only between sendRequest() and the release,  *)
(* one release, no transaction of the set answering after its final        *)
(* response, and a timeout that is the last callback.  A stopped pool      *)
(* drops the release, never the order.                                     *)
(***************************************************************************)
EXTENDS Integers

CONSTANTS
  Trn,      \* the parent transaction and its branches
  Final     \* the classes of final responses

VARIABLES
  started,   \* the request has been sent
  told,      \* the callbacks of the last step
  answered,  \* the transactions that have reported a final response
  released   \* calls of _terminateCallback

userVars == <<started, told, answered, released>>

Init ==
  /\ started = FALSE
  /\ told = {}
  /\ answered = {}
  /\ released = 0

(* The request is sent.                                                    *)
Start ==
  /\ ~started
  /\ started' = TRUE
  /\ told' = {}
  /\ released' \in {0, 1}
  /\ UNCHANGED answered

(* A transaction that has not given its final response reports one; the    *)
(* final one may end the whole set.                                        *)
Answer(t, c) ==
  /\ started
  /\ released = 0
  /\ t \notin answered
  /\ told' = {<<t, c>>}
  /\ answered' = IF c \in Final THEN answered \cup {t} ELSE answered
  /\ released' \in IF c \in Final THEN {0, 1} ELSE {0}
  /\ UNCHANGED started

(* The request times out, or cannot be sent at all: that is the end.       *)
TimeOut(t) ==
  /\ released = 0
  /\ started' = TRUE
  /\ told' = {<<t, "408">>}
  /\ released' = 1
  /\ UNCHANGED answered

(* The transaction ends, or something happens the user does not see.       *)
Silent ==
  /\ told' = {}
  /\ released' \in {released, IF started THEN 1 ELSE 0}
  /\ UNCHANGED <<started, answered>>

Next ==
  \/ Start
  \/ \E t \in Trn : TimeOut(t) \/ (\E c \in {"1xx"} \cup Final : Answer(t, c))
  \/ Silent

Spec == Init /\ [][Next]_userVars
=============================================================================
