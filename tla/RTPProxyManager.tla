-------------------------- MODULE RTPProxyManager --------------------------
(***************************************************************************)
(* The RTPProxyManager: the list of sessions, the calls of handleSDP that  *)
(* several threads make at once, removal by the SBC, the housekeeping      *)
(* timer, and the state files that a restart reads.                        *)
(*                                                                         *)
(* A thread in handleSDP first finds or creates the session under the list *)
(* mutex (Lookup), then works on it under the session's own mutex          *)
(* (Process).  Between the two the session may be removed, collected or    *)
(* handled by another thread.  A session object lives as long as the list  *)
(* or a thread holds it; its destructor removes its state file.  Of a      *)
(* session the manager sees what RTPOfferAnswer promises: its state, and   *)
(* the state it wrote to the file.                                         *)
(***************************************************************************)
EXTENDS RTPSessionTypes, Integers, FiniteSets

CONSTANTS
  Threads,        \* threads that call handleSDP
  Calls,          \* session identifiers
  Objs,           \* session objects, as many as can exist at once
  SessionMax,     \* _rtpSessionMax
  Redis,          \* the state is kept in Redis instead of files
  None

ASSUME SessionMaxAssumption == SessionMax \in Nat
ASSUME RedisAssumption == Redis \in BOOLEAN
ASSUME SetsAssumption ==
  /\ IsFiniteSet(Threads) /\ IsFiniteSet(Calls) /\ IsFiniteSet(Objs)
  /\ None \notin Objs
\* Enough for a new session while the other calls are listed and the other
\* threads hold sessions that no longer are.
ASSUME ObjsAssumption ==
  Cardinality(Objs) + 1 >= Cardinality(Threads) + Cardinality(Calls)

\* The values of obj and thread, apart from None.
Sessions == [call : Calls, monitored : BOOLEAN, file : BOOLEAN, state : States,
             answered : BOOLEAN]
Visits == [obj : Objs, rt : RequestTypes]

ASSUME NoneAssumption == None \notin Sessions /\ None \notin Visits

VARIABLES
  obj,            \* the session objects: None when there is none
  sessionList,    \* _sessionList: the object of a call, or None
  thread,         \* what a thread holds between Lookup and Process, or None
  disk,           \* the state file of a call: {} when none can be read, or the
                  \* state written
  counter         \* _sessionCounter of the monitored route

vars == <<obj, sessionList, thread, disk, counter>>

\* A session object: its call, whether its route is monitored, whether it
\* owns a state file (_stateFile is set), its state, and - no field of the
\* code - whether the last offer it handled has been answered.
NewSession(c, monitored) ==
  [call |-> c, monitored |-> monitored, file |-> FALSE, state |-> "IDLE",
   answered |-> FALSE]

Init ==
  /\ obj = [o \in Objs |-> None]
  /\ sessionList = [c \in Calls |-> None]
  /\ thread = [t \in Threads |-> None]
  /\ disk = [c \in Calls |-> {}]
  /\ counter = 0

Listed == {c \in Calls : sessionList[c] # None}
Live == {o \in Objs : obj[o] # None}
Counted(cs) == {c \in cs : obj[sessionList[c]].monitored}

\* The shared pointers: an object that neither the list nor a thread holds is
\* destroyed, and its destructor removes the state file it owns (in Redis, the
\* state of its call).
Held(list, th) == {list[c] : c \in Calls}
                  \cup {th[t].obj : t \in {u \in Threads : th[u] # None}}
(* Mutant: the objects are destroyed when they leave the list. *)
Release_ListOnly(objs, list, th, files) ==
  LET dead == {o \in Objs : objs[o] # None} \ {list[c] : c \in Calls}
      wiped == {objs[o].call : o \in {d \in dead : Redis \/ objs[d].file}}
  IN  /\ obj' = [o \in Objs |-> IF o \in dead THEN None ELSE objs[o]]
      /\ disk' = [c \in Calls |-> IF c \in wiped THEN {} ELSE files[c]]
      /\ sessionList' = list
      /\ thread' = th
(* Mutant: the destructor leaves the state file behind. *)
Release_KeepsFile(objs, list, th, files) ==
  /\ obj' = [o \in Objs |-> IF o \in Held(list, th) THEN objs[o] ELSE None]
  /\ disk' = files
  /\ sessionList' = list
  /\ thread' = th
Release(objs, list, th, files) ==
  LET dead == {o \in Objs : objs[o] # None} \ Held(list, th)
      wiped == {objs[o].call : o \in {d \in dead : Redis \/ objs[d].file}}
  IN  /\ obj' = [o \in Objs |-> IF o \in dead THEN None ELSE objs[o]]
      /\ disk' = [c \in Calls |-> IF c \in wiped THEN {} ELSE files[c]]
      /\ sessionList' = list
      /\ thread' = th

\* handleSDP, first half.  A listed session is taken as it is.
Find(t, c, rt) ==
  /\ thread[t] = None
  /\ c \in Listed
  /\ thread' = [thread EXCEPT ![t] = [obj |-> sessionList[c], rt |-> rt]]
  /\ UNCHANGED <<obj, sessionList, disk, counter>>

\* INVITE and INVITE_RESPONSE create a missing session unless the list is
\* over its limit; every other type, and a full list, throws.
Create(t, c, rt, monitored) ==
  /\ thread[t] = None
  /\ c \notin Listed
  /\ rt \in {"INVITE", "INVITE_RESPONSE"}
  /\ Cardinality(Listed) <= SessionMax
  /\ \E o \in Objs \ Live :
       /\ obj' = [obj EXCEPT ![o] = NewSession(c, monitored)]
       /\ sessionList' = [sessionList EXCEPT ![c] = o]
       /\ thread' = [thread EXCEPT ![t] = [obj |-> o, rt |-> rt]]
  /\ counter' = IF monitored THEN counter + 1 ELSE counter
  /\ UNCHANGED disk

\* handleSDP, second half, on the session found before.
Process(t) ==
  /\ thread[t] # None
  /\ \E r \in Outcomes(obj[thread[t].obj].state, thread[t].rt) :
       LET o == thread[t].obj
           moved == r.state # obj[o].state
           now == [obj[o] EXCEPT
                     !.state = r.state, !.file = @ \/ r.saved # {},
                     !.answered = IF moved THEN r.state = "NEGOTIATED" ELSE @]
           files == IF r.saved = {} THEN disk
                    ELSE [disk EXCEPT ![obj[o].call] = r.saved]
       IN  Release([obj EXCEPT ![o] = now], sessionList,
                   [thread EXCEPT ![t] = None], files)
  /\ UNCHANGED counter

(* Mutant: the session counter is not decremented. *)
TakeOff_KeepsCount(cs) ==
  /\ Release(obj, [c \in Calls |-> IF c \in cs THEN None ELSE sessionList[c]],
             thread, disk)
  /\ UNCHANGED counter
\* Sessions leave the list; a thread may still hold them.
TakeOff(cs) ==
  /\ counter' = counter - Cardinality(Counted(cs))
  /\ Release(obj, [c \in Calls |-> IF c \in cs THEN None ELSE sessionList[c]],
             thread, disk)

RemoveSession(c) == c \in Listed /\ TakeOff({c})

\* The clock is not modelled: any session may be one whose audio was silent
\* for longer than the read timeout.
CollectInactiveSessions(cs) == cs # {} /\ TakeOff(cs)

\* The process dies without running a destructor, and recycleState() rebuilds
\* the sessions from their files.  One whose sockets cannot be reopened is
\* deleted, and its destructor removes the file.  A file that cannot be read
\* (one that the crash cut short) is passed over and stays in the directory: as
\* it brings nothing back, now or later, until a session of the same call writes
\* it anew, it counts as none.
CrashAndRecycle(back) ==
  \E place \in [back -> Objs] :
    /\ \A c, d \in back : place[c] = place[d] => c = d
    /\ obj' = [o \in Objs |->
                 IF \E c \in back : place[c] = o
                 THEN LET c == CHOOSE d \in back : place[d] = o
                      IN  [NewSession(c, FALSE) EXCEPT
                             !.file = ~Redis, !.answered = TRUE,
                             !.state = CHOOSE st \in disk[c] : TRUE]
                 ELSE None]
    /\ sessionList' = [c \in Calls |-> IF c \in back THEN place[c] ELSE None]
    /\ thread' = [t \in Threads |-> None]
    /\ disk' = [c \in Calls |-> IF c \in back THEN disk[c] ELSE {}]
    /\ counter' = 0

Next ==
  \/ \E t \in Threads, c \in Calls, rt \in RequestTypes : Find(t, c, rt)
  \/ \E t \in Threads, c \in Calls, rt \in RequestTypes, m \in BOOLEAN :
       Create(t, c, rt, m)
  \/ \E t \in Threads : Process(t)
  \/ \E c \in Calls : RemoveSession(c)
  \/ \E cs \in SUBSET Listed : CollectInactiveSessions(cs)
  \/ \E back \in SUBSET {c \in Calls : disk[c] # {}} : CrashAndRecycle(back)

Spec == Init /\ [][Next]_vars

-----------------------------------------------------------------------------
(* The references are sound: a listed object exists and is the session of   *)
(* that call, and a thread in handleSDP holds an object that exists.        *)
TypeOK ==
  /\ counter \in Nat
  /\ \A c \in Listed : sessionList[c] \in Live /\ obj[sessionList[c]].call = c
  /\ \A t \in Threads : thread[t] # None =>
       thread[t].obj \in Live /\ thread[t].rt \in RequestTypes
  /\ \A o \in Live : obj[o].state \in States

(* getSessionCount() is the number of listed sessions whose route is        *)
(* monitored, whatever creates, removes or collects them while others are   *)
(* at work.  The state file does not hold the route: a session that a       *)
(* restart brings back is no longer monitored, and is not counted.          *)
CountMatchesSessions == counter = Cardinality(Counted(Listed))

(* A restart brings no finished call back: a state file belongs to a session *)
(* that is listed or that a thread in handleSDP is still working on.         *)
StateFilesOwned ==
  \A c \in Calls : disk[c] # {} => \E o \in Live : obj[o].call = c

(* "recycling state would allow the previously affected streams to          *)
(* recontinue as if nothing happened" (RTPProxyManager.h): a listed session  *)
(* whose last offer was answered is negotiated, so that the next offer of    *)
(* the call is handled.                                                      *)
AnsweredIsNegotiated ==
  \A c \in Listed : obj[sessionList[c]].answered
                    => obj[sessionList[c]].state = "NEGOTIATED"
=============================================================================
