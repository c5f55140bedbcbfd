----------------------- MODULE RTPProxyManagerProofs -----------------------
(***************************************************************************)
(* For any number of threads, calls and session objects, any limit and     *)
(* either kind of store: the references are sound, the session counter is  *)
(* the number of listed monitored sessions, and every state file belongs   *)
(* to a session object that exists.                                        *)
(*                                                                         *)
(* The last is not inductive as it stands: an object that dies removes the *)
(* file only if it owns it.  Owned adds that the object that exists for    *)
(* the file is one whose destructor will remove it.                        *)
(***************************************************************************)
EXTENDS RTPProxyManager, FiniteSetTheorems, TLAPS

ObjType(objs) == objs \in [Objs -> Sessions \cup {None}]
ListType(list) == list \in [Calls -> Objs \cup {None}]
ThreadType(th) == th \in [Threads -> Visits \cup {None}]
DiskType(files) == files \in [Calls -> SUBSET States]

(* A listed object exists and is that call's; a thread's object exists.    *)
Sound(objs, list, th) ==
  /\ \A c \in Calls : list[c] # None => objs[list[c]] # None /\ objs[list[c]].call = c
  /\ \A t \in Threads : th[t] # None => objs[th[t].obj] # None

(* A state file has an object that will remove it.                         *)
Owned(objs, files) ==
  \A c \in Calls : files[c] # {} =>
    \E o \in Objs : objs[o] # None /\ objs[o].call = c /\ (Redis \/ objs[o].file)

IInv ==
  /\ ObjType(obj) /\ ListType(sessionList) /\ ThreadType(thread) /\ DiskType(disk)
  /\ Sound(obj, sessionList, thread)
  /\ Owned(obj, disk)
  /\ CountMatchesSessions

USE NoneAssumption, SetsAssumption, RedisAssumption, SessionMaxAssumption

-----------------------------------------------------------------------------
(* One call of handleSDP leaves a state of the session, and writes the     *)
(* state it found or nothing.                                              *)
LEMMA OutcomeTypes ==
  ASSUME NEW st \in States, NEW rt \in RequestTypes, NEW r \in Outcomes(st, rt)
  PROVE  r.state \in States /\ r.saved \in SUBSET States
<1>1. ASSUME rt \in Offers(st) PROVE Waiting(rt) \in States
  BY <1>1 DEF Offers, Waiting, States
<1>2. QED
  BY <1>1 DEF Outcomes, States

(* Releasing references keeps what the others refer to, and removes the    *)
(* files of what dies.                                                     *)
LEMMA ReleaseKeeps ==
  ASSUME NEW objs, NEW list, NEW th, NEW files,
         ObjType(objs), ListType(list), ThreadType(th), DiskType(files),
         Sound(objs, list, th), Owned(objs, files), Release(objs, list, th, files)
  PROVE  /\ ObjType(obj') /\ ListType(sessionList') /\ ThreadType(thread')
         /\ DiskType(disk') /\ Sound(obj', sessionList', thread') /\ Owned(obj', disk')
         /\ \A c \in Calls : list[c] # None => obj'[list[c]] = objs[list[c]]
<1> DEFINE dead == {o \in Objs : objs[o] # None} \ Held(list, th)
           wiped == {objs[o].call : o \in {d \in dead : Redis \/ objs[d].file}}
<1>1. /\ obj' = [o \in Objs |-> IF o \in dead THEN None ELSE objs[o]]
      /\ disk' = [c \in Calls |-> IF c \in wiped THEN {} ELSE files[c]]
      /\ sessionList' = list /\ thread' = th
  BY DEF Release
<1>2. ObjType(obj')
  BY <1>1 DEF ObjType
<1>3. ListType(sessionList') /\ ThreadType(thread')
  BY <1>1
<1>4. DiskType(disk')
  BY <1>1 DEF DiskType
<1>5. \A c \in Calls : list[c] # None => list[c] \in Objs /\ list[c] \notin dead
  BY DEF ListType, Held
<1>6. \A t \in Threads : th[t] # None => th[t].obj \in Objs /\ th[t].obj \notin dead
  BY DEF ThreadType, Visits, Held
<1>7. \A c \in Calls : list[c] # None => obj'[list[c]] = objs[list[c]]
  BY <1>1, <1>5
<1>8. \A t \in Threads : th[t] # None => obj'[th[t].obj] = objs[th[t].obj]
  BY <1>1, <1>6
<1>9. Sound(obj', sessionList', thread')
  BY <1>1, <1>7, <1>8 DEF Sound
<1>10. Owned(obj', disk')
  <2> SUFFICES ASSUME NEW c \in Calls, disk'[c] # {}
               PROVE  \E o \in Objs : obj'[o] # None /\ obj'[o].call = c
                                      /\ (Redis \/ obj'[o].file)
    BY DEF Owned
  <2>1. c \notin wiped /\ files[c] # {}
    BY <1>1
  <2>2. PICK o \in Objs : objs[o] # None /\ objs[o].call = c /\ (Redis \/ objs[o].file)
    BY <2>1 DEF Owned
  <2>3. o \notin dead
    BY <2>1, <2>2
  <2>4. obj'[o] = objs[o]
    BY <1>1, <2>3
  <2>5. QED
    BY <2>2, <2>4
<1>11. QED
  BY <1>2, <1>3, <1>4, <1>7, <1>9, <1>10

-----------------------------------------------------------------------------
(* The sessions of the list can be counted.                                *)
LEMMA CountedFinite ==
  ASSUME NEW S, S \subseteq Calls
  PROVE  IsFiniteSet(S) /\ Cardinality(S) \in Nat
BY FS_Subset, FS_CardinalityType

(* A manager that starts has no session, file or thread at work.           *)
LEMMA InitStep == Init => IInv
<1> SUFFICES ASSUME Init PROVE IInv
  OBVIOUS
<1>1. ObjType(obj) /\ ListType(sessionList) /\ ThreadType(thread) /\ DiskType(disk)
  BY DEF Init, ObjType, ListType, ThreadType, DiskType
<1>2. Sound(obj, sessionList, thread) /\ Owned(obj, disk)
  BY DEF Init, Sound, Owned
<1>3. Counted(Listed) = {}
  BY DEF Init, Counted, Listed
<1>4. CountMatchesSessions
  BY <1>3, FS_EmptySet DEF Init, CountMatchesSessions
<1>5. QED
  BY <1>1, <1>2, <1>4 DEF IInv

(* A thread finds the session of its call, and goes on with a reference.   *)
LEMMA FindStep ==
  ASSUME IInv, NEW t \in Threads, NEW c \in Calls, NEW rt \in RequestTypes, Find(t, c, rt)
  PROVE  IInv'
<1> DEFINE v == [obj |-> sessionList[c], rt |-> rt]
<1>1. v \in Visits /\ obj[v.obj] # None /\ v # None
  BY DEF Find, Listed, IInv, ListType, Visits, Sound
<1>2. thread' = [thread EXCEPT ![t] = v] /\ UNCHANGED <<obj, sessionList, disk, counter>>
  BY DEF Find
<1> HIDE DEF v
<1>3. ThreadType(thread)'
  BY <1>1, <1>2 DEF IInv, ThreadType
<1>4. Sound(obj, sessionList, thread)'
  BY <1>1, <1>2 DEF IInv, Sound, ThreadType
<1>5. CountMatchesSessions'
  BY <1>2 DEF IInv, CountMatchesSessions, Counted, Listed
<1>6. QED
  BY <1>2, <1>3, <1>4, <1>5 DEF IInv, ObjType, ListType, DiskType, Owned

(* A thread adds a session, when the limit allows it, and counts it.       *)
LEMMA CreateStep ==
  ASSUME IInv, NEW t \in Threads, NEW c \in Calls, NEW rt \in RequestTypes,
         NEW m \in BOOLEAN, Create(t, c, rt, m)
  PROVE  IInv'
<1> DEFINE n == NewSession(c, m)
<1>1. PICK o \in Objs \ Live :
        /\ obj' = [obj EXCEPT ![o] = n]
        /\ sessionList' = [sessionList EXCEPT ![c] = o]
        /\ thread' = [thread EXCEPT ![t] = [obj |-> o, rt |-> rt]]
  BY Zenon DEF Create
<1>2. n \in Sessions /\ n # None /\ n.call = c /\ n.monitored = m
  <2>1. n \in Sessions
    BY DEF NewSession, Sessions, States
  <2>2. n.call = c /\ n.monitored = m
    BY DEF NewSession
  <2>3. QED
    BY <2>1, <2>2
<1>3. obj[o] = None /\ o \in Objs /\ o # None
  BY <1>1 DEF Live
<1>4. [obj |-> o, rt |-> rt] \in Visits /\ [obj |-> o, rt |-> rt] # None
  BY <1>3 DEF Visits
<1>5. disk' = disk /\ counter' = (IF m THEN counter + 1 ELSE counter) /\ c \notin Listed
  BY DEF Create
<1> HIDE DEF n
<1>6. ObjType(obj') /\ ListType(sessionList') /\ DiskType(disk')
  BY <1>1, <1>2, <1>3, <1>5 DEF IInv, ObjType, ListType, DiskType
<1>7. ThreadType(thread')
  BY <1>1, <1>4 DEF IInv, ThreadType
<1>8. obj'[o] = n /\ \A q \in Objs : q # o => obj'[q] = obj[q]
  BY <1>1, <1>3 DEF IInv, ObjType
<1>9. \A d \in Calls : sessionList[d] # None => sessionList[d] # o /\ obj'[sessionList[d]] = obj[sessionList[d]]
  BY <1>3, <1>8 DEF IInv, Sound, ListType
<1>10. sessionList'[c] = o /\ \A d \in Calls : d # c => sessionList'[d] = sessionList[d]
  BY <1>1 DEF IInv, ListType
<1>11. Sound(obj', sessionList', thread')
  <2>1. \A d \in Calls : sessionList'[d] # None
           => obj'[sessionList'[d]] # None /\ obj'[sessionList'[d]].call = d
    BY <1>2, <1>8, <1>9, <1>10 DEF IInv, Sound
  <2>2. ASSUME NEW u \in Threads, thread'[u] # None PROVE obj'[thread'[u].obj] # None
    <3>1. CASE u = t
      BY <1>1, <1>2, <1>8, <3>1 DEF IInv, ThreadType
    <3>2. CASE u # t
      <4>1. thread'[u] = thread[u]
        BY <1>1, <3>2 DEF IInv, ThreadType
      <4>2. thread[u].obj \in Objs /\ obj[thread[u].obj] # None
        BY <2>2, <4>1 DEF IInv, ThreadType, Sound, Visits
      <4>3. QED
        BY <1>3, <1>8, <4>1, <4>2
    <3>3. QED
      BY <3>1, <3>2
  <2>3. QED
    BY <2>1, <2>2 DEF Sound
<1>12. Owned(obj', disk')
  BY <1>3, <1>5, <1>8 DEF IInv, Owned
<1>13. Counted(Listed)' = IF m THEN Counted(Listed) \cup {c} ELSE Counted(Listed)
  <2>1. Listed' = Listed \cup {c}
    BY <1>3, <1>10 DEF Listed
  <2>2. \A d \in Listed : obj'[sessionList'[d]].monitored = obj[sessionList[d]].monitored
    BY <1>5, <1>9, <1>10 DEF Listed
  <2>3. obj'[sessionList'[c]].monitored = m
    BY <1>2, <1>8, <1>10
  <2>4. QED
    BY <2>1, <2>2, <2>3 DEF Counted
<1>14. CountMatchesSessions'
  <2>1. IsFiniteSet(Counted(Listed)) /\ c \notin Counted(Listed)
    BY <1>5, CountedFinite DEF Counted, Listed
  <2>2. Cardinality(Counted(Listed) \cup {c}) = Cardinality(Counted(Listed)) + 1
    BY Zenon, <2>1, FS_AddElement
  <2>3. QED
    BY <1>5, <1>13, <2>2 DEF IInv, CountMatchesSessions
<1>15. QED
  BY <1>6, <1>7, <1>11, <1>12, <1>14 DEF IInv

(* A thread handles the SDP, writes the state file and drops its           *)
(* reference.                                                              *)
LEMMA ProcessStep ==
  ASSUME IInv, NEW t \in Threads, Process(t)
  PROVE  IInv'
<1> DEFINE o == thread[t].obj
           th == [thread EXCEPT ![t] = None]
<1>1. /\ o \in Objs /\ thread[t].rt \in RequestTypes /\ obj[o] # None
      /\ thread[t] # None
  BY DEF Process, IInv, ThreadType, Sound, Visits
<1>2. obj[o] \in Sessions
  BY <1>1 DEF IInv, ObjType
<1>3. obj[o].state \in States /\ obj[o].call \in Calls
  BY <1>2 DEF Sessions
<1>4. PICK r \in Outcomes(obj[o].state, thread[t].rt) :
        LET moved == r.state # obj[o].state
            now == [obj[o] EXCEPT
                      !.state = r.state, !.file = @ \/ r.saved # {},
                      !.answered = IF moved THEN r.state = "NEGOTIATED" ELSE @]
            files == IF r.saved = {} THEN disk
                     ELSE [disk EXCEPT ![obj[o].call] = r.saved]
        IN  Release([obj EXCEPT ![o] = now], sessionList, th, files)
  BY Zenon DEF Process
<1> DEFINE moved == r.state # obj[o].state
           now == [obj[o] EXCEPT
                     !.state = r.state, !.file = @ \/ r.saved # {},
                     !.answered = IF moved THEN r.state = "NEGOTIATED" ELSE @]
           files == IF r.saved = {} THEN disk
                    ELSE [disk EXCEPT ![obj[o].call] = r.saved]
           objs == [obj EXCEPT ![o] = now]
<1>5. r.state \in States /\ r.saved \in SUBSET States
  BY <1>1, <1>3, <1>4, OutcomeTypes
<1>6. now \in Sessions
  BY Zenon, <1>2, <1>5 DEF Sessions
<1>7. now.call = obj[o].call /\ now.monitored = obj[o].monitored
      /\ now.file = (obj[o].file \/ r.saved # {})
  BY <1>2 DEF Sessions
<1>8. now # None
  BY <1>6
<1>9. Release(objs, sessionList, th, files)
  BY <1>4
<1>10. th \in [Threads -> Visits \cup {None}] /\ th[t] = None
       /\ \A u \in Threads : u # t => th[u] = thread[u]
  BY DEF IInv, ThreadType
<1>11. files \in [Calls -> SUBSET States]
       /\ \A c \in Calls : files[c] # {} => disk[c] # {} \/ (c = obj[o].call /\ r.saved # {})
  BY <1>3, <1>5 DEF IInv, DiskType
<1> HIDE DEF now, files, th
<1>12. objs[o] = now /\ \A q \in Objs : q # o => objs[q] = obj[q]
  BY <1>1 DEF IInv, ObjType
<1>13. ObjType(objs)
  BY <1>1, <1>6 DEF IInv, ObjType
<1> HIDE DEF objs, o
<1>14. \A q \in Objs : obj[q] # None => objs[q] # None /\ objs[q].call = obj[q].call
                                        /\ objs[q].monitored = obj[q].monitored
  BY <1>7, <1>8, <1>12
<1>15. \A q \in Objs : obj[q].file => q = o \/ objs[q].file
  BY <1>12
<1>16. Sound(objs, sessionList, th)
  <2>1. \A c \in Calls : sessionList[c] # None => sessionList[c] \in Objs
    BY DEF IInv, ListType
  <2>2. \A u \in Threads : th[u] # None => thread[u] # None /\ thread[u].obj \in Objs
                                          /\ th[u] = thread[u]
    BY <1>10 DEF IInv, ThreadType, Visits
  <2>3. QED
    BY <1>14, <2>1, <2>2 DEF IInv, Sound
<1>17. Owned(objs, files)
  <2> SUFFICES ASSUME NEW c \in Calls, files[c] # {}
               PROVE  \E q \in Objs : objs[q] # None /\ objs[q].call = c
                                      /\ (Redis \/ objs[q].file)
    BY DEF Owned
  <2>1. CASE c = obj[o].call /\ r.saved # {}
    BY Zenon, <1>1, <1>7, <1>8, <1>12, <2>1
  <2>2. CASE disk[c] # {}
    <3>1. PICK q \in Objs : obj[q] # None /\ obj[q].call = c /\ (Redis \/ obj[q].file)
      BY <2>2 DEF IInv, Owned
    <3>2. Redis \/ objs[q].file
      BY Zenon, <1>7, <1>12, <3>1
    <3>3. QED
      BY <1>14, <3>1, <3>2
  <2>3. QED
    BY <1>11, <2>1, <2>2
<1>18. /\ ListType(sessionList) /\ ThreadType(th) /\ DiskType(files)
  BY <1>10, <1>11 DEF IInv, ThreadType, DiskType
<1>19. /\ ObjType(obj') /\ ListType(sessionList') /\ ThreadType(thread')
       /\ DiskType(disk') /\ Sound(obj', sessionList', thread') /\ Owned(obj', disk')
       /\ \A c \in Calls : sessionList[c] # None => obj'[sessionList[c]] = objs[sessionList[c]]
  BY <1>9, <1>13, <1>16, <1>17, <1>18, ReleaseKeeps
<1>20. sessionList' = sessionList /\ counter' = counter
  BY Zenon, <1>9 DEF Release, Process
<1>21. \A c \in Calls : sessionList[c] # None =>
         obj'[sessionList'[c]].monitored = obj[sessionList[c]].monitored
  <2>1. \A c \in Calls : sessionList[c] # None => sessionList[c] \in Objs /\ obj[sessionList[c]] # None
    BY DEF IInv, ListType, Sound
  <2>2. QED
    BY <1>14, <1>19, <1>20, <2>1
<1>22. Counted(Listed)' = Counted(Listed)
  BY <1>20, <1>21 DEF Counted, Listed
<1>23. QED
  BY <1>19, <1>20, <1>22 DEF IInv, CountMatchesSessions

(* Taking sessions off the list decrements the counter once for each       *)
(* monitored one.                                                          *)
LEMMA TakeOffStep ==
  ASSUME IInv, NEW cs, cs \subseteq Listed, TakeOff(cs)
  PROVE  IInv'
<1> DEFINE list == [c \in Calls |-> IF c \in cs THEN None ELSE sessionList[c]]
<1>1. Release(obj, list, thread, disk) /\ counter' = counter - Cardinality(Counted(cs))
  BY DEF TakeOff
<1>2. ListType(list)
  BY DEF IInv, ListType
<1>3. Sound(obj, list, thread)
  BY DEF IInv, Sound
<1>4. \A c \in Calls : list[c] = IF c \in cs THEN None ELSE sessionList[c]
  OBVIOUS
<1> HIDE DEF list
<1>5. /\ ObjType(obj') /\ ListType(sessionList') /\ ThreadType(thread')
      /\ DiskType(disk') /\ Sound(obj', sessionList', thread') /\ Owned(obj', disk')
      /\ \A c \in Calls : list[c] # None => obj'[list[c]] = obj[list[c]]
  BY <1>1, <1>2, <1>3, ReleaseKeeps DEF IInv
<1>6. sessionList' = list
  BY <1>1 DEF Release
<1>7. Listed' = Listed \ cs
  BY <1>4, <1>6 DEF Listed
<1>8. \A c \in Listed' : obj'[sessionList'[c]] = obj[sessionList[c]]
  <2> SUFFICES ASSUME NEW c \in Listed' PROVE obj'[sessionList'[c]] = obj[sessionList[c]]
    OBVIOUS
  <2>1. c \in Calls /\ list[c] # None /\ list[c] = sessionList[c]
    BY <1>4, <1>6 DEF Listed
  <2>2. QED
    BY <1>5, <1>6, <2>1
<1>9. Counted(Listed)' = Counted(Listed) \ Counted(cs)
  BY <1>7, <1>8 DEF Counted
<1>10. Counted(Listed) \cap Counted(cs) = Counted(cs)
  BY DEF Counted
<1>11. Counted(Listed) \subseteq Calls /\ Counted(cs) \subseteq Calls
  BY DEF Counted, Listed
<1>12. IsFiniteSet(Counted(Listed))
  BY <1>11, CountedFinite
<1>13. Cardinality(Counted(Listed)') = Cardinality(Counted(Listed)) - Cardinality(Counted(cs))
  BY ZenonT(30), <1>9, <1>10, <1>12, FS_Difference
<1>14. CountMatchesSessions'
  BY <1>1, <1>13 DEF IInv, CountMatchesSessions
<1>15. QED
  BY <1>5, <1>14 DEF IInv

(* A restart: every session that comes back has its file, and none counts. *)
LEMMA CrashStep ==
  ASSUME IInv, NEW back, back \subseteq {c \in Calls : disk[c] # {}}, CrashAndRecycle(back)
  PROVE  IInv'
<1>1. PICK place \in [back -> Objs] :
        /\ \A c, d \in back : place[c] = place[d] => c = d
        /\ obj' = [o \in Objs |->
                     IF \E c \in back : place[c] = o
                     THEN LET c == CHOOSE d \in back : place[d] = o
                          IN  [NewSession(c, FALSE) EXCEPT
                                 !.file = ~Redis, !.answered = TRUE,
                                 !.state = CHOOSE st \in disk[c] : TRUE]
                     ELSE None]
        /\ sessionList' = [c \in Calls |-> IF c \in back THEN place[c] ELSE None]
        /\ thread' = [t \in Threads |-> None]
        /\ disk' = [c \in Calls |-> IF c \in back THEN disk[c] ELSE {}]
        /\ counter' = 0
  BY Zenon DEF CrashAndRecycle
<1> DEFINE first(c) == CHOOSE st \in disk[c] : TRUE
           again(c) == [NewSession(c, FALSE) EXCEPT
                          !.file = ~Redis, !.answered = TRUE, !.state = first(c)]
<1>2. \A c \in back : c \in Calls /\ place[c] \in Objs /\ first(c) \in States
  <2> SUFFICES ASSUME NEW c \in back PROVE c \in Calls /\ place[c] \in Objs /\ first(c) \in States
    OBVIOUS
  <2>1. c \in Calls /\ disk[c] # {} /\ disk[c] \subseteq States
    BY DEF IInv, DiskType
  <2>2. first(c) \in disk[c]
    BY <2>1
  <2>3. QED
    BY Zenon, <1>1, <2>1, <2>2
<1>3. \A o \in Objs : (\E c \in back : place[c] = o)
        => (CHOOSE d \in back : place[d] = o) \in back
           /\ place[CHOOSE d \in back : place[d] = o] = o
  OBVIOUS
<1> HIDE DEF first
<1>4. \A c \in back : again(c) \in Sessions /\ again(c).call = c
         /\ again(c).file = ~Redis /\ again(c).monitored = FALSE
  BY Zenon, <1>2 DEF NewSession, Sessions
<1>5. \A c \in back : again(c) # None
  BY ZenonT(30), <1>4
<1>6. \A o \in Objs : obj'[o] = IF \E c \in back : place[c] = o
                                THEN again(CHOOSE d \in back : place[d] = o) ELSE None
  BY Zenon, <1>1 DEF first
<1> HIDE DEF again
<1>7. \A c \in back : obj'[place[c]] = again(c)
  <2> SUFFICES ASSUME NEW c \in back PROVE obj'[place[c]] = again(c)
    OBVIOUS
  <2> DEFINE d == CHOOSE e \in back : place[e] = place[c]
  <2>1. d \in back /\ place[d] = place[c]
    BY SMTT(30), <1>2, <1>3
  <2>2. d = c
    BY Zenon, <1>1, <2>1
  <2>3. QED
    BY <1>2, <1>6, <2>2
<1>8. ObjType(obj')
  <2>1. \A o \in Objs : obj'[o] \in Sessions \cup {None}
    BY SMTT(30), <1>3, <1>4, <1>6
  <2>2. obj' = [o \in Objs |-> obj'[o]]
    BY ZenonT(30), <1>1
  <2>3. QED
    BY <2>1, <2>2 DEF ObjType
<1>9. ListType(sessionList') /\ ThreadType(thread') /\ DiskType(disk')
  BY ZenonT(30), <1>1, <1>2 DEF IInv, ListType, ThreadType, DiskType
<1>10. \A c \in Calls : sessionList'[c] # None => c \in back /\ sessionList'[c] = place[c]
  BY Zenon, <1>1
<1>11. Sound(obj', sessionList', thread')
  <2>1. ASSUME NEW c \in Calls, sessionList'[c] # None
        PROVE  obj'[sessionList'[c]] # None /\ obj'[sessionList'[c]].call = c
    <3>1. c \in back /\ obj'[sessionList'[c]] = again(c)
      BY SMTT(30), <1>7, <1>10, <2>1
    <3>2. QED
      BY <1>4, <1>5, <3>1
  <2>2. \A t \in Threads : thread'[t] = None
    BY Zenon, <1>1
  <2>3. QED
    BY <2>1, <2>2 DEF Sound
<1>12. Owned(obj', disk')
  <2> SUFFICES ASSUME NEW c \in Calls, disk'[c] # {}
               PROVE  \E q \in Objs : obj'[q] # None /\ obj'[q].call = c
                                      /\ (Redis \/ obj'[q].file)
    BY SMTT(30) DEF Owned
  <2>1. c \in back
    BY Zenon, <1>1
  <2>2. place[c] \in Objs /\ obj'[place[c]] = again(c)
    BY <1>2, <1>7, <2>1
  <2>3. again(c) # None /\ again(c).call = c /\ (Redis \/ again(c).file)
    BY Zenon, <1>4, <1>5, <2>1
  <2>4. QED
    BY <2>2, <2>3
<1>13. Counted(Listed)' = {}
  BY <1>4, <1>7, <1>10 DEF Counted, Listed
<1>14. CountMatchesSessions'
  BY Zenon, <1>1, <1>13, FS_EmptySet DEF CountMatchesSessions
<1>15. QED
  BY <1>8, <1>9, <1>11, <1>12, <1>14 DEF IInv

-----------------------------------------------------------------------------
(* IInv is an invariant of the session manager, restarts included.         *)
THEOREM Invariance == Spec => []IInv
<1>1. ASSUME IInv, [Next]_vars PROVE IInv'
  <2>1. CASE UNCHANGED vars
    BY <1>1, <2>1 DEF vars, IInv, ObjType, ListType, ThreadType, DiskType, Sound, Owned,
                      CountMatchesSessions, Counted, Listed
  <2>2. ASSUME NEW t \in Threads, NEW c \in Calls, NEW rt \in RequestTypes, Find(t, c, rt)
        PROVE  IInv'
    BY <1>1, <2>2, FindStep
  <2>3. ASSUME NEW t \in Threads, NEW c \in Calls, NEW rt \in RequestTypes,
               NEW m \in BOOLEAN, Create(t, c, rt, m)
        PROVE  IInv'
    BY <1>1, <2>3, CreateStep
  <2>4. ASSUME NEW t \in Threads, Process(t) PROVE IInv'
    BY <1>1, <2>4, ProcessStep
  <2>5. ASSUME NEW c \in Calls, RemoveSession(c) PROVE IInv'
    <3>1. {c} \subseteq Listed /\ TakeOff({c})
      BY <2>5 DEF RemoveSession
    <3>2. QED
      BY <1>1, <3>1, TakeOffStep
  <2>6. ASSUME NEW cs \in SUBSET Listed, CollectInactiveSessions(cs) PROVE IInv'
    <3>1. cs \subseteq Listed /\ TakeOff(cs)
      BY <2>6 DEF CollectInactiveSessions
    <3>2. QED
      BY <1>1, <3>1, TakeOffStep
  <2>7. ASSUME NEW back \in SUBSET {c \in Calls : disk[c] # {}}, CrashAndRecycle(back)
        PROVE  IInv'
    <3>1. back \subseteq {c \in Calls : disk[c] # {}}
      OBVIOUS
    <3>2. QED
      BY <1>1, <2>7, <3>1, CrashStep
  <2>8. QED
    BY <1>1, <2>1, <2>2, <2>3, <2>4, <2>5, <2>6, <2>7 DEF Next
<1>2. QED
  BY <1>1, InitStep, PTL DEF Spec

(* handleSDP() never works on a session object that has been destroyed: the *)
(* list and the threads refer to live objects, and the counter of sessions  *)
(* never goes below zero.                                                   *)
THEOREM TypeCorrect == Spec => []TypeOK
<1>1. ASSUME IInv PROVE TypeOK
  <2>1. Counted(Listed) \subseteq Calls
    BY DEF Counted, Listed
  <2>2. counter \in Nat
    BY <1>1, <2>1, CountedFinite DEF IInv, CountMatchesSessions
  <2>3. \A c \in Listed : sessionList[c] \in Live /\ obj[sessionList[c]].call = c
    BY <1>1 DEF IInv, ListType, Sound, Listed, Live
  <2>4. \A t \in Threads : thread[t] # None =>
          thread[t].obj \in Live /\ thread[t].rt \in RequestTypes
    BY <1>1 DEF IInv, ThreadType, Visits, Sound, Live
  <2>5. \A o \in Live : obj[o].state \in States
    BY <1>1 DEF IInv, ObjType, Sessions, Live
  <2>6. QED
    BY <2>2, <2>3, <2>4, <2>5 DEF TypeOK
<1>2. QED
  BY <1>1, Invariance, PTL

(* getSessionCount() counts the listed sessions of the monitored route, for *)
(* any interleaving of creation, removal, collection and restart.           *)
THEOREM CountMatchesSessionsHolds == Spec => []CountMatchesSessions
<1>1. IInv => CountMatchesSessions
  BY DEF IInv
<1>2. QED
  BY <1>1, Invariance, PTL

(* A state file always belongs to a session object that exists, so that a   *)
(* restart after a crash brings no finished call back.                      *)
THEOREM StateFilesOwnedHolds == Spec => []StateFilesOwned
<1>1. IInv => StateFilesOwned
  BY DEF IInv, Owned, StateFilesOwned, Live
<1>2. QED
  BY <1>1, Invariance, PTL

=============================================================================
