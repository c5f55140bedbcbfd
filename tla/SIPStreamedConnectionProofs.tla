--------------------- MODULE SIPStreamedConnectionProofs ---------------------
(* For any number of connections and transactions, and any limit on failed    *)
(* reads: types, ListedIsReading and DelayedGoesFirst.                        *)
(*                                                                            *)
(* The invariants are about one connection at a time.  What makes them        *)
(* inductive is that a client connection that has not started is untouched    *)
(* by reads, writes and stops (Unstarted), and that a transaction past        *)
(* _pendingMutex holds a connection that has started (Passed).                *)
EXTENDS SIPStreamedConnection, TLAPS

(* Nothing was read from or written to a client connection that has not       *)
(* started, and only a failed handshake, which leaves no operation, stops it. *)
Unstarted(k) ==
  k.kind # "server" /\ ~k.started =>
    /\ k.wire = "nothing" /\ k.read = "none" /\ ~k.listed
    /\ k.pending = k.delayed
    /\ k.stopping => k.op = "none"

(* A started connection is a client's; it wrote the delayed message.          *)
Started(k) ==
  k.started =>
    /\ k.kind = "client" /\ k.op = "none" /\ ~k.pending
    /\ k.delayed => k.wire = "delayed"

(* Connecting is done by clients, before the start; an unused connection does *)
(* nothing; a server delays nothing.                                          *)
Kinds(k) ==
  /\ k.op = "connect" => k.kind = "client" /\ ~k.started
  /\ k.kind = "unused" => k.op = "none"
  /\ k.kind = "server" => ~k.pending /\ ~k.delayed

(* A read waits for data only on an open connection that does not stop; the   *)
(* limit on failed reads is reached only in the step that stops it.           *)
Reads(k) ==
  /\ k.read = "wait" => k.open /\ ~k.stopping
  /\ ~k.stopping => k.errors < MaxReadErrors

(* ListedIsReading for one connection.                                        *)
Listed(k) ==
  LET reads == k.read # "none" \/ (k.kind = "server" /\ k.op = "handshake")
  IN  /\ k.listed => reads /\ ~k.stopping
      /\ reads /\ ~k.stopping /\ k.open => k.listed

ConnOK(k) ==
  /\ k \in Connections
  /\ Unstarted(k) /\ Started(k) /\ Kinds(k) /\ Reads(k) /\ Listed(k)

(* A transaction that writes holds a connection that was created; past        *)
(* _pendingMutex, a client's has started.                                     *)
Passed ==
  \A x \in Trans :
    LET t == trans[x]
    IN  /\ t.step \in {"write", "raw"} => t.transport # None
        /\ t.answers /\ t.step = "idle" => t.transport # None
        /\ t.transport # None => conn[t.transport].kind # "unused"
        /\ t.step = "raw" /\ conn[t.transport].kind = "client"
             => conn[t.transport].started

IInv ==
  /\ tls \in BOOLEAN
  /\ conn \in [Conns -> Connections]
  /\ trans \in [Trans -> Transactions]
  /\ \A c \in Conns : ConnOK(conn[c])
  /\ Passed
------------------------------------------------------------------------------
(* What a step of one connection must respect: it stays correct, keeps its    *)
(* kind once it has one, and does not go back before its start.               *)
Later(k, n) ==
  /\ ConnOK(n)
  /\ k.kind = "unused" \/ n.kind = k.kind
  /\ k.started => n.started

USE MaxReadErrorsAssumption, NoneAssumption

(* Stopping a connection that has started, is a server's, or whose handshake  *)
(* failed.                                                                    *)
LEMMA StopLater ==
  ASSUME NEW k \in Connections, Unstarted(k), Started(k), Kinds(k),
         k.started \/ k.kind = "server" \/ k.op = "none"
  PROVE  /\ ConnOK(StopConnection(k))
         /\ StopConnection(k).kind = k.kind
         /\ StopConnection(k).started = k.started
<1>1. StopConnection(k) \in Connections
  BY ZenonT(30) DEF StopConnection, ManagerStop, Aborted, Connections, Results
<1>2. Unstarted(StopConnection(k))
  BY DEF StopConnection, ManagerStop, Aborted, Connections, Unstarted
<1>3. Started(StopConnection(k))
  BY DEF StopConnection, ManagerStop, Aborted, Connections, Started
<1>4. Kinds(StopConnection(k))
  BY DEF StopConnection, ManagerStop, Aborted, Connections, Kinds
<1>5. Reads(StopConnection(k)) /\ Listed(StopConnection(k))
  BY DEF StopConnection, ManagerStop, Aborted, Connections, Reads, Listed
<1>6. QED
  BY <1>1, <1>2, <1>3, <1>4, <1>5 DEF ConnOK, StopConnection, ManagerStop, Aborted, Connections

(* The manager's stop() of any connection.                                    *)
LEMMA ManagerStopLater ==
  ASSUME NEW k \in Connections, ConnOK(k)
  PROVE  Later(k, ManagerStop(k))
<1>1. ManagerStop(k) \in Connections
  BY ZenonT(30) DEF ManagerStop, Aborted, Connections, Results
<1>2. Unstarted(ManagerStop(k)) /\ Started(ManagerStop(k))
  BY DEF ConnOK, ManagerStop, Aborted, Connections, Unstarted, Started
<1>3. Kinds(ManagerStop(k))
  BY DEF ConnOK, ManagerStop, Aborted, Connections, Kinds
<1>4. Reads(ManagerStop(k)) /\ Listed(ManagerStop(k))
  BY DEF ConnOK, ManagerStop, Aborted, Connections, Reads, Listed
<1>5. ManagerStop(k).kind = k.kind /\ ManagerStop(k).started = k.started
  BY DEF ManagerStop, Aborted, Connections
<1>6. QED
  BY <1>1, <1>2, <1>3, <1>4, <1>5 DEF ConnOK, Later

(* Starting a client whose connect or handshake is done.                      *)
LEMMA StartClientLater ==
  ASSUME NEW k \in Connections, Unstarted(k), Kinds(k), Reads(k),
         k.kind = "client", ~k.started, ~k.stopping, k.op = "none"
  PROVE  /\ ConnOK(Start(k))
         /\ Start(k).kind = "client"
<1>1. Start(k) \in Connections
  BY ZenonT(30) DEF Start, ReadSome, Written, Connections
<1>2. Unstarted(Start(k)) /\ Started(Start(k))
  BY DEF Start, ReadSome, Written, Connections, Unstarted, Started
<1>3. Kinds(Start(k)) /\ Reads(Start(k)) /\ Listed(Start(k))
  BY DEF Start, ReadSome, Written, Connections, Kinds, Reads, Listed
<1>4. QED
  BY <1>1, <1>2, <1>3 DEF ConnOK, Start, ReadSome, Written, Connections

(* A failed read of a connection that reads.                                  *)
LEMMA ReadErrorLater ==
  ASSUME NEW k \in Connections, ConnOK(k), k.read # "none", ~k.stopping, NEW eof \in BOOLEAN
  PROVE  Later(k, ReadError(k, eof))
<1> DEFINE failed == [k EXCEPT !.errors = @ + 1, !.read = "none"]
<1>1. k.started \/ k.kind = "server"
  BY DEF ConnOK, Unstarted
<1>2. failed \in Connections
  <2>1. k.errors \in 0 .. MaxReadErrors /\ k.errors < MaxReadErrors
    BY DEF ConnOK, Reads, Connections
  <2>2. k.errors + 1 \in 0 .. MaxReadErrors
    BY <2>1
  <2>3. QED
    BY Zenon, <2>2 DEF Connections
<1>3. Unstarted(failed) /\ Started(failed) /\ Kinds(failed)
  BY <1>1 DEF ConnOK, Connections, Unstarted, Started, Kinds
<1>4. failed.kind = k.kind /\ failed.started = k.started
  BY DEF Connections
<1>5. CASE failed.errors < MaxReadErrors /\ ~eof
  <2>1. ReadError(k, eof) = ReadSome(failed)
    BY <1>5 DEF ReadError
  <2>2. ReadSome(failed) \in Connections
    BY Zenon, <1>2 DEF ReadSome, Connections
  <2>3. Unstarted(ReadSome(failed)) /\ Started(ReadSome(failed)) /\ Kinds(ReadSome(failed))
    BY <1>1, <1>2, <1>3, <1>4 DEF ReadSome, Connections, Unstarted, Started, Kinds
  <2>4. Reads(ReadSome(failed)) /\ Listed(ReadSome(failed))
    BY <1>5, <1>2 DEF ConnOK, ReadSome, Connections, Reads, Listed
  <2>5. ReadSome(failed).kind = k.kind /\ ReadSome(failed).started = k.started
    BY DEF ReadSome, Connections
  <2>6. QED
    BY <2>1, <2>2, <2>3, <2>4, <2>5 DEF ConnOK, Later
<1>6. CASE ~(failed.errors < MaxReadErrors /\ ~eof)
  <2>1. ReadError(k, eof) = StopConnection(failed)
    BY <1>6 DEF ReadError
  <2>2. QED
    BY Zenon, <1>1, <1>2, <1>3, <1>4, <2>1, StopLater DEF Later
<1>7. QED
  BY <1>5, <1>6

(* A step of one connection that leaves the transactions alone keeps IInv.    *)
LEMMA OneConnection ==
  ASSUME IInv, NEW c \in Conns, NEW n, Later(conn[c], n),
         conn' = [conn EXCEPT ![c] = n], UNCHANGED <<tls, trans>>
  PROVE  IInv'
<1>1. n \in Connections
  BY DEF Later, ConnOK
<1>2. conn' \in [Conns -> Connections] /\ \A d \in Conns : ConnOK(conn'[d])
  BY <1>1 DEF IInv, Later
<1>3. Passed'
  <2> SUFFICES ASSUME NEW x \in Trans, trans[x].transport # None
               PROVE  /\ conn'[trans[x].transport].kind # "unused"
                      /\ trans[x].step = "raw" /\ conn'[trans[x].transport].kind = "client"
                           => conn'[trans[x].transport].started
    BY DEF IInv, Passed
  <2>1. trans[x].transport \in Conns
    BY DEF IInv, Transactions
  <2>2. conn[trans[x].transport].kind # "unused"
    BY DEF IInv, Passed
  <2>3. /\ conn'[trans[x].transport].kind = conn[trans[x].transport].kind
        /\ conn[trans[x].transport].started => conn'[trans[x].transport].started
    BY <2>1, <2>2 DEF IInv, Later
  <2>4. QED
    BY <2>2, <2>3 DEF IInv, Passed
<1>4. QED
  BY <1>2, <1>3 DEF IInv

(* A step of the transactions that leaves the connections alone.              *)
LEMMA OneTransaction ==
  ASSUME IInv, NEW x \in Trans, NEW n \in Transactions, UNCHANGED <<tls, conn>>,
         trans' = [trans EXCEPT ![x] = n],
         n.step \in {"write", "raw"} => n.transport # None,
         n.answers /\ n.step = "idle" => n.transport # None,
         n.transport # None => conn[n.transport].kind # "unused",
         n.step = "raw" /\ conn[n.transport].kind = "client" => conn[n.transport].started
  PROVE  IInv'
<1>1. trans' \in [Trans -> Transactions]
  BY DEF IInv
<1>2. Passed'
  BY DEF IInv, Passed
<1>3. QED
  BY <1>1, <1>2 DEF IInv

(* A step of one connection and one transaction.                              *)
LEMMA OneOfEach ==
  ASSUME IInv, NEW c \in Conns, NEW k, Later(conn[c], k), UNCHANGED tls,
         conn' = [conn EXCEPT ![c] = k],
         NEW x \in Trans, NEW n \in Transactions, trans' = [trans EXCEPT ![x] = n],
         n.step \in {"write", "raw"} => n.transport # None,
         n.answers /\ n.step = "idle" => n.transport # None,
         n.transport # None => conn'[n.transport].kind # "unused",
         n.step # "raw"
  PROVE  IInv'
<1>1. k \in Connections
  BY DEF Later, ConnOK
<1>2. conn' \in [Conns -> Connections] /\ \A d \in Conns : ConnOK(conn'[d])
  BY <1>1 DEF IInv, Later
<1>3. trans' \in [Trans -> Transactions]
  BY DEF IInv
<1>4. Passed'
  <2> SUFFICES ASSUME NEW y \in Trans, y # x, trans[y].transport # None
               PROVE  /\ conn'[trans[y].transport].kind # "unused"
                      /\ trans[y].step = "raw" /\ conn'[trans[y].transport].kind = "client"
                           => conn'[trans[y].transport].started
    BY DEF IInv, Passed
  <2>1. trans[y].transport \in Conns
    BY DEF IInv, Transactions
  <2>2. conn[trans[y].transport].kind # "unused"
    BY DEF IInv, Passed
  <2>3. /\ conn'[trans[y].transport].kind = conn[trans[y].transport].kind
        /\ conn[trans[y].transport].started => conn'[trans[y].transport].started
    BY <2>1, <2>2 DEF IInv, Later
  <2>4. QED
    BY <2>2, <2>3 DEF IInv, Passed
<1>5. QED
  BY <1>2, <1>3, <1>4 DEF IInv

------------------------------------------------------------------------------
(* The steps of connections.                                                  *)

(* Operations complete and the connect deadline passes.                    *)
LEMMA EnvironmentStep ==
  ASSUME IInv, NEW c \in Conns,
         OperationCompletes(c) \/ DeadlineExpires(c) \/ HandleConnectTimeout(c)
  PROVE  IInv'
<1>0. conn[c] \in Connections /\ ConnOK(conn[c])
  BY DEF IInv
<1>1. CASE OperationCompletes(c)
  <2>1. PICK r \in Results : conn' = [conn EXCEPT ![c].opResult = r]
    BY Zenon, <1>1 DEF OperationCompletes
  <2> DEFINE n == [conn[c] EXCEPT !.opResult = r]
  <2>2. conn' = [conn EXCEPT ![c] = n] /\ UNCHANGED <<tls, trans>>
    BY Zenon, <1>1, <2>1 DEF OperationCompletes, IInv
  <2>3. n \in Connections
    BY <1>0 DEF Connections
  <2>4. Later(conn[c], n)
    BY <1>0, <2>3 DEF Later, ConnOK, Unstarted, Started, Kinds, Reads, Listed, Connections
  <2>5. QED
    BY Zenon, <2>2, <2>4, OneConnection
<1>2. CASE DeadlineExpires(c)
  <2> DEFINE n == [conn[c] EXCEPT !.deadline = "queued"]
  <2>1. conn' = [conn EXCEPT ![c] = n] /\ UNCHANGED <<tls, trans>>
    BY <1>2 DEF DeadlineExpires, IInv
  <2>2. n \in Connections
    BY <1>0 DEF Connections
  <2>3. Later(conn[c], n)
    BY <1>0, <2>2 DEF Later, ConnOK, Unstarted, Started, Kinds, Reads, Listed, Connections
  <2>4. QED
    BY Zenon, <2>1, <2>3, OneConnection
<1>3. CASE HandleConnectTimeout(c)
  <2> DEFINE n == [Aborted(conn[c]) EXCEPT !.deadline = "off"]
  <2>1. conn' = [conn EXCEPT ![c] = n] /\ UNCHANGED <<tls, trans>>
    BY <1>3 DEF HandleConnectTimeout
  <2>2. n \in Connections
    BY ZenonT(30), <1>0 DEF Connections, Aborted, Results
  <2>3. Unstarted(n) /\ Started(n) /\ Kinds(n)
    BY <1>0 DEF ConnOK, Unstarted, Started, Kinds, Connections, Aborted
  <2>4. Reads(n) /\ Listed(n)
    BY <1>0 DEF ConnOK, Reads, Listed, Connections, Aborted
  <2>5. n.kind = conn[c].kind /\ n.started = conn[c].started
    BY <1>0 DEF Connections, Aborted
  <2>6. Later(conn[c], n)
    BY <2>2, <2>3, <2>4, <2>5 DEF Later, ConnOK
  <2>7. QED
    BY Zenon, <2>1, <2>6, OneConnection
<1>4. QED
  BY <1>1, <1>2, <1>3

(* handleAccept() starts a server connection.                              *)
LEMMA AcceptStep ==
  ASSUME IInv, NEW c \in Conns, HandleAccept(c)
  PROVE  IInv'
<1> DEFINE k == [NewConn EXCEPT !.kind = "server", !.open = TRUE]
<1>1. Start(k) \in Connections
  <2>1. 0 \in 0 .. MaxReadErrors
    OBVIOUS
  <2>2. k \in Connections /\ k.kind = "server" /\ ~k.stopping
    BY Zenon, <2>1 DEF NewConn, Connections
  <2>3. QED
    BY ZenonT(30), <2>2 DEF Start, ReadSome, Connections
<1>2. Unstarted(Start(k)) /\ Started(Start(k)) /\ Kinds(Start(k))
  BY DEF Start, ReadSome, NewConn, Unstarted, Started, Kinds
<1>3. Reads(Start(k)) /\ Listed(Start(k))
  BY DEF Start, ReadSome, NewConn, Reads, Listed
<1>4. ~conn[c].started
  BY DEF HandleAccept, IInv, ConnOK, Started
<1>5. Later(conn[c], Start(k))
  BY <1>1, <1>2, <1>3, <1>4 DEF Later, ConnOK, HandleAccept
<1>6. conn' = [conn EXCEPT ![c] = Start(k)] /\ UNCHANGED <<tls, trans>>
  BY DEF HandleAccept
<1> HIDE DEF k
<1>7. QED
  BY Zenon, <1>5, <1>6, OneConnection

(* handleConnect() starts a client, or its handshake, or gives it up.      *)
LEMMA ConnectStep ==
  ASSUME IInv, NEW c \in Conns, HandleConnect(c)
  PROVE  IInv'
<1> DEFINE k == [conn[c] EXCEPT !.deadline = IF @ = "armed" THEN "off" ELSE @,
                                !.op = "none", !.opResult = "wait"]
<1>0. conn[c] \in Connections /\ ConnOK(conn[c]) /\ conn[c].op = "connect"
  BY DEF IInv, HandleConnect
<1>1. k \in Connections /\ k.kind = "client" /\ ~k.started /\ ~k.stopping /\ k.op = "none"
  BY Zenon, <1>0 DEF ConnOK, Kinds, Unstarted, Connections
<1>2. conn[c].kind = "client" /\ ~conn[c].started
  BY <1>0 DEF ConnOK, Kinds
<1>3. Unstarted(k) /\ Started(k) /\ Kinds(k) /\ Reads(k) /\ Listed(k)
  BY <1>0, <1>2 DEF ConnOK, Unstarted, Started, Kinds, Reads, Listed, Connections
<1>4. UNCHANGED <<tls, trans>>
  BY DEF HandleConnect
<1>5. CASE conn[c].opResult = "fail"
  <2> DEFINE n == [k EXCEPT !.open = FALSE]
  <2>1. conn' = [conn EXCEPT ![c] = n]
    BY <1>5 DEF HandleConnect
  <2> HIDE DEF k
  <2>2. n \in Connections /\ n.kind = "client"
    BY Zenon, <1>1 DEF Connections
  <2>3. ConnOK(n)
    BY <1>1, <1>3, <2>2 DEF ConnOK, Unstarted, Started, Kinds, Reads, Listed, Connections
  <2>4. Later(conn[c], n)
    BY <1>2, <2>2, <2>3 DEF Later
  <2>5. QED
    BY Zenon, <1>4, <2>1, <2>4, OneConnection
<1>6. CASE conn[c].opResult # "fail" /\ tls
  <2> DEFINE n == [k EXCEPT !.op = "handshake",
                            !.opResult = IF k.open THEN "wait" ELSE "fail"]
  <2>1. conn' = [conn EXCEPT ![c] = n]
    BY <1>6 DEF HandleConnect
  <2> HIDE DEF k
  <2>2. n \in Connections /\ n.kind = "client"
    BY Zenon, <1>1 DEF Connections, Results
  <2>3. ConnOK(n)
    BY <1>1, <1>3, <2>2 DEF ConnOK, Unstarted, Started, Kinds, Reads, Listed, Connections
  <2>4. Later(conn[c], n)
    BY <1>2, <2>2, <2>3 DEF Later
  <2>5. QED
    BY Zenon, <1>4, <2>1, <2>4, OneConnection
<1>7. CASE conn[c].opResult # "fail" /\ ~tls
  <2>1. conn' = [conn EXCEPT ![c] = Start(k)]
    BY <1>7 DEF HandleConnect
  <2>2. ConnOK(Start(k)) /\ Start(k).kind = "client"
    BY Zenon, <1>1, <1>3, StartClientLater
  <2>3. Later(conn[c], Start(k))
    BY <1>2, <2>2 DEF Later
  <2>4. QED
    BY Zenon, <1>4, <2>1, <2>3, OneConnection
<1>8. QED
  BY <1>5, <1>6, <1>7

(* handleClientHandshake() starts a TLS connection or gives it up.         *)
LEMMA HandshakeStep ==
  ASSUME IInv, NEW c \in Conns, HandleHandshake(c)
  PROVE  IInv'
<1> DEFINE k == [conn[c] EXCEPT !.op = "none", !.opResult = "wait"]
<1>0. conn[c] \in Connections /\ ConnOK(conn[c]) /\ conn[c].op = "handshake"
  BY DEF IInv, HandleHandshake
<1>1. /\ k \in Connections /\ k.op = "none" /\ k.kind = conn[c].kind
      /\ ~k.started /\ ~conn[c].started
  BY Zenon, <1>0 DEF ConnOK, Started, Connections
<1>2. Unstarted(k) /\ Started(k) /\ Kinds(k) /\ Reads(k)
  BY <1>0 DEF ConnOK, Unstarted, Started, Kinds, Reads, Connections
<1>3. UNCHANGED <<tls, trans>>
  BY DEF HandleHandshake
<1>4. CASE conn[c].opResult = "fail"
  <2>1. conn' = [conn EXCEPT ![c] = StopConnection(k)]
    BY <1>4 DEF HandleHandshake
  <2>2. Later(conn[c], StopConnection(k))
    BY Zenon, <1>1, <1>2, StopLater DEF Later
  <2>3. QED
    BY Zenon, <1>3, <2>1, <2>2, OneConnection
<1>5. CASE conn[c].opResult # "fail" /\ k.kind = "client"
  <2>1. conn' = [conn EXCEPT ![c] = Start(k)]
    BY <1>5 DEF HandleHandshake
  <2>2. ~k.stopping
    BY <1>0, <1>1, <1>5 DEF ConnOK, Unstarted, Connections
  <2>3. ConnOK(Start(k)) /\ Start(k).kind = "client"
    BY Zenon, <1>1, <1>2, <1>5, <2>2, StartClientLater
  <2>4. Later(conn[c], Start(k))
    BY <1>1, <1>5, <2>3 DEF Later
  <2>5. QED
    BY Zenon, <1>3, <2>1, <2>4, OneConnection
<1>6. CASE conn[c].opResult # "fail" /\ k.kind # "client"
  <2> DEFINE n == ReadSome(k)
  <2>1. conn' = [conn EXCEPT ![c] = n]
    BY <1>6 DEF HandleHandshake
  <2>2. n \in Connections /\ n.kind = k.kind /\ n.op = "none" /\ ~n.started
    BY Zenon, <1>1 DEF ReadSome, Connections
  <2>3. k.kind = "server" \/ k.kind = "unused"
    BY Zenon, <1>1, <1>6 DEF Connections
  <2>4. k.kind = "server"
    BY <1>0, <1>1, <2>3 DEF ConnOK, Kinds
  <2>5. Unstarted(n) /\ Started(n) /\ Kinds(n)
    BY <1>1, <1>2, <2>2, <2>4 DEF ReadSome, Unstarted, Started, Kinds, Connections
  <2>6. Reads(n) /\ Listed(n)
    BY <1>0, <1>1, <1>2, <2>4 DEF ConnOK, ReadSome, Reads, Listed, Connections
  <2>7. Later(conn[c], n)
    BY <1>1, <2>2, <2>5, <2>6 DEF Later, ConnOK
  <2>8. QED
    BY Zenon, <1>3, <2>1, <2>7, OneConnection
<1>7. QED
  BY <1>4, <1>5, <1>6

(* A read that was aborted ends, or counts as a failed one.                *)
LEMMA AbortedReadStep ==
  ASSUME IInv, NEW c \in Conns, HandleAbortedRead(c)
  PROVE  IInv'
<1>0. conn[c] \in Connections /\ ConnOK(conn[c]) /\ conn[c].read = "aborted"
  BY DEF IInv, HandleAbortedRead
<1>1. UNCHANGED <<tls, trans>>
  BY DEF HandleAbortedRead
<1>2. CASE conn[c].stopping
  <2> DEFINE n == [conn[c] EXCEPT !.read = "none"]
  <2>1. conn' = [conn EXCEPT ![c] = n]
    BY <1>2 DEF HandleAbortedRead
  <2>2. n \in Connections
    BY <1>0 DEF Connections
  <2>3. Later(conn[c], n)
    BY <1>0, <1>2, <2>2 DEF Later, ConnOK, Unstarted, Started, Kinds, Reads, Listed, Connections
  <2>4. QED
    BY Zenon, <1>1, <2>1, <2>3, OneConnection
<1>3. CASE ~conn[c].stopping
  <2>1. conn' = [conn EXCEPT ![c] = ReadError(conn[c], FALSE)]
    BY <1>3 DEF HandleAbortedRead
  <2>2. Later(conn[c], ReadError(conn[c], FALSE))
    BY Zenon, <1>0, <1>3, ReadErrorLater
  <2>3. QED
    BY Zenon, <1>1, <2>1, <2>2, OneConnection
<1>4. QED
  BY <1>2, <1>3

(* handleRead() reads on, or stops the connection after too many failures. *)
LEMMA ReadStep ==
  ASSUME IInv, NEW c \in Conns, HandleRead(c)
  PROVE  IInv'
<1> DEFINE read == [conn[c] EXCEPT !.errors = 0]
           again == ReadSome(read)
           ended == [read EXCEPT !.read = "none"]
<1>0. /\ conn[c] \in Connections /\ ConnOK(conn[c]) /\ conn[c].read = "wait"
      /\ ~conn[c].stopping
  BY DEF IInv, HandleRead, ConnOK, Reads
<1>1. 0 \in 0 .. MaxReadErrors /\ 0 < MaxReadErrors
  OBVIOUS
<1>2. read \in Connections /\ ended \in Connections
  BY Zenon, <1>0, <1>1 DEF Connections
<1>3. conn[c].started \/ conn[c].kind = "server"
  BY <1>0 DEF ConnOK, Unstarted
<1>4. Later(conn[c], again)
  <2>1. again \in Connections /\ again.kind = conn[c].kind /\ again.started = conn[c].started
    BY Zenon, <1>0, <1>2 DEF ReadSome, Connections
  <2>2. Unstarted(again) /\ Started(again) /\ Kinds(again)
    BY <1>0, <1>2, <1>3 DEF ConnOK, ReadSome, Unstarted, Started, Kinds, Connections
  <2>3. Reads(again) /\ Listed(again)
    BY <1>0, <1>1, <1>2 DEF ConnOK, ReadSome, Reads, Listed, Connections
  <2>4. QED
    BY <2>1, <2>2, <2>3 DEF Later, ConnOK
<1>5. Later(conn[c], StopConnection(ended))
  <2>1. Unstarted(ended) /\ Started(ended) /\ Kinds(ended)
    BY <1>0, <1>3 DEF ConnOK, Unstarted, Started, Kinds, Connections
  <2>2. ended.kind = conn[c].kind /\ ended.started = conn[c].started
    BY <1>0 DEF Connections
  <2>3. QED
    BY Zenon, <1>2, <1>3, <2>1, <2>2, StopLater DEF Later
<1>6. Later(conn[c], ReadError(conn[c], TRUE)) /\ Later(conn[c], ReadError(conn[c], FALSE))
  BY Zenon, <1>0, ReadErrorLater
<1>7. CASE conn' = [conn EXCEPT ![c] = again] /\ UNCHANGED trans
  BY Zenon, <1>4, <1>7, OneConnection DEF HandleRead
<1>8. CASE /\ conn' = [conn EXCEPT ![c] = again]
           /\ \E x \in Trans :
                /\ trans[x].transport = None /\ trans[x].step = "idle"
                /\ trans' = [trans EXCEPT ![x].transport = c, ![x].answers = TRUE]
  <2>1. PICK x \in Trans :
          /\ trans[x].step = "idle"
          /\ trans' = [trans EXCEPT ![x].transport = c, ![x].answers = TRUE]
    BY Zenon, <1>8
  <2> DEFINE t == [trans[x] EXCEPT !.transport = c, !.answers = TRUE]
  <2>2. trans[x] \in Transactions
    BY DEF IInv
  <2>3. trans' = [trans EXCEPT ![x] = t] /\ t \in Transactions
    BY Zenon, <2>1, <2>2 DEF IInv, Transactions
  <2>4. t.step = "idle" /\ t.transport = c /\ c # None
    BY <2>1, <2>2 DEF Transactions
  <2>5. conn'[c] = again
    BY <1>8 DEF IInv
  <2>6. conn'[c].kind # "unused"
    BY <1>0, <1>3, <1>4, <2>5 DEF Later, ConnOK, Started
  <2>7. UNCHANGED tls /\ conn' = [conn EXCEPT ![c] = again]
    BY <1>8 DEF HandleRead
  <2> HIDE DEF t, again
  <2>8. QED
    BY Zenon, <1>4, <2>3, <2>4, <2>6, <2>7, OneOfEach
<1>9. CASE /\ \E n \in {StopConnection(ended), ReadError(conn[c], FALSE),
                        ReadError(conn[c], TRUE)} : conn' = [conn EXCEPT ![c] = n]
           /\ UNCHANGED trans
  <2>1. PICK n \in {StopConnection(ended), ReadError(conn[c], FALSE),
                    ReadError(conn[c], TRUE)} : conn' = [conn EXCEPT ![c] = n]
    BY Zenon, <1>9
  <2>2. UNCHANGED <<tls, trans>>
    BY <1>9 DEF HandleRead
  <2>3. Later(conn[c], n)
    BY Zenon, <1>5, <1>6, <2>1
  <2>4. QED
    BY Zenon, <2>1, <2>2, <2>3, OneConnection
<1>10. QED
  BY Zenon, <1>7, <1>8, <1>9 DEF HandleRead

(* handleWrite() stops the connection on an error.                         *)
LEMMA WriteFailsStep ==
  ASSUME IInv, NEW c \in Conns, HandleWrite(c)
  PROVE  IInv'
<1>1. conn[c] \in Connections /\ ConnOK(conn[c])
  BY DEF IInv
<1>2. conn[c].started \/ conn[c].kind = "server"
  BY <1>1 DEF HandleWrite, ConnOK, Unstarted
<1>3. Later(conn[c], StopConnection(conn[c]))
  BY <1>1, <1>2, StopLater DEF Later, ConnOK
<1>4. QED
  BY Zenon, <1>3, OneConnection DEF HandleWrite

------------------------------------------------------------------------------
(* The steps of transactions.                                                 *)

(* createClientTransport() makes a connection for a transaction.           *)
LEMMA CreateStep ==
  ASSUME IInv, NEW x \in Trans, NEW s \in {"write", "realive"},
         CreateClientTransport(x, s), UNCHANGED tls
  PROVE  IInv'
<1>0. trans[x] \in Transactions
  BY DEF IInv
<1>1. ASSUME NEW c \in Conns, conn[c].listed, UNCHANGED conn,
             trans' = [trans EXCEPT ![x].transport = c, ![x].step = s]
      PROVE  IInv'
  <2> DEFINE t == [trans[x] EXCEPT !.transport = c, !.step = s]
  <2>1. trans' = [trans EXCEPT ![x] = t] /\ t \in Transactions
    BY Zenon, <1>0, <1>1 DEF IInv, Transactions
  <2>2. t.step = s /\ t.transport = c /\ c # None
    BY <1>0 DEF Transactions
  <2>3. conn[c].kind # "unused"
    BY <1>1 DEF IInv, ConnOK, Unstarted, Started
  <2> HIDE DEF t
  <2>4. QED
    BY Zenon, <1>1, <2>1, <2>2, <2>3, OneTransaction
<1>2. ASSUME NEW c \in Conns, conn[c].kind = "unused",
             trans' = [trans EXCEPT ![x].transport = c, ![x].step = s],
             NEW k \in ClientConnect([NewConn EXCEPT !.kind = "client", !.open = TRUE]),
             conn' = [conn EXCEPT ![c] = k]
      PROVE  IInv'
  <2> DEFINE t == [trans[x] EXCEPT !.transport = c, !.step = s]
             new == [NewConn EXCEPT !.kind = "client", !.open = TRUE]
  <2>1. trans' = [trans EXCEPT ![x] = t] /\ t \in Transactions
    BY Zenon, <1>0, <1>2 DEF IInv, Transactions
  <2>2. t.step = s /\ t.transport = c /\ c # None
    BY <1>0 DEF Transactions
  <2>3. 0 \in 0 .. MaxReadErrors /\ 0 < MaxReadErrors
    OBVIOUS
  <2>4. k \in Connections /\ k.kind = "client"
    <3>1. new \in Connections /\ new.kind = "client"
      BY Zenon, <2>3 DEF NewConn, Connections
    <3>2. k = new \/ k = [new EXCEPT !.op = "connect", !.deadline = "armed"]
      BY Zenon, <1>2 DEF ClientConnect
    <3> HIDE DEF new
    <3>3. /\ [new EXCEPT !.op = "connect", !.deadline = "armed"] \in Connections
          /\ [new EXCEPT !.op = "connect", !.deadline = "armed"].kind = "client"
      BY Zenon, <3>1 DEF Connections
    <3>4. QED
      BY Zenon, <3>1, <3>2, <3>3
  <2>5. Unstarted(k) /\ Started(k) /\ Kinds(k) /\ Reads(k) /\ Listed(k)
    <3>1. CASE k = new
      BY <2>3, <3>1 DEF NewConn, Unstarted, Started, Kinds, Reads, Listed
    <3>2. CASE k = [new EXCEPT !.op = "connect", !.deadline = "armed"]
      BY <2>3, <3>2 DEF NewConn, Unstarted, Started, Kinds, Reads, Listed
    <3>3. QED
      BY Zenon, <1>2, <3>1, <3>2 DEF ClientConnect
  <2>6. ~conn[c].started
    BY <1>2 DEF IInv, ConnOK, Started
  <2>7. Later(conn[c], k)
    BY <1>2, <2>4, <2>5, <2>6 DEF Later, ConnOK
  <2>8. conn' = [conn EXCEPT ![c] = k] /\ conn'[c].kind # "unused"
    BY <1>2, <2>4 DEF IInv
  <2> HIDE DEF t, new
  <2>9. QED
    BY Zenon, <2>1, <2>2, <2>7, <2>8, OneOfEach
<1>3. QED
  BY Zenon, <1>1, <1>2 DEF CreateClientTransport

(* A keep-alive leaves its connection correct, and never goes back before  *)
(* its start.                                                              *)
LEMMA KeepAliveLater ==
  ASSUME IInv, NEW c \in Conns, conn[c].kind # "unused", NEW alive \in BOOLEAN,
         KeepAlive(c, alive)
  PROVE  \E k : Later(conn[c], k) /\ conn' = [conn EXCEPT ![c] = k]
<1>1. conn[c] \in Connections /\ ConnOK(conn[c])
  BY DEF IInv
<1>2. CASE UNCHANGED conn
  <2>1. Later(conn[c], conn[c])
    BY <1>1 DEF Later
  <2>2. conn' = [conn EXCEPT ![c] = conn[c]]
    BY <1>2 DEF IInv
  <2>3. QED
    BY Zenon, <2>1, <2>2
<1>3. CASE /\ conn[c].kind = "client" => conn[c].started
           /\ conn' = [conn EXCEPT ![c] = StopConnection(conn[c])]
  <2>1. conn[c].started \/ conn[c].kind = "server"
    BY <1>1, <1>3 DEF Connections
  <2>2. Later(conn[c], StopConnection(conn[c]))
    BY <1>1, <2>1, StopLater DEF Later, ConnOK
  <2>3. QED
    BY Zenon, <1>3, <2>2
<1>4. QED
  BY <1>2, <1>3 DEF KeepAlive

(* A keep-alive, after which the transaction goes on with step s and the      *)
(* transport it had, or none.                                                 *)
LEMMA AliveStep ==
  ASSUME IInv, NEW x \in Trans, trans[x].transport # None, NEW alive \in BOOLEAN,
         KeepAlive(trans[x].transport, alive), UNCHANGED tls,
         NEW t \in Transactions, trans' = [trans EXCEPT ![x] = t],
         t.transport \in {trans[x].transport, None},
         t.step \in {"write", "realive", "terminated"},
         t.step = "write" => t.transport # None
  PROVE  IInv'
<1> DEFINE c == trans[x].transport
<1>1. c \in Conns /\ conn[c].kind # "unused"
  BY DEF IInv, Transactions, Passed
<1>2. PICK k : Later(conn[c], k) /\ conn' = [conn EXCEPT ![c] = k]
  BY <1>1, KeepAliveLater
<1>3. t.transport # None => conn'[t.transport].kind # "unused"
  BY <1>1, <1>2 DEF IInv, Later
<1>4. QED
  BY Zenon, <1>1, <1>2, <1>3, OneOfEach

(* A transaction obtains, checks or replaces its connection.               *)
LEMMA SendStep ==
  ASSUME IInv, NEW x \in Trans,
         SendRequest(x) \/ SendResponse(x) \/ Reconnect(x) \/ CheckReconnected(x)
  PROVE  IInv'
<1>0. trans[x] \in Transactions /\ Terminated \in Transactions
  BY DEF IInv, Terminated, Transactions
<1>1. CASE SendRequest(x)
  <2>1. CASE CreateClientTransport(x, "write")
    BY <1>1, <2>1, CreateStep DEF SendRequest
  <2>5. CASE trans' = [trans EXCEPT ![x] = Terminated] /\ UNCHANGED conn
    <3>1. Terminated.step = "terminated" /\ Terminated.transport = None
      BY DEF Terminated
    <3>2. QED
      BY Zenon, <1>0, <1>1, <2>5, <3>1, OneTransaction DEF SendRequest
  <2>2. CASE /\ trans[x].transport # None
             /\ trans' = [trans EXCEPT ![x].step = "write"] /\ UNCHANGED conn
    <3> DEFINE t == [trans[x] EXCEPT !.step = "write"]
    <3>1. trans' = [trans EXCEPT ![x] = t] /\ UNCHANGED <<tls, conn>>
      BY <1>1, <2>2 DEF SendRequest, IInv
    <3>2. t \in Transactions /\ t.step = "write" /\ t.transport = trans[x].transport
      BY <1>0 DEF Transactions
    <3>3. conn[t.transport].kind # "unused"
      BY <2>2, <3>2 DEF IInv, Passed
    <3> HIDE DEF t
    <3>4. QED
      BY Zenon, <2>2, <3>1, <3>2, <3>3, OneTransaction
  <2>3. QED
    BY Zenon, <1>1, <2>1, <2>2, <2>5 DEF SendRequest
<1>2. CASE SendResponse(x)
  <2>1. trans[x].transport # None
    BY <1>2 DEF SendResponse, IInv, Passed
  <2>2. CASE /\ KeepAlive(trans[x].transport, TRUE)
             /\ trans' = [trans EXCEPT ![x].step = "write"]
    <3> DEFINE t == [trans[x] EXCEPT !.step = "write"]
    <3>1. trans' = [trans EXCEPT ![x] = t] /\ UNCHANGED tls
      BY <1>2, <2>2 DEF SendResponse, IInv
    <3>2. t \in Transactions /\ t.step = "write" /\ t.transport = trans[x].transport
      BY <1>0 DEF Transactions
    <3> HIDE DEF t
    <3>3. QED
      BY Zenon, <2>1, <2>2, <3>1, <3>2, AliveStep
  <2>3. CASE /\ KeepAlive(trans[x].transport, FALSE)
             /\ trans' = [trans EXCEPT ![x] =
                  IF tls THEN Terminated
                  ELSE [@ EXCEPT !.step = "realive", !.transport = None]]
    <3> DEFINE t == IF tls THEN Terminated
                    ELSE [trans[x] EXCEPT !.step = "realive", !.transport = None]
    <3>1. trans' = [trans EXCEPT ![x] = t] /\ UNCHANGED tls
      BY Zenon, <1>2, <2>3 DEF SendResponse, IInv
    <3>2. /\ t \in Transactions /\ t.step \in {"realive", "terminated"}
          /\ t.transport = None
      BY Zenon, <1>0 DEF Transactions, Terminated
    <3> HIDE DEF t
    <3>3. QED
      BY Zenon, <2>1, <2>3, <3>1, <3>2, AliveStep
  <2>4. QED
    BY Zenon, <1>2, <2>2, <2>3 DEF SendResponse
<1>3. CASE Reconnect(x)
  BY <1>3, CreateStep DEF Reconnect
<1>4. CASE CheckReconnected(x)
  <2>1. PICK alive \in BOOLEAN :
          /\ KeepAlive(trans[x].transport, alive)
          /\ trans' = [trans EXCEPT ![x] =
               IF alive THEN [@ EXCEPT !.step = "write"] ELSE Terminated]
    BY Zenon, <1>4 DEF CheckReconnected
  <2> DEFINE t == IF alive THEN [trans[x] EXCEPT !.step = "write"] ELSE Terminated
  <2>2. trans' = [trans EXCEPT ![x] = t] /\ UNCHANGED tls /\ trans[x].transport # None
    BY Zenon, <1>4, <2>1 DEF CheckReconnected, IInv
  <2>3. /\ t \in Transactions /\ t.step \in {"write", "terminated"}
        /\ t.transport \in {trans[x].transport, None}
        /\ t.step = "write" => t.transport = trans[x].transport
    BY Zenon, <1>0 DEF Transactions, Terminated
  <2> HIDE DEF t
  <2>4. QED
    BY Zenon, <2>1, <2>2, <2>3, AliveStep
<1>5. QED
  BY <1>1, <1>2, <1>3, <1>4

(* A transaction that times out has the manager stop its connection.          *)
LEMMA TimeoutStep ==
  ASSUME IInv, NEW x \in Trans, HandleTimeout(x)
  PROVE  IInv'
<1> DEFINE c == trans[x].transport
<1>1. c # None /\ c \in Conns
  BY DEF IInv, Transactions, HandleTimeout
<1>2. Later(conn[c], ManagerStop(conn[c]))
  BY Zenon, <1>1, ManagerStopLater DEF IInv
<1>3. /\ Terminated \in Transactions
      /\ Terminated.step = "terminated" /\ Terminated.transport = None
  BY DEF Terminated, Transactions
<1>4. /\ conn' = [conn EXCEPT ![c] = ManagerStop(conn[c])]
      /\ trans' = [trans EXCEPT ![x] = Terminated] /\ UNCHANGED tls
  BY Zenon DEF HandleTimeout
<1>5. QED
  BY Zenon, <1>1, <1>2, <1>3, <1>4, OneOfEach

(* writeMessage() delays the message of a connecting client, or passes.    *)
LEMMA WriteMessageStep ==
  ASSUME IInv, NEW x \in Trans, WriteMessage(x)
  PROVE  IInv'
<1> DEFINE c == trans[x].transport
           waits == conn[c].kind = "client" /\ ~conn[c].started
<1>0. trans[x] \in Transactions /\ c # None
  BY DEF IInv, Passed, WriteMessage
<1>1. c \in Conns /\ conn[c].kind # "unused"
  BY <1>0 DEF IInv, Passed, Transactions
<1>2. conn[c] \in Connections /\ ConnOK(conn[c])
  BY <1>1 DEF IInv
<1>3. CASE ~conn[c].stopping /\ waits
  <2> DEFINE t == [trans[x] EXCEPT !.step = "idle"]
             k == [conn[c] EXCEPT !.pending = TRUE, !.delayed = TRUE]
  <2>1. UNCHANGED tls /\ trans' = [trans EXCEPT ![x] = t] /\ conn' = [conn EXCEPT ![c] = k]
    BY Zenon, <1>1, <1>3 DEF WriteMessage, IInv
  <2>2. t \in Transactions /\ t.step = "idle" /\ t.transport = c
    BY <1>0 DEF Transactions
  <2>3. k \in Connections /\ k.kind = conn[c].kind
    BY Zenon, <1>2 DEF Connections
  <2>4. Unstarted(k) /\ Started(k) /\ Kinds(k) /\ Reads(k) /\ Listed(k)
    BY <1>2, <1>3 DEF ConnOK, Unstarted, Started, Kinds, Reads, Listed, Connections
  <2>5. Later(conn[c], k)
    BY <1>3, <2>3, <2>4 DEF Later, ConnOK
  <2>6. conn'[c].kind # "unused"
    BY <1>1, <2>1, <2>3 DEF IInv
  <2> HIDE DEF t, k
  <2>7. QED
    BY Zenon, <1>0, <1>1, <2>1, <2>2, <2>5, <2>6, OneOfEach
<1>4. CASE conn[c].stopping
  <2> DEFINE t == [trans[x] EXCEPT !.step = "idle"]
  <2>1. UNCHANGED <<tls, conn>> /\ trans' = [trans EXCEPT ![x] = t]
    BY <1>4 DEF WriteMessage, IInv
  <2>2. t \in Transactions /\ t.step = "idle" /\ t.transport = c
    BY <1>0 DEF Transactions
  <2> HIDE DEF t
  <2>3. QED
    BY Zenon, <1>0, <1>1, <2>1, <2>2, OneTransaction
<1>5. CASE ~conn[c].stopping /\ ~waits
  <2> DEFINE t == [trans[x] EXCEPT !.step = "raw"]
  <2>1. UNCHANGED <<tls, conn>> /\ trans' = [trans EXCEPT ![x] = t]
    BY Zenon, <1>5 DEF WriteMessage, IInv
  <2>2. t \in Transactions /\ t.step = "raw" /\ t.transport = c
    BY <1>0 DEF Transactions
  <2>3. conn[c].kind = "client" => conn[c].started
    BY <1>5
  <2> HIDE DEF t
  <2>4. QED
    BY Zenon, <1>0, <1>1, <2>1, <2>2, <2>3, OneTransaction
<1>6. QED
  BY <1>3, <1>4, <1>5

(* It then writes, outside the lock.                                       *)
LEMMA WriteBufferStep ==
  ASSUME IInv, NEW x \in Trans, WriteBuffer(x)
  PROVE  IInv'
<1> DEFINE c == trans[x].transport
           t == [trans[x] EXCEPT !.step = "idle"]
           k == Written(conn[c], "direct")
<1>0. trans[x] \in Transactions /\ c # None /\ trans[x].step = "raw"
  BY DEF IInv, Passed, WriteBuffer
<1>1. /\ c \in Conns /\ conn[c].kind # "unused"
      /\ conn[c].kind = "client" => conn[c].started
  BY <1>0 DEF IInv, Passed, Transactions
<1>2. conn[c] \in Connections /\ ConnOK(conn[c])
  BY <1>1 DEF IInv
<1>3. t \in Transactions /\ t.step = "idle" /\ t.transport = c
  BY <1>0 DEF Transactions
<1>4. UNCHANGED tls /\ trans' = [trans EXCEPT ![x] = t]
  BY DEF WriteBuffer, IInv
<1>5. CASE conn[c].stopping
  <2>1. UNCHANGED conn
    BY <1>5 DEF WriteBuffer
  <2> HIDE DEF t
  <2>2. QED
    BY Zenon, <1>0, <1>1, <1>3, <1>4, <2>1, OneTransaction
<1>6. CASE ~conn[c].stopping
  <2>1. conn' = [conn EXCEPT ![c] = k]
    BY <1>1, <1>6 DEF WriteBuffer, IInv
  <2>2. k \in Connections /\ k.kind = conn[c].kind /\ k.started = conn[c].started
    BY <1>2 DEF Written, Connections
  <2>3. conn[c].kind = "client" \/ conn[c].kind = "server"
    BY <1>1, <1>2 DEF Connections
  <2>4. Unstarted(k) /\ Started(k) /\ Kinds(k)
    BY <1>1, <1>2, <2>3 DEF ConnOK, Written, Unstarted, Started, Kinds, Connections
  <2>5. Reads(k) /\ Listed(k)
    BY <1>2 DEF ConnOK, Written, Reads, Listed, Connections
  <2>6. Later(conn[c], k)
    BY <2>2, <2>4, <2>5 DEF Later, ConnOK
  <2>7. conn'[c].kind # "unused"
    BY <1>1, <2>1, <2>2 DEF IInv
  <2> HIDE DEF t, k
  <2>8. QED
    BY Zenon, <1>0, <1>1, <1>3, <1>4, <2>1, <2>6, <2>7, OneOfEach
<1>7. QED
  BY <1>5, <1>6

------------------------------------------------------------------------------
(* IInv holds initially and is kept by every step.                            *)
THEOREM Invariance == Spec => []IInv
<1>1. Init => IInv
  <2> SUFFICES ASSUME Init PROVE IInv
    OBVIOUS
  <2>1. 0 \in 0 .. MaxReadErrors /\ 0 < MaxReadErrors
    OBVIOUS
  <2>2. NewConn \in Connections
    BY <2>1 DEF NewConn, Connections
  <2>3. ConnOK(NewConn)
    BY <2>1, <2>2 DEF NewConn, ConnOK, Unstarted, Started, Kinds, Reads, Listed
  <2>4. conn \in [Conns -> Connections] /\ \A c \in Conns : ConnOK(conn[c])
    BY <2>2, <2>3 DEF Init
  <2>5. trans \in [Trans -> Transactions] /\ Passed
    BY DEF Init, Transactions, Passed
  <2>6. QED
    BY Zenon, <2>4, <2>5 DEF Init, IInv
<1>2. IInv /\ [Next]_vars => IInv'
  <2> SUFFICES ASSUME IInv, [Next]_vars PROVE IInv'
    OBVIOUS
  <2>1. CASE UNCHANGED vars
    BY <2>1 DEF vars, IInv, Passed
  <2>2. CASE Next
    BY <2>2, EnvironmentStep, AcceptStep, ConnectStep, HandshakeStep, AbortedReadStep,
       ReadStep, WriteFailsStep, SendStep, TimeoutStep, WriteMessageStep, WriteBufferStep
       DEF Next
  <2>3. QED
    BY <2>1, <2>2
<1>3. QED
  BY <1>1, <1>2, PTL DEF Spec

(* The state keeps its types; in particular the count of failed reads stays   *)
(* within the limit of handleRead.                                            *)
THEOREM TypeCorrect == Spec => []TypeOK
<1>1. IInv => TypeOK
  BY DEF IInv, TypeOK
<1>2. QED
  BY <1>1, Invariance, PTL

(* What is in the connection manager's map reads, and what reads from an open *)
(* socket is in the map.                                                      *)
THEOREM ListedIsReadingHolds == Spec => []ListedIsReading
<1>1. IInv => ListedIsReading
  BY Zenon DEF IInv, ConnOK, Listed, ListedIsReading
<1>2. QED
  BY <1>1, Invariance, PTL

(* A message delayed until the start is the first one written.                *)
THEOREM DelayedGoesFirstHolds == Spec => []DelayedGoesFirst
<1>1. IInv => DelayedGoesFirst
  BY Zenon DEF IInv, ConnOK, Unstarted, Started, Kinds, DelayedGoesFirst
<1>2. QED
  BY <1>1, Invariance, PTL
==============================================================================
