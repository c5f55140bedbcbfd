------------------------ MODULE SIPStreamedConnection ------------------------
(* The TCP or TLS connections of SIPStreamedConnection.cpp, the map of        *)
(* SIPStreamedConnectionManager.cpp and the way a transaction obtains and     *)
(* uses one (SIPTransaction::sendRequest and sendResponse,                    *)
(* SIPTransportService::createClientTransport).  One connection manager and   *)
(* one peer are modelled.  Handlers run on the one io_service thread; the     *)
(* transactions run on threads of their own.  An asynchronous operation is    *)
(* outstanding ("wait") until it completes, and its handler then waits in     *)
(* the io_service's queue with the result.  Where nothing can happen in       *)
(* between that the handler would notice (reads and writes the network        *)
(* completes), completion and handler are one step.                           *)
EXTENDS Naturals

CONSTANTS Conns,        \* connection objects
          Trans,        \* transactions
          MaxReadErrors, \* the 5 of handleRead: failed reads in a row that close
          None          \* no transport

ASSUME MaxReadErrorsAssumption == MaxReadErrors \in Nat \ {0}
ASSUME NoneAssumption == None \notin Conns

VARIABLES tls,   \* the manager's connections are TLS
          conn,  \* the connections
          trans  \* the transactions

vars == <<tls, conn, trans>>

Results == {"ok", "fail"}

(* The fields that matter: kind is _isClient (or "unused", not yet created),  *)
(* op/opResult the outstanding connect or handshake, deadline the connect     *)
(* timer, read the outstanding read ("aborted": its handler is queued after   *)
(* a cancel or close), pending that the _pending queue (of at most one        *)
(* message) is not empty.  delayed records that a message was ever queued in  *)
(* _pending, wire which kind of message was given to async_write first.       *)
NewConn ==
  [kind |-> "unused", started |-> FALSE, stopping |-> FALSE, open |-> FALSE,
   listed |-> FALSE, op |-> "none", opResult |-> "wait", deadline |-> "off",
   read |-> "none", errors |-> 0, pending |-> FALSE, delayed |-> FALSE,
   wire |-> "nothing"]

Connections ==
  [kind : {"unused", "client", "server"}, started : BOOLEAN, stopping : BOOLEAN,
   open : BOOLEAN, listed : BOOLEAN, op : {"none", "connect", "handshake"},
   opResult : {"wait"} \cup Results, deadline : {"off", "armed", "queued"},
   read : {"none", "wait", "aborted"}, errors : 0 .. MaxReadErrors,
   pending : BOOLEAN, delayed : BOOLEAN, wire : {"nothing", "delayed", "direct"}]

(* A transaction: what it does next, the transport it holds, and whether it   *)
(* answers (a server transaction) or asks.                                    *)
Transactions ==
  [step : {"idle", "realive", "write", "raw", "terminated"},
   transport : Conns \cup {None}, answers : BOOLEAN]

(* A transaction that was terminated: it uses its transport no more.          *)
Terminated == [step |-> "terminated", transport |-> None, answers |-> FALSE]

Init ==
  /\ tls \in BOOLEAN
  /\ conn = [c \in Conns |-> NewConn]
  /\ trans = [x \in Trans |->
                [step |-> "idle", transport |-> None, answers |-> FALSE]]

------------------------------------------------------------------------------
(* What close() and cancel() do to outstanding operations: their handlers     *)
(* are queued with an error.  A result already queued stays as it is.         *)
Aborted(k) ==
  [k EXCEPT !.opResult = IF k.op # "none" /\ @ = "wait" THEN "fail" ELSE @,
            !.read = IF @ = "wait" THEN "aborted" ELSE @]

(* SIPStreamedConnectionManager::stop: out of the map, and the socket is      *)
(* closed.  It does not set _isStopping.                                      *)
ManagerStop(k) == [Aborted(k) EXCEPT !.listed = FALSE, !.open = FALSE]

(* The connection's own handlers set _isStopping before they call it.         *)
StopConnection(k) == [ManagerStop(k) EXCEPT !.stopping = TRUE]

(* readSome: on a closed socket the read fails at once.                       *)
ReadSome(k) ==
  [k EXCEPT !.read = IF k.stopping THEN "none"
                     ELSE IF k.open THEN "wait" ELSE "aborted"]

(* async_write: only what the first written message was is kept.              *)
Written(k, what) == [k EXCEPT !.wire = IF @ = "nothing" THEN what ELSE @]

(* SIPStreamedConnectionManager::start and SIPStreamedConnection::start: a    *)
(* client reads and flushes what was delayed; a TLS server shakes hands       *)
(* first.                                                                     *)
Start(k) ==
  LET listed == [k EXCEPT !.listed = TRUE]
  IN  IF k.kind = "client"
      THEN LET reads == ReadSome([listed EXCEPT !.started = TRUE, !.pending = FALSE])
           IN  IF k.pending THEN Written(reads, "delayed") ELSE reads
      ELSE IF tls THEN [listed EXCEPT !.op = "handshake", !.opResult = "wait"]
                  ELSE ReadSome(listed)

------------------------------------------------------------------------------
(* The environment: the network completes operations, the clock the timer.    *)

OperationCompletes(c) ==
  /\ conn[c].op # "none" /\ conn[c].opResult = "wait"
  /\ \E r \in Results : conn' = [conn EXCEPT ![c].opResult = r]
  /\ UNCHANGED <<tls, trans>>

DeadlineExpires(c) ==
  /\ conn[c].deadline = "armed"
  /\ conn' = [conn EXCEPT ![c].deadline = "queued"]
  /\ UNCHANGED <<tls, trans>>

(* SIPTCPListener::handleAccept: an accepted connection is started.           *)
HandleAccept(c) ==
  /\ conn[c].kind = "unused"
  /\ conn' = [conn EXCEPT ![c] = Start([NewConn EXCEPT !.kind = "server", !.open = TRUE])]
  /\ UNCHANGED <<tls, trans>>

------------------------------------------------------------------------------
(* The io_service's handlers.                                                 *)

(* handleConnectTimeout: every outstanding operation of the socket is         *)
(* cancelled, those of a connection that has started since included.          *)
HandleConnectTimeout(c) ==
  /\ conn[c].deadline = "queued"
  /\ conn' = [conn EXCEPT ![c] = [Aborted(conn[c]) EXCEPT !.deadline = "off"]]
  /\ UNCHANGED <<tls, trans>>

(* handleConnect: cancel() stops a timer that runs, it does not recall a      *)
(* handler that is queued.  It does not look whether the socket was closed    *)
(* since the connect succeeded: then a TLS handshake fails at once, and a     *)
(* TCP connection enters the map with a closed socket.                        *)
HandleConnect(c) ==
  LET k == [conn[c] EXCEPT !.deadline = IF @ = "armed" THEN "off" ELSE @,
                           !.op = "none", !.opResult = "wait"]
  IN  /\ conn[c].op = "connect" /\ conn[c].opResult \in Results
      /\ conn' = [conn EXCEPT ![c] =
           IF conn[c].opResult = "fail" THEN [k EXCEPT !.open = FALSE]
           ELSE IF tls THEN [k EXCEPT !.op = "handshake",
                                      !.opResult = IF k.open THEN "wait" ELSE "fail"]
           ELSE Start(k)]
      /\ UNCHANGED <<tls, trans>>

(* handleClientHandshake and handleServerHandshake.                           *)
HandleHandshake(c) ==
  LET k == [conn[c] EXCEPT !.op = "none", !.opResult = "wait"]
  IN  /\ conn[c].op = "handshake" /\ conn[c].opResult \in Results
      /\ conn' = [conn EXCEPT ![c] =
           IF conn[c].opResult = "fail" THEN StopConnection(k)
           ELSE IF k.kind = "client" THEN Start(k)
           ELSE ReadSome(k)]
      /\ UNCHANGED <<tls, trans>>

(* Mutant: a failed read is not retried and does not close either.            *)
ReadError_GivesUp(k, eof) ==
  LET failed == [k EXCEPT !.errors = @ + 1, !.read = "none"]
  IN  IF failed.errors < MaxReadErrors /\ ~eof THEN failed
      ELSE StopConnection(failed)

(* Mutant: one failed read more is retried.                                   *)
ReadError_OneMore(k, eof) ==
  LET failed == [k EXCEPT !.errors = @ + 1, !.read = "none"]
  IN  IF failed.errors <= MaxReadErrors /\ ~eof THEN ReadSome(failed)
      ELSE StopConnection(failed)

(* handleRead with an error: the read is retried until MaxReadErrors failed   *)
(* in a row; the end of the stream closes at once.                            *)
ReadError(k, eof) ==
  LET failed == [k EXCEPT !.errors = @ + 1, !.read = "none"]
  IN  IF failed.errors < MaxReadErrors /\ ~eof THEN ReadSome(failed)
      ELSE StopConnection(failed)

(* handleRead after a cancel or close.                                        *)
HandleAbortedRead(c) ==
  /\ conn[c].read = "aborted"
  /\ conn' = [conn EXCEPT ![c] =
       IF conn[c].stopping THEN [conn[c] EXCEPT !.read = "none"]
       ELSE ReadError(conn[c], FALSE)]
  /\ UNCHANGED <<tls, trans>>

(* handleRead of what the network delivered.  Data is parsed and read again,  *)
(* unless it was a ping whose pong could not be written, which closes; a      *)
(* request that is dispatched makes a server transaction, which keeps the     *)
(* connection as its transport.                                               *)
HandleRead(c) ==
  LET read == [conn[c] EXCEPT !.errors = 0]
  IN  /\ conn[c].read = "wait"
      /\ \/ /\ conn' = [conn EXCEPT ![c] = ReadSome(read)]
            /\ \/ UNCHANGED trans
               \/ \E x \in Trans :
                    /\ trans[x].transport = None /\ trans[x].step = "idle"
                    /\ trans' = [trans EXCEPT ![x].transport = c, ![x].answers = TRUE]
         \/ /\ \E k \in {StopConnection([read EXCEPT !.read = "none"]),
                         ReadError(conn[c], FALSE), ReadError(conn[c], TRUE)} :
                 conn' = [conn EXCEPT ![c] = k]
            /\ UNCHANGED trans
      /\ UNCHANGED tls

(* handleWrite changes something only when the write failed, which it may on  *)
(* any connection that wrote.                                                 *)
HandleWrite(c) ==
  /\ conn[c].wire # "nothing" /\ ~conn[c].stopping
  /\ conn' = [conn EXCEPT ![c] = StopConnection(conn[c])]
  /\ UNCHANGED <<tls, trans>>

------------------------------------------------------------------------------
(* The transactions.                                                          *)

(* Mutant: the connect has no deadline.                                       *)
ClientConnect_NoDeadline(k) == {[k EXCEPT !.op = "connect"], k}

(* clientConnect of a bound socket starts the connect and its deadline.  When *)
(* the resolver fails it returns false with the socket open and nothing       *)
(* started, and createClientTcpTransport ignores the result.                  *)
ClientConnect(k) == {[k EXCEPT !.op = "connect", !.deadline = "armed"], k}

(* createClientTransport: a connection to the peer that is in the map, else   *)
(* a new one, which is bound, connected asynchronously and not in the map.    *)
(* The transaction goes on with step s.                                       *)
CreateClientTransport(x, s) ==
  \E c \in Conns :
    /\ trans' = [trans EXCEPT ![x].transport = c, ![x].step = s]
    /\ \/ conn[c].listed /\ UNCHANGED conn
       \/ /\ conn[c].kind = "unused" /\ \A d \in Conns : ~conn[d].listed
          /\ \E k \in ClientConnect([NewConn EXCEPT !.kind = "client", !.open = TRUE]) :
               conn' = [conn EXCEPT ![c] = k]

(* sendRequest: the transport is obtained once and kept.  A request that      *)
(* requires a persistent connection which is not in the map gets none, and    *)
(* the transaction is terminated.                                             *)
SendRequest(x) ==
  /\ trans[x].step = "idle" /\ ~trans[x].answers
  /\ \/ trans[x].transport = None /\ CreateClientTransport(x, "write")
     \/ /\ trans[x].transport = None
        /\ trans' = [trans EXCEPT ![x] = Terminated]
        /\ UNCHANGED conn
     \/ /\ trans[x].transport # None
        /\ trans' = [trans EXCEPT ![x].step = "write"]
        /\ UNCHANGED conn
  /\ UNCHANGED tls

(* handleTimeoutICT and handleTimeoutNICT, on the io_service thread: the      *)
(* manager stops the connection, which may still be connecting and which      *)
(* other transactions may be writing to, and the transaction is terminated.   *)
HandleTimeout(x) ==
  LET c == trans[x].transport
  IN  /\ trans[x].step = "idle" /\ ~trans[x].answers /\ c # None
      /\ conn' = [conn EXCEPT ![c] = ManagerStop(conn[c])]
      /\ trans' = [trans EXCEPT ![x] = Terminated]
      /\ UNCHANGED tls

(* writeKeepAlive answers true on a connection that is still connecting; an   *)
(* error of the write closes the connection.                                  *)
KeepAlive(c, alive) ==
  LET k == conn[c]
  IN  IF k.stopping \/ ~k.open THEN ~alive /\ UNCHANGED conn
      ELSE \/ alive /\ UNCHANGED conn
           \/ /\ ~alive /\ (k.kind = "client" => k.started)
              /\ conn' = [conn EXCEPT ![c] = StopConnection(k)]

(* sendResponse, with its first keep-alive: when that fails the transaction   *)
(* leaves the connection and (TCP only) takes or makes another.               *)
SendResponse(x) ==
  /\ trans[x].step = "idle" /\ trans[x].answers
  /\ \/ /\ KeepAlive(trans[x].transport, TRUE)
        /\ trans' = [trans EXCEPT ![x].step = "write"]
     \/ /\ KeepAlive(trans[x].transport, FALSE)
        /\ trans' = [trans EXCEPT ![x] =
             IF tls THEN Terminated
             ELSE [@ EXCEPT !.step = "realive", !.transport = None]]
  /\ UNCHANGED tls

(* createClientTransport for the response, then the second keep-alive: the    *)
(* response is written or the transaction is terminated.                      *)
Reconnect(x) ==
  /\ trans[x].step = "realive" /\ trans[x].transport = None
  /\ CreateClientTransport(x, "realive")
  /\ UNCHANGED tls

CheckReconnected(x) ==
  /\ trans[x].step = "realive" /\ trans[x].transport # None
  /\ \E alive \in BOOLEAN :
       /\ KeepAlive(trans[x].transport, alive)
       /\ trans' = [trans EXCEPT ![x] =
            IF alive THEN [@ EXCEPT !.step = "write"] ELSE Terminated]
  /\ UNCHANGED tls

(* Mutant: a message sent while another is delayed is written, not discarded. *)
WriteMessage_Overtakes(x) ==
  LET c == trans[x].transport
      waits == conn[c].kind = "client" /\ ~conn[c].started
  IN  /\ trans[x].step = "write"
      /\ conn' = IF ~conn[c].stopping /\ waits
                 THEN [conn EXCEPT ![c] = IF @.pending THEN Written(@, "direct")
                         ELSE [@ EXCEPT !.pending = TRUE, !.delayed = TRUE]]
                 ELSE conn
      /\ trans' = [trans EXCEPT ![x].step =
                     IF conn[c].stopping \/ waits THEN "idle" ELSE "raw"]
      /\ UNCHANGED tls

(* writeMessage(msg) up to the release of _pendingMutex: nothing on a         *)
(* stopping connection; before the start the first message is delayed and a   *)
(* later one discarded.                                                       *)
WriteMessage(x) ==
  LET c == trans[x].transport
      waits == conn[c].kind = "client" /\ ~conn[c].started
  IN  /\ trans[x].step = "write"
      /\ conn' = IF ~conn[c].stopping /\ waits
                 THEN [conn EXCEPT ![c].pending = TRUE, ![c].delayed = TRUE]
                 ELSE conn
      /\ trans' = [trans EXCEPT ![x].step =
                     IF conn[c].stopping \/ waits THEN "idle" ELSE "raw"]
      /\ UNCHANGED tls

(* writeMessage(buf), after the mutex was released: async_write.              *)
WriteBuffer(x) ==
  LET c == trans[x].transport
  IN  /\ trans[x].step = "raw"
      /\ conn' = IF conn[c].stopping THEN conn
                 ELSE [conn EXCEPT ![c] = Written(@, "direct")]
      /\ trans' = [trans EXCEPT ![x].step = "idle"]
      /\ UNCHANGED tls

------------------------------------------------------------------------------
Next ==
  \/ \E c \in Conns :
       \/ OperationCompletes(c) \/ DeadlineExpires(c) \/ HandleAccept(c)
       \/ HandleConnectTimeout(c) \/ HandleConnect(c) \/ HandleHandshake(c)
       \/ HandleAbortedRead(c) \/ HandleRead(c) \/ HandleWrite(c)
  \/ \E x \in Trans :
       \/ SendRequest(x) \/ HandleTimeout(x) \/ SendResponse(x) \/ Reconnect(x)
       \/ CheckReconnected(x) \/ WriteMessage(x) \/ WriteBuffer(x)

(* The io_service runs every queued handler and timers expire; the network    *)
(* and the transactions owe nothing.                                          *)
Fairness ==
  \A c \in Conns :
    WF_vars(\/ DeadlineExpires(c) \/ HandleConnectTimeout(c) \/ HandleConnect(c)
            \/ HandleHandshake(c) \/ HandleAbortedRead(c))

Spec == Init /\ [][Next]_vars /\ Fairness

------------------------------------------------------------------------------
(* The fields keep their types; in particular handleRead never counts past    *)
(* MaxReadErrors failed reads in a row: the connection is closed by then.     *)
TypeOK ==
  /\ tls \in BOOLEAN
  /\ conn \in [Conns -> Connections]
  /\ trans \in [Trans -> Transactions]

(* A connection in the manager's map has not stopped and reads (a TLS server  *)
(* may still be shaking hands), so a lookup never returns one that nothing    *)
(* would ever take out again.  Conversely a connection that reads from an     *)
(* open socket is in the map, where a lookup and stopAll find it: only the    *)
(* failing reads of a socket that a timed-out transaction closed go on        *)
(* outside it.  A connect deadline that fires late cancels the read, so this  *)
(* is about the retry of handleRead too.                                      *)
ListedIsReading ==
  \A c \in Conns :
    LET k == conn[c]
        reads == k.read # "none" \/ (k.kind = "server" /\ k.op = "handshake")
    IN  /\ k.listed => reads /\ ~k.stopping
        /\ reads /\ ~k.stopping /\ k.open => k.listed

(* A message that writeMessage delayed because the client connection had not  *)
(* started is the first one the connection writes, and none waits once it     *)
(* has started.                                                               *)
DelayedGoesFirst ==
  \A c \in Conns :
    LET k == conn[c]
    IN  /\ k.started => ~k.pending
        /\ k.delayed /\ k.wire # "nothing" => k.wire = "delayed"

(* A message delayed on a TCP connection that is connecting does not wait     *)
(* forever: the connection starts and writes it, or the connect deadline      *)
(* closes the connection.  (The TLS handshake has no deadline; and when the   *)
(* resolver failed nothing was started that could end the wait.)              *)
DelayedIsSettled ==
  \A c \in Conns :
    ~tls /\ conn[c].pending /\ conn[c].op = "connect"
      ~> ~conn[c].pending \/ ~conn[c].open

(* A closed connection does not stay in the map, and its failing reads end,   *)
(* although a timed-out transaction's stop() leaves _isStopping unset and a   *)
(* connect that had just succeeded lists the connection after the stop().     *)
ClosedIsForgotten ==
  \A c \in Conns :
    ~conn[c].open ~> conn[c].read = "none" /\ ~conn[c].listed
==============================================================================
