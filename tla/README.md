# Verification of OSS core: SIP transactions, streamed transport, media relay

TLA+ models, TLC runs and TLAPS proofs for three parts of OSS core: the SIP
transaction layer (`src/sipfsm`), the streamed transport under it
(`src/siptransport`) and the sessions of the media relay (`src/rtp`). The
modules are translated from the C++ code. `PROJECT.json` gives the source lines
of every definition and lists runs, mutants, findings, hazards and theorems.

## The system

| Part | Code | State and operations | Modules |
|---|---|---|---|
| Transaction base | `SIPTransaction.cpp`, `SIPFsm.cpp` | state, To-tag branches, timers; send, receive, terminate | `SIPTransaction`, `SIPClient`, `SIPServer` |
| Client transactions | `SIPIct.cpp`, `SIPNict.cpp` | responses, retransmission, timeout, ACK, CANCEL | `SIPIct`, `SIPNict`, `SIPClients`, `SIPClientUser` |
| Server transactions | `SIPIst.cpp`, `SIPNist.cpp` | throttle queue, dispatch, responses, ACK | `SIPIst`, `SIPNist`, `SIPServers` |
| Pools and dispatcher | `SIPTransactionPool.cpp`, `SIPFSMDispatch.cpp` | map from id to transaction, blocker of INVITEs; find, remove, stop | `SIPDispatch`, and in each transaction module the part it meets |
| Streamed transport | `SIPStreamedConnection.cpp`, its manager, `SIPTransportService.cpp` | connections, connect deadline, one delayed message, map of connections | `SIPStreamedConnection` |
| Media session | `RTPProxySession.cpp` | offer/answer state, legs, relays | `RTPProxySession`, `RTPOfferAnswer`, `RTPSessionTypes` |
| Media session manager | `RTPProxyManager.cpp` | list of sessions, counter, state files | `RTPProxyManager` |

A request goes from a user to a client transaction, which obtains a connection
and writes through it; what a connection reads is dispatched to a transaction of
a pool, or makes one. The border controller hands the SDP bodies of INVITE,
response and ACK to the media session manager, whose threads work on one session
each.

### Threads

One thread runs the `io_service`: it receives messages, runs timer handlers and,
as `THREADED_RESPONSE` is 0, the response callback of the B2B user agent. Worker
threads call `sendRequest()`, `sendResponse()` and `handleSDP()`. The application
calls `stop()`. `_mutex` and `_stateMutex` of a transaction are recursive.

### What is hard

* `cancel()` does not recall a timer handler that is already queued. Every timer
  is therefore *armed*, then *queued*, then handled, and cancelling empties
  *armed* only. The same holds of the connect deadline of a connection.
* A forked request has a parent and a branch per To-tag, and each changes the
  state and the timers of the other.
* `setState()` throws on a TERMINATED transaction, and nothing catches an
  exception on the `io_service` thread.
* The release callback deletes the object that the response callback uses.
* The INVITE blocker is tested before the pool is searched, and a media session
  is looked up before it is used, without a lock over both.
* Which leg of a call an SDP body belongs to has to be guessed from session ids
  that the two sides may share, change, or take with them when one is replaced.
* The state of a media session is written to disk while it is still changing.

## Modules

**Transactions.** `SIPTransaction` has what the four state machines share: parent
and branches, `findBranch`, `terminate`, timers, destruction, `stop()` of the
pool. `SIPClient` adds sending and the user's callbacks (`told` is what the user
was called with in the last step, `sent` what was written) and `SIPServer` the
throttle queue and dispatch. `SIPIct`, `SIPNict`, `SIPIst` and `SIPNist` have an
action per handler; where the two kinds have a handler of the same name it is
prefixed with the kind (`IctSendRequest`, `NistDispatch`). `SIPClients` and
`SIPServers` extend both, choose the kind (`isInvite`) as the dispatcher does, and
state what holds of both.

**Promise to the user.** `SIPClientUser` is the abstract specification of a
client transaction: after a final response a transaction reports no further
response, a timeout (which may still follow one) is the end, and nothing
follows the release. `KeepsUserPromise` says that both kinds implement it;
`answered` is mapped to the transactions with a final response.

**Dispatcher.** In the modules above a handler is one step. `SIPDispatch` splits
handlers where locks are taken and released: INVITEs of one id against two
threads that terminate and a third that stops.

**Transport.** `SIPStreamedConnection` has the connections of one manager to one
peer, TCP or TLS, and the transactions that obtain, use and replace them.
Outstanding operations complete before their handlers run; `writeMessage()` is
two steps, since the lock is released before the buffer is written. A connection
is stopped in two ways: its own handlers set `_isStopping` first
(`StopConnection`), a transaction that times out does not (`ManagerStop` in
`HandleTimeout`), so that reads go on failing, and a connect that had just
succeeded lists the connection, after the socket was closed.

**Media.** `RTPProxySession` is one session: each handler is an operator from the
session and an SDP body to an outcome, and `Handle` is one call of `handleSDP()`.
A body is who wrote it, the session id of its o-line, its media, which of them it
puts on hold (the address 0.0.0.0) and a fault.
`RTPOfferAnswer` is the session as its manager sees it: a state, and what was
written to the state file. `RTPProxyManager` is built on that promise, not on
the session's fields; `KeepsOfferAnswer` says that the session keeps it.

A definition named `X_Variant` is a deliberately wrong `X`, used to show that a
property can fail; no specification refers to it.

## Runs

| Run | Instance | States | Shows |
|---|---|---|---|
| `clients` | two To-tags | 31 thousand | one release, no orphan branch or timer, the promise to the user, no throw on TERMINATED, no retransmission after a response, and that a sent request is released |
| `servers` | one To-tag, queue limit 1 | 650 thousand | dispatched once, a rejected request is not dispatched, a gone id is blocked, COMPLETED has its timer, states never go back, an ACK that a branch waits for is not taken for that of a 2xx |
| `servers_liveness` | one To-tag, queue limit 0 | 210 thousand | retransmission ends, the transaction leaves the pool |
| `dispatch_threads` | four INVITEs | 8 thousand | whatever a thread has begun ends, a gone id is blocked, `setState()` throws only once `stop()` has run, removal by id hits its own transaction |
| `stream` | two connections, two transactions, 2 failed reads | 730 thousand | what is in the map reads, what reads from an open socket is in the map, a delayed message is written first and does not wait for a TCP connect forever, a closed connection leaves the map |
| `rtp_session` | audio and video, four kinds of call | 82 thousand | the relay joins the right parties where they can be told apart, an offer can be answered, the session keeps its promise |
| `rtp_manager` | two threads, two calls, three objects, limit 1 | 470 thousand | references, counter and state files stay consistent across removal, collection, crash and restart |

Five runs state what the sources say and the code does not do:

* `ict_timeout_race`: a queued Timer B reports a 408 after a response.
* `ict_ack_retransmission`: a retransmitted error is not acknowledged over UDP.
* `ict_orphan_timer`: a branch that is held longer than its parent fails the
  assertion in `handleDelayedTerminate()`.
* `dispatch_blocker_race`: an INVITE that passed the blocker before the
  transaction ended becomes a second transaction.
* `rtp_recycle`: a session rebuilt after a restart waits for the answer it
  already had and ignores the next offer of its call, because the state file is
  written before the state becomes NEGOTIATED.

### Bounds

Two To-tags give every case the code tells apart: no branch, the only branch, one
of several. The server transactions run with one, as their state is larger;
two of their branches are covered by the proofs only. The queue limit is 3 in
the code; limit 1 has the cases below, at and above it, limit 0 rejects the first
delayed dispatch. Four INVITEs allow a transaction, its retransmission, a second
transaction and its retransmission. Two connections allow one to fail and be
replaced; the code closes after 5 failed reads in a row, the run after 2, which
has a read that is retried and one that closes. The four kinds of call are: all
parties share a session id, one side changes its id, one side is replaced by a
third party, and a third party with an id of its own joins two that share one.
`RelayJoinsParties` claims nothing of the last kind (see Not modelled), the other
properties do. The run follows a session through refused bodies and stops too. It
compares states by `View`, which hides the destinations that a relay does not use
(of a closed relay, and the second of one that is not started): no handler reads
a destination, and each is set again before the relay uses it.
With a limit of 1 the second call
meets the list exactly at its limit. `rtp_manager` and `rtp_recycle` use the
symmetry of threads, calls and objects, which only invariants are checked with.
Deadlock is checked in the media runs only: a transaction or a connection that
has ended is meant to stop.

### Fairness

`clients` assumes that deadlines pass and that the `io_service` runs what is
queued; `servers_liveness` assumes it of Timers G and H and of the maximum
lifetime. `stream` assumes it of the connect deadline and of the handlers of
connect, handshake, deadline and aborted reads. `dispatch_threads` assumes that a
thread goes on with what it has begun when nobody else holds the lock it needs;
it does not assume that a thread begins anything. Nothing is assumed of the peer, of the network, of the
user or of `stop()`.

## Proofs

The proofs hold for every value of the constants: any To-tags, queue limit,
number of INVITEs, connections, transactions, limit of failed reads, threads,
calls and session objects, media and speakers. They assume what the modules name
as assumptions: that the constants have their types, and that the parent is not
a To-tag.

| Module | Proved |
|---|---|
| `SIPClientsProofs` | types, `ReleasedOnce`, `NothingOutlivesParent`, `AlwaysReaped`, `PooledIsLive`, `SilentAfterRelease`, `TerminatedIsFinal`, `NoTimeoutAfterFinal`, `NoResendAfterResponse`, `KeepsUserPromise` |
| `SIPServersProofs` | types, `DispatchedOnce`, `RejectedIsNotDispatched`, `GoneIsBlocked`, `CompletedIsTimed`, `NeverGoesBack`, `AwaitedAckIsKept` |
| `SIPDispatchProofs` | types, `GoneIsBlocked`, `ThrowsOnlyOnStop`, `RemovesOwnEntry` |
| `SIPStreamedConnectionProofs` | types, `ListedIsReading`, `DelayedGoesFirst` |
| `RTPProxySessionProofs` | types, `KeepsOfferAnswer`; `RelayJoinsParties` and `AnswerableOffer` when no PRACK reaches `handleSDP()` |
| `RTPProxyManagerProofs` | types, `CountMatchesSessions`, `StateFilesOwned` |

Each theorem is about the specification that the run of its property checks.
`SIPClientProofs` and `SIPServerProofs` have the lemmas about what the two kinds
share and about the non-INVITE kind; the modules in the table extend them with
the INVITE kind and the theorems.

**Client transactions.** The inductive invariant is `ClientInv`. It joins
`LifeCycle` (types, `ReleasedOnce`, `NothingOutlivesParent`, that an unseen To-tag
has no timers, and that nothing runs before `sendRequest()`), `PooledIsLive`,
`Reaped`, and what the following arguments need.

* `SilentAfterRelease` needs more than the flag of `terminate()`: a queued handler
  may still run, and is silent only because every released transaction is
  TERMINATED.
* The refinement of `SIPClientUser` needs `Promise`: a transaction that has
  reported a final response is past PROCEEDING, and the timer that reports the
  timeout runs in the parent only, so that its `terminate()` releases the user.
* `NoResendAfterResponse` needs `BranchTimers`: a branch runs no timer but D or K,
  so a queued Timer A or E is the parent's, whose state its handler tests.
* `NoTimeoutAfterFinal` also needs `Noted`: while there is at most one branch, its
  final response has taken the parent past PROCEEDING. With two branches this is
  not so (an error of one does not complete the parent), which is why the
  property counts branches.

**Server transactions.** `IInv` is types, `Sound` (for every transaction of the
set: what the throttle timer, the counter and the calls allow in its state, that
COMPLETED has its timer, that what has terminated is over) and, for an INVITE,
`Heard` (nothing runs before it has been received, and what has left the pool is
blocked). Each action is shown to be a `SafeStep`, which also says that no state
goes back.

**Dispatcher.** The properties are not inductive. `IInv` adds who holds which
lock (`Locked`), that a state read under a lock is current until it is set
(`StateIsCurrent`), that a live transaction is the entry of the pool
(`LiveIsEntry`), and where a thread is within `terminate()` (`InTerminate`).

**Connections.** `IInv` describes each connection by its phase: a client that has
not started (nothing written, no read), one that has (nothing pending), one that
stops. `DelayedGoesFirst` also needs `Passed`: a transaction past `_pendingMutex`
holds a connection that has started.

**Media.** The refinement of `RTPOfferAnswer` needs the state only. The other two
properties need `Sound`, which has two parts, both for sessions that are not yet
spoilt (no body was refused or lacked an address, no stop, and no hold other than
in an offer that keeps the address given before).

* `AnswerableOffer` rests on `Ready`: while an answer is awaited, either the media
  that an initial offer opened are still open (`Opened`), or the leg of a later
  offer is known and the two legs can be told apart (`Asked`). It holds
  whichever party is taken for which.
* `RelayJoinsParties` rests on `Joined`, where the parties of the call are
  `Distinguishable`: their session ids tell them apart or are all the same.
  While waiting, either a first offer is open (`FirstOffer`) or the leg it was
  taken for is that of who made it (`LaterOffer`); after the answer the two legs
  belong to the two parties that the relays join (`Talking`). `LegsApart` is the
  key lemma: the code then takes a body for the leg of the party that sent it.

PRACK is excluded because its answer always goes to `handleSDPAnswer()`, also when
its offer opened the session again; no caller in the repository passes one. For
the manager, `StateFilesOwned` is strengthened to `Owned`: a file has a live
session whose destructor will remove it.

Only model-checked: liveness (`EventuallyReleased`, `RetransmissionEnds`,
`EventuallyGone`, `TaskEnds`, `DelayedIsSettled`, `ClosedIsForgotten`), which is
beyond this prover. Every other
property of a passing run is proved.

## Not modelled

The mapped lines are a small share of the repository, about 187 thousand
lines with the libraries it carries (a STUN stack, an HTTP parser, JSON and
process libraries, a script engine's bindings). Most of the rest has no state
machine to check: parsing and formatting of messages, wrappers of libraries,
configuration.

* Of the parts above: message contents, addresses and ports; timer values and
  the 60 s expiry of the blocker; `handleConnectionError()`, which has no caller;
  two threads inside one client transaction at once; two managers or peers of
  streamed connections; parsing of a stream into messages, and `stopAll()`, which
  ends the `io_service` in the same handler; forwarding of datagrams; session
  states that nothing sets (authentication, UPDATE); contents of state files.
* Exceptions of `sendRequest()` for what is no request and for a missing transport
  service: its only caller refuses the one and sets the other before.
* `setInactive()` of a relay, which only restarts the clock of one that does not
  run. A state file that cannot be read counts as none: the code passes over it
  and leaves it where it is, and it brings nothing back at a later restart.
* What a call means in which some parties share a session id and others do not.
  `handleSDPOffer()` and `handleSDPAnswer()` look at the origin only when the ids
  of both legs are equal, so a party may be taken for another that has its id: of
  two parties with one id, one is replaced by a third party with another id and
  then comes back. The behaviour is in the model, and `RelayJoinsParties` is
  stated for the other calls.
* B2B user agent (`b2bua`): what it does is driven by the callbacks of the client
  transaction, and `SIPClientUser` is what it relies on, so its release and its
  silence afterwards follow from what is proved. Its own data (routing, pending
  subscriptions, dialog records) is left out. Two things there would need a model
  of their own: pending subscriptions are a set of Call-IDs, so the first of two
  transactions to end erases the entry of both, and an exception while routing
  releases the transaction without a response.
* Endpoint (`sipep`): a queue in front of the transactions and one
  retransmission timer, whose race with the ACK is listed as a hazard.
* Border controller (`sbc`): policy over message contents and records in a store.
  Its calls into the media relay are taken in any order, the removal of a
  session when a re-INVITE is rejected included.
* Dialogs, STUN, network wrappers, persistence, utilities, script engine.
* Parsers (`sipparser`, `abnf`, `sdp`): text only.
* RAFT consensus is named in the README of the repository; there is no code for
  it.
