# CHTTP: TLA+ models, checks and proofs

CHTTP is a C library for HTTP servers and clients: HTTP/1.1 and HTTP/2,
WebSocket, JSON-RPC, server sessions, rate limiting, an application layer, an
S3 client and OpenAPI generation.  It stands on the Salts libraries (CNet for
sockets, CFlow for files, cmeta for threads and time), which are not part of
this repository.  This directory holds TLA+ models of its stateful parts, the
TLC configurations that check them, and TLAPS proofs of what matters most.
`PROJECT.json` lists, machine-readably, the components, the runs, the source
lines every definition stands for, the mutants, the hazards and the theorems.

Contents

1. The system
2. Modules, and how they correspond to the code
3. Runs: what is checked, with which bounds, and what it shows
4. Fairness
5. Proofs
6. Disagreements between code and documentation
7. What is not modelled

## 1. The system

**Server lifecycle** (`http_server/src/chttp_server.c`, `chttp_server_acceptor.c`).
One listener thread, one thread per owner lane, and the application that starts,
stops and destroys.  Start can fail after every thread it has created; the
threads decide together to go or to abort; the listener accepts a stream,
reserves a ticket of an owner's handoff, publishes the stream and wakes the
owner's CNet client, which the owner destroys at its end.  Correct when no dead
network object is woken, no start is half done, no ticket or stream is lost, and
start and stop return.

**Deferred responses** (`chttp_server_response.c`, `chttp_server_runtime.h`).
One atomic (generation, state) word per connection slot.  Workers reply or
cancel from any thread while the owner drains, a handler deadline passes, the
peer disconnects, the slot is reused and the server stops.  Correct when a handle
is claimed by one thread, for the request it was issued for, what the owner
sends is complete, and every deferred request is settled once.

**HTTP/1.1 server connection** (`chttp_server.c`).  Parser, output buffer, one
pending transport action, body source, token and flags, driven by CNet's
callbacks and the owner's passes.  Correct when the bytes written are whole
responses in request order, a body source is told its end once, and no
connection is left with nothing to wait for.

**HTTP/2** (`chttp_h2_proto.c`, `chttp_h2_server.c`, `chttp_h2_session.c`).  A
protocol engine both ends share, with stream states, flow control, SETTINGS,
GOAWAY and a ring of reset streams; the server's application streams with
deferred replies; the client's session.  Correct when credit is conserved,
tables of engine and application agree, an answer is whole, and one request's
failure spares the others.

**WebSocket** on the server (`chttp_websocket_server.c`): upgrade, retained
output and stored input over the shared connection or a dedicated bridge, and a
command queue through which any thread sends.  On the client
(`chttp_websocket_client.c`): one blocking handle over HTTP/1.1 or one HTTP/2 stream.
In the pool (`chttp_websocket_pool.c`): many sessions on one HTTP/2 connection.
Correct when commands keep their order and none is lost, transfers are exact, no
peer is left deaf, and a failing session spares its siblings.

**Client pool and blocking client** (`chttp_client.c`, `chttp_requests.c`,
`chttp_file_sink.c`).  Request slots, pooled connections, file transfers.  Cancel,
deadline, close, stop and a response that precedes the end of its request race.
Correct when each accepted request gets one callback with its own response,
connections return to the pool only when quiet, and stop drains.

**Sessions** (`chttp_session.c`): a table of records with generations, and a
private snapshot per request.  **Rate limiter** (`chttp_rate_limit.c`): a table of
token buckets whose callers read the clock before they lock.  **JSON-RPC**
(`http_server/rpc`, `http_client/rpc`, `http_common/rpc`): registry and dispatcher, calls with their frames, the client's
calls, and the codec.  **Application service** (`app/src/chttp_service.c`): mounted
methods, inline or on an executor, settled through a deferred response.
**S3 uploads** (`s3_multipart.c`, `s3_file.c`): multipart handles and resumable
uploads with a checkpoint.

How they interact: the listener hands streams to owners; an owner runs all
callbacks of its connections; handlers run on the owner and may pass a deferred
handle to application threads, which wake the owner; sessions and the limiter are
shared by owners under their own mutexes; the blocking client, the RPC client and
the S3 client sit on the asynchronous client.

## 2. Modules

| Module | Models | State and actions |
|---|---|---|
| `ServerLifecycle` | lifecycle | `serverFlags` is the set of true Booleans of `chttp_server_impl`; `ctl`, `lpc`, `ownerPc` say where the application, listener and owner threads are; one action per critical section, handoff call or failure |
| `DeferredContract` | what a deferred response promises | tickets that are admitted, settled once by a reply or a cancel, delivered at most once, to the connection that asked |
| `DeferredResponse` | the token protocol | `generation`/`phase` is the atomic word; worker actions claim, copy, publish, wake; owner callbacks are split where a worker can interleave |
| `H1Connection` | one server connection | one action per callback or owner pass; requests are numbers, bytes are sequences of items (head, chunk, final, body, error) |
| `H2Protocol` | the HTTP/2 engine of one end | an engine is a record; every frame, call and limit is an operator on it |
| `H2Server`, `H2Session` | the two users of an engine | application streams of the server, requests of the client, as records beside their engine |
| `H2Link` | client and server over two byte streams | one action per read of a segment, callback, file completion, deadline, cancel, stop and loss of the connection |
| `WebSocketServer` | one slot of an owner lane and its commands | `peer` is the connection slot with its `websocket_peer`; `queue`, `pending`, `todo`, `held`, `claims` are the lane's arrays and counters; `prod` says which producer copies outside the lock |
| `WebSocketClient` | the blocking WebSocket handle | one action per call, per turn of its wait loop and per event of the peer |
| `WebSocketPool` | the WebSocket pool | slots with generations, event rings, one engine; one action per call, turn and event |
| `ClientPool` | client pool and blocking client | `slots` and `sessions` are the two tables; `net` and `wire` are CNet and the peer; `phase` says whether the user, a poll or a stop runs |
| `SessionStore` | the session table | request stages `begin` … `serialize`; a value is named by the session that wrote it |
| `TokenBucket`, `RateLimit` | what the limiter promises, and its table | one unbounded bucket per identity; callers read the clock, then are admitted, limited or refused in one critical section |
| `RpcServer`, `RpcClient`, `RpcCodec` | JSON-RPC | mounting and dispatch by several owners; calls with deadlines and cancels; the token writer, the depth check and the number reader, character by character |
| `AppService` | application service | mounting, binding, inline and executor invocations, settlement, destroy |
| `S3Multipart` | S3 uploads | the handle, the file upload's steps, the service and the source file that may change under it |
| `ServerLifecycleProofs`, `DeferredResponseProofs`, `H1ConnectionProofs`, `H1FramingProofs`, `WebSocketServerProofs`, `RateLimitProofs`, `SessionTableProofs`, `SessionStoreProofs` | | theorems about the module each extends |
| `MC…` | | instances for TLC, with symmetry where it is sound |

A definition introduced as a fault or a mutant (`RetryPendingKeeps`, `FeedDrops`
and the like) is not used by its specification.  It is a plausible bug of the
definition below it, kept to show that a property notices it (`mutants` in
`PROJECT.json`).

Abstractions common to all modules: statuses are success or failure unless a
property tells them apart; payloads, headers and logging are left out; a mutex
section is one step; CNet, CFlow and the clock are environment actions with the
outcomes the code has to cope with (refusal for lack of space, failure, end).

What each module leaves out: `H1Connection` takes requests whole and leaves out
streamed request bodies and sends or receives that CNet refuses for good; its
upgrade is in `WebSocketServer`.  `H2Protocol` takes
a header block as one frame with a tag and leaves out malformed frames.
`WebSocketServer` leaves out broadcasts and WebSocket over an HTTP/2 stream of the
server.  `ServerLifecycle` leaves out a destroy that is refused over claims of
WebSocket commands.  `SessionStore` abstracts values and sizes; entries are limited by
number.  `ClientPool` takes responses as partial, final or malformed, and models
HTTP/1.1 only.  `RpcServer` takes a document as a record of what the dispatcher
tells apart, and leaves out a failing allocation of the batch's tables.  `S3Multipart` leaves out the XML.

Some variables are fixed by the initial state and never change (`behind` and
`tight` in `H1Connection`, `config` in `ClientPool`, `wsPlan`, `plan`, `poolPlan`,
`script`, `scenario`, `limiter`, `appPlan`): each behaviour is one of several
kinds of environment, and a property that holds for some of them says so.

## 3. Runs

| Run | Instance | Shows |
|---|---|---|
| `threads` | lifecycle: 2 owners, 2 streams, 1 ticket each; deferred: 1 slot, 2 workers, 2 generations, 2 connections | Every start, failure and stop of three kinds of thread: no wake of a dead client, one verdict on a start, tickets and streams conserved (`LifecycleSafe`); claims exclusive, ready responses intact, no teardown during a wake (`TokensSafe`); the token protocol implements `DeferredContract` (`ContractHolds`); start returns, drain completes, and a stop completes unless an owner waits for an occupied connection slot for ever |
| `h1` | 3 requests, bodies of 2 reads, three kinds of environment | Whole responses in order, each body source told its end once, nothing wedged, every request settled |
| `session` | 2 requests, 1 slot, 3 identifiers, 2 keys, generations modulo 3 | Isolation under reuse and wrap-around, no orphan, no eviction, a cleared cookie is dead |
| `client` | 2 slots, 1 connection, 3 requests | A stop that reports success has drained; cancels, deadlines and closes end |
| `connections` | HTTP/2: 2 streams at a time, windows of 2 of at most 6, 3 requests, sends and closes that CNet may refuse, a blocking download with a deadline; pool: 2 slots, 2 streams of the peer, rings of 2 events | Credit conserved, an engine fails only for streams it forgot, tables agree, answers whole, nobody waits for what nobody owes; the pool's events per session are what its peer sent, and a failing session spares its siblings |
| `services` | one component at a time, see below | the pool's one callback per request; the limiter's buckets; WebSocket commands, transfers and waits; RPC frames, batches, calls, parameters, encodings and numbers; the application service's tasks; S3 commits and orphaned uploads |
| `deferred_deadline`, `h1_pipelining`, `h1_shutdown`, `session_regenerate`, `client_recovery`, `h2_cancel` | smaller | Counterexamples, see section 6 |

**Composite runs.**  `threads`, `connections` and `services` each hold several
components that do not interact: a variable `side` or `part`, fixed in the
initial state, says which one a behaviour exercises, and the others keep an
initial state.  A property of one component therefore means in these runs exactly
what it means in a run of its own; a property that fails for the initial state
of an idle component would fail here too.

**Why the bounds are enough for what they are used for.**  Two owners give the
partial start (one thread created, the next refused) and the choice between
lanes; one ticket per lane makes every second stream meet a full handoff.  Two
workers and two generations give every race for a token, stale handles and slot
reuse.  Three requests give a response in progress, one kept behind it and one
still to be read; bodies of two reads separate first, middle and last.  One
session slot forces every reuse, and generations modulo 3 wrap within a run.  Two
connections and two keys give reuse, mismatch, eviction and a full pool; a third
request on one connection finds what the second left there.  HTTP/2 windows of 2
bytes make every second byte wait for credit, and a stream cap of 2 with three
requests gives refusal and reuse of a stream slot.  A refill of 2 tokens in 3
ticks makes every division inexact; three identities on two slots force reuse and
refusal.  Two producers and two commands fill the WebSocket queue; two owners with
one call slot meet its exhaustion; a batch of two has a first and a last item;
texts of 5 characters over `0 1 2 . e -` contain every shape the number reader
tells apart, and reach both limits and their neighbours: `MaxUint` (201) stands
for 2^64 - 1, `MaxInt` (100) for 2^63 - 1, and the least signed value is reached
too.  Files of 3 and 4 bytes with parts of at least 2 have a short
last part and a full one; two calls and one fault give a resumed upload.

The bounds on time, requests, calls, faults and chunks (`SessionTime`, `RateTime`,
`RpcTime`, `MaxRequests`, `MaxRpcRequests`, `MaxCalls`, `MaxFaults`, `MaxChunks`,
`MaxGeneration`, `MaxPeer`, `MaxLost`) end behaviours and are not in the code;
2^32 generations of a token and `TimeLimit` are.

Deadlock is checked in `threads`, `h1`, `session` and `client`, whose final states
are explicit (`Terminated`, `Stopped` and the like).  In `connections` and
`services` a scenario ends when its scripted calls are made, and the system may
then stop; that nothing which is owed is missing in such a state is what
`NeverStranded`, `WaitsAreOwed`, `CallsSettle` and `NeverDeaf` say (`WaitsAreOwed`
with one exception, below).

**Tight budgets.**  With `"tight"` the shared buffer budget may run out at any
allocation.  `NeverWedged` and `ResponsesFramed` are then not claimed, because
they fail: an error response for which there is no room leaves
`close_after_write` set with nothing to write, and nobody closes the connection
(`chttp_server.c:945`, `:657-660`); and when pipelined bytes cannot be kept behind
a paused retained response, the error response is put between its head and its
body (`chttp_server.c:835`).  `SourcesOwned` is checked under a tight budget too.

**What the models also show**, without a line of documentation that says
otherwise:

* Two owners that share a limiter can be refused with `SALTS_EINVAL` when they
  take the mutex in the opposite order of their clock readings
  (`chttp_rate_limit.c:163-166`, action `TimeGoesBack`); buckets stay right.
* An engine remembers as many reset streams as it has stream slots.  Frames for a
  stream it has forgotten are a connection error (`FailsOnlyForgotten` says that
  this is the only way an engine fails against this peer), and so is credit that
  arrives late (`chttp_h2_proto.c:1426-1430`, against the comment that follows).
* A server stream whose slot a worker still holds in WRITING is refused with
  RST_STREAM(PROTOCOL_ERROR), an error the client's request did not cause.
* A second segment that arrives while a WebSocket peer stores input closes that
  peer.
* A request that finds every RPC call slot taken is answered with -32603.
* A lost answer to the request that completes an S3 upload leaves a checkpoint
  that names an upload which no longer exists.

**Where a passing property names an exception** that a line of the documentation
does not allow:

* A blocking WebSocket send on HTTP/2 whose DATA has no credit polls without a
  receive armed (`drain_output`, `chttp_websocket_client.c:548-565`), so nobody
  reads the WINDOW_UPDATE it waits for: it hangs until its deadline, and for ever
  without one, though `http.h:461` says "Blocking sends; callers never drive a
  poller."  A frame the engine kept behind an earlier one waits out the poll
  interval.  `WaitsAreOwed` excepts exactly these two.
* A session of the WebSocket pool is closed, a later open reuses its entry of the
  stream table, and a frame the peer sent before it saw the close arrives: the
  engine fails and every sibling ends with EPROTO, though `http.h:522` says "Closes
  and releases only this HTTP/2 stream; sibling sessions remain usable."  The cause
  is that of `h2_cancel` (section 6).  `SiblingsSpared` excepts exactly this step.
* An asynchronous RPC call looks at the clock once, before it decodes the answer,
  while a comment in `chttp_client.c:444` says "The wire deadline includes response
  decode and callback delivery".  `AnswersMeetTheirCall` speaks of that look.
* A stop waits for the connections of an owner that drains, and `h1_shutdown`
  shows one that never closes.  `StopCompletes` excepts an owner that waits for
  an occupied slot for ever.

## 4. Fairness

Fairness is assumed only where the code, or what it runs on, repeats an action
until it is done.

* `ServerLifecycle` (`LifecycleFairness`): each thread takes its next step if it
  stays enabled (the operating system runs every thread).  No fairness on
  connections, clients or the user: a connection that is asked to close may stay
  (`h1_shutdown`), and `StopCompletes` says so.
* `DeferredResponse`: the owner's loop visits every slot; a worker inside
  `chttp_server_deferred_reply` goes on; a connection that is to close is closed,
  which holds here because no body is streamed (section 6, `h1_shutdown`).  `SettlingFairness` adds that the
  application settles handles it was given, without which the documentation
  promises no stop.
* `H1Connection` (`FairSpec`): the owner's loop retries, CNet completes accepted
  work and accepts a retried action in the end, workers settle, files become
  ready.  The peer owes nothing.
* `ClientPool` (`FairSpec`): the user goes on polling or waits in stop; CNet does
  not refuse a close for ever and ends connections it agreed to close; file
  operations end.

No property of `session`, `connections` and `services` needs fairness.

## 5. Proofs

The theorems hold for every number of owners, tickets, streams, slots, workers,
generations, connections, requests, producers and commands, from the named
assumptions of the modules only: there is at least one owner, ticket, generation,
connection and request, a streamed body takes at least one read, capacities and
limits are natural numbers, and null values are not members of the sets they
complete.

*Lifecycle* (`ServerLifecycleProofs`).  Type correctness and every safety
invariant in `LifecycleSafe`, and two more (`DoneMeansExited`: `worker_done` means
that every thread has finished; `SealedInboxEmpty`: a sealed inbox holds no
stream).  None is inductive: that the listener wakes a live network, say, follows
from where the owner is, which follows from flags that other threads set.  The
invariant `IInv` says what ties them: `PhaseInv` (how far start has come decides
which flags can be set), `ReportInv` (what a thread has reported and where it must
be by then), `ThreadInv` (past a wait, the awaited flag holds), the runtime state
and network of an owner by position, and the place and ticket of each stream.
Each part is preserved by its own lemma, with a step for each action, or for the
actions that leave the same things alone.

*Deferred responses* (`DeferredResponseProofs`).  The
inductive invariant is `TypeOK`, `TokenInv` (a token that is not idle protects the
builder of its own generation), `WorkerInv` (at most one claimant, of the current
generation; the mutex around a wake), `DrainInv`, `HistoryInv` and `SettledInv`
(the history the contract speaks of agrees with the tokens).  From it follow the
safety invariants, the action property that the network is not torn down during
a wake, and `ContractImplemented`: every step of the token protocol is a step of
`DeferredContract` or leaves it unchanged.

*HTTP/1.1 connection* (`H1ConnectionProofs`, `H1FramingProofs`).  `NeverWedged`,
`SourcesOwned` and `ResponsesFramed`, for any number of requests, any length of a
streamed body and every circumstance the property names.  `H1Inv` says of each flag
what it excludes and what it promises: a receive that is demanded or pending finds
the exchange over (`ReceiveClear`); a paused parser has a reason that ends
(`Pauses`); a source excludes every other reason to hold the connection back
(`Streams`); the one pending action and what CNet has accepted do not compete
(`Submissions`); a connection that is to close waits neither for its peer nor for a
file (`Wakes`).  All handlers end in `connection_retry`, so each step lemma first
derives with which action and which flags, and then what that leaves.
`ResponsesFramed` is about bytes already written, and needs to know what is still
to be written: `FramingInv` is about `Written`, the wire with outbound and the
retained body behind it.  Between exchanges it holds one whole response for each
request parsed (one fewer while a response is deferred); while a source is read it
ends in a head and as many items as were read, with the flags that stream_next will
frame the end of the body by.  Its lemmas are about sequences: what may follow a
whole response, what may follow a partial one, and what makes it whole.

*WebSocket server* (`WebSocketServerProofs`).  `NeverDeaf` (an open connection on
which nothing is being sent has a receive armed, or something that will resume
it, or is being closed) and `CommandsOrdered` (the lane's arrays never overflow, no
published command is lost, and a peer accepts its commands in the order they were
published).  `NeverDeaf` rests on `WsTypes`, whose part `PeerInv` says of the slot, alone, which
combinations of flags its handlers leave behind: what is retained, stored or
pending, and which callback will come for it; each handler is an operator on the
slot's record and has a lemma.  `CommandsOrdered` rests on `OrderInv`: the queue,
the lane's pending array and the pass in progress, laid end to end, are in order;
outside a pass the counter of held commands is the length of the pending array;
inside one, a command stays behind only if its peer is blocked; and the number of
claims is that of the producers that are copying.

*Rate limiter* (`RateLimitProofs`).  `BucketsKept`, for every
burst, refill rate, table size, set of identities and number of callers.  The
table is bounded and refilled lazily: a slot's credit is brought up to date only
when a search visits it, and the slot of a full bucket may be given to another
identity.  The buckets of `TokenBucket` are the levels the table stands for
(`Level`: the credit refilled up to now, or full if the identity has no slot).
The argument has three parts.  Filling may be split (`FillsInParts`), so a slot
that was visited and one that was not stand for the same level.  A slot changes
hands only when it is full, so the identity that loses it and the one that gains
it both stay full (`TakeDecided`, `LevelsMove`).  And the mutex orders the calls,
though callers read the clock before they take it: a reading older than the last
decision is refused, so time never runs backwards for a bucket.  The invariant
adds to the types that no two slots hold the same identity, that Retry-After
suffices, and an account: what an identity was granted plus what its bucket holds
is at most the burst plus what has been refilled, which gives the bound on
admissions.

*Sessions* (`SessionTableProofs`, `SessionStoreProofs`).  `SessionsIsolated`,
`NoOrphan`, `ClearMeansGone` and the action property `NoEviction`, for any number of
requests, slots, identifiers and keys and any width of the generation above one.
None is inductive: that a stale context is harmless depends on what
`record_matches` will find when its request finishes, many steps later.  `SessionInv` adds `TableInv` (live
records have names of their own and hold their own session's values) and, for
each request, `RequestInv`.  Its core is `Borrowing`: whatever record bears the
identifier of a request's context *now* is in the slot, and of the generation, that
the request borrowed; so a match by slot, generation and identifier is the same
session even after the generation wrapped.  A request in flight holds (`Holds`)
each record whose identifier is neither published nor lost, and a request that was
invalidated can name no live record.  Every operation of a request is one of four
kinds: it lets go of its record, it ends, it keeps what it has, or it gives a record
a fresh name (`LetGoStep`, `EndStep`, `KeepStep`, `NameStep`); each kind keeps the
other requests' invariants because identifiers are never drawn twice.

Only model-checked: all liveness properties, which need fairness and `ENABLED`;
what the recursive definitions of `RpcCodec` compute, which needs induction over
their inputs; and the modules without a proof module.

## 6. Disagreements

Each is a run whose property states a line of the documentation and fails; the
quotation is in `findings`.

* `deferred_deadline`: a handler deadline that expires while a worker copies its
  reply is dropped, and stays dropped when the reply fails.
* `h1_pipelining`: a request pipelined behind a streamed response is answered
  between the head and the body of that response.
* `h1_shutdown`: a stop that arrives during a streamed response is forgotten when
  the stream ends, and the connection stays open.
* `session_regenerate`: a response that fails after `chttp_session_request_finish`
  leaves the regenerated session under an identifier no client has.
* `client_recovery`: a blocking download whose deadline expires after its
  connection has ended, with the last write pending, leaves a slot that nothing
  completes; the recovery's stop reports busy for ever.
* `h2_cancel`: the cancel of an HTTP/2 request crosses the end of its answer.  The
  server has given the entry of the closed stream to the next request, takes the
  late RST_STREAM for a connection error, and the next request is lost with the
  connection.

## 7. Not modelled

Text in and out has no interleavings and is left to unit tests: HTTP head parsing
and serialisation, HPACK and its Huffman code, JSON strings, URIs, multipart forms,
server-sent events, S3 signatures and XML, TLS profiles, OpenAPI documents.
Routing, CORS, JWT and interceptors are functions of one request.  The web layer
and the server's file service handle one request at a time on its owner's thread.
The validation of configuration values is left out; the models assume a valid
configuration.  Memory management is not modelled.  External libraries are
modelled by what the code relies on.  What each modelled component leaves out is
in section 2 and in `PROJECT.json`.
