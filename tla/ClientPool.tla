----------------------------- MODULE ClientPool -----------------------------
(***************************************************************************)
(* The HTTP/1.1 half of the asynchronous client (chttp_client.c) and the   *)
(* blocking calls built on it (chttp_requests.c).  A fixed table of        *)
(* request slots shares a fixed table of pooled connections, the sessions. *)
(* One thread submits, cancels, polls and stops; everything the network    *)
(* and the file system report arrives as a callback inside a poll or a     *)
(* stop.                                                                   *)
(*                                                                         *)
(* CNet is external.  A connection delivers one terminal event and nothing *)
(* after it; close, send and receive may be refused for lack of space.     *)
(* The peer answers each request at most once and in order, perhaps before *)
(* it has read all of the request.                                         *)
(***************************************************************************)
EXTENDS Integers, Sequences, FiniteSets, FiniteSetsExt

CONSTANTS
    SlotCount,     \* request_capacity
    SessionCount,  \* the largest connection_capacity
    Keys,          \* pool keys: connection URI, authority, TLS profile
    MaxRequests,   \* bound: submits that are accepted
    MaxChunks,     \* bound: body chunks a request source yields
    Clients        \* the clients: connection_capacity, the bound on their
                   \* requests, whether they are blocking, which requests have
                   \* an RPC deadline (timed), a body source (sourced) or a
                   \* download file, whether CNet may refuse a close or a receive

ASSUME SizesAssumption == {SlotCount, SessionCount, MaxRequests, MaxChunks} \subseteq Nat \ {0}
ASSUME ClientsAssumption ==
    \A c \in Clients :
       /\ c.connections \in 1 .. SessionCount /\ c.requests \in 1 .. MaxRequests
       /\ c.timed \union c.sourced \union c.downloads \subseteq 1 .. c.requests

Slots == 1 .. SlotCount
Sessions == 1 .. SessionCount
Requests == 1 .. MaxRequests
None == 0

VARIABLES
    phase,     \* who runs: "user", "poll", "stop", and "stopped" at the end
    stopping,  \* stop_active
    slots,     \* the request slots
    sessions,  \* the pooled connections
    net,       \* CNet's connection of each session
    wire,      \* per session: the requests the peer has still to answer
    next,      \* number of the next accepted request
    late,      \* requests whose deadline has passed
    asked,     \* requests the user has cancelled successfully
    results,   \* per request: what its callback was told, in order
    answer,    \* per request: the request whose response it was given
    drained,   \* history: the outcome of the last completed stop
    config     \* fixed: the client, an element of Clients

vars == <<phase, stopping, slots, sessions, net, wire, next, late, asked,
          results, answer, drained, config>>

SlotFlags == {"delivered", "canceled", "deadline", "source", "final_pending",
              "reading", "head", "complete", "keep_alive"}
SessionFlags == {"receive_armed", "send_pending", "close_admitted",
                 "close_pending", "transport_closed"}
SlotStates == {"FREE", "CONNECTING", "BUSY", "CLOSING", "TERMINAL"}
SessionStates == {"FREE", "CONNECTING", "ACTIVE", "IDLE", "CLOSING", "TERMINAL"}
\* "absent": not a download; "detached": the caller took its transfer back.
SinkStates == {"absent", "ready", "writing", "detached"}
Statuses == {"ok", "failed", "canceled", "timeout", "shutdown"}

FreeSlot == [state |-> "FREE", request |-> 0, session |-> None, flags |-> {},
             sent |-> 0, sink |-> "absent", answers |-> 0]
FreeSession == [state |-> "FREE", slot |-> None, key |-> None, flags |-> {}]

Init ==
    /\ phase = "user" /\ stopping = FALSE
    /\ slots = [r \in Slots |-> FreeSlot]
    /\ sessions = [s \in Sessions |-> FreeSession]
    /\ net = [s \in Sessions |-> "none"]
    /\ wire = [s \in Sessions |-> <<>>]
    /\ next = 1 /\ late = {} /\ asked = {}
    /\ results = [q \in Requests |-> <<>>]
    /\ answer = [q \in Requests |-> 0]
    /\ drained = "none"
    /\ config \in Clients

\* The sessions connection_capacity provides.
Pooled == 1 .. config.connections

Outcome == IF config.refuses THEN BOOLEAN ELSE {TRUE}

-----------------------------------------------------------------------------
(* What the callbacks are made of.  x and y are a slot and its session as  *)
(* the code has changed them so far; ok says whether CNet takes the close. *)

Plus(x, f) == [x EXCEPT !.flags = @ \union f]
Minus(x, f) == [x EXCEPT !.flags = @ \ f]

\* chttp_h1_try_close
TryClose(y, ok) ==
    IF y.state = "FREE" \/ y.flags \cap {"transport_closed", "close_admitted"} # {}
    THEN y
    ELSE IF ok
    THEN Minus(Plus([y EXCEPT !.state = "CLOSING"], {"close_admitted"}), {"close_pending"})
    ELSE Plus([y EXCEPT !.state = "CLOSING"], {"close_pending"})

\* The status chttp_slot_deliver reports: a deadline that has passed replaces
\* it, unless the user cancelled first.
Reported(x, status) ==
    IF \/ "deadline" \in x.flags
       \/ x.request \in late /\ "canceled" \notin x.flags
    THEN "timeout" ELSE status

\* chttp_slot_deliver
Deliver(x, status) ==
    /\ results' = [results EXCEPT ![x.request] = Append(@, Reported(x, status))]
    /\ answer' = IF Reported(x, status) = "ok"
                 THEN [answer EXCEPT ![x.request] = x.answers] ELSE answer

Put(x, y) ==
    /\ slots' = [slots EXCEPT ![y.slot] = x]
    /\ sessions' = [sessions EXCEPT ![x.session] = y]

Silent == UNCHANGED <<results, answer>>

Closed(y) == "transport_closed" \in y.flags

\* chttp_slot_try_close
SlotTryClose(x, y, ok) ==
    Put([x EXCEPT !.state = IF @ = "TERMINAL" THEN @ ELSE "CLOSING"], TryClose(y, ok))

\* chttp_slot_fail_and_close
FailAndClose(x, y, ok) ==
    /\ Deliver(x, "failed")
    /\ IF Closed(y)
       THEN Put(Plus([x EXCEPT !.state = "TERMINAL"], {"delivered"}),
                Minus(y, {"close_pending"}))
       ELSE SlotTryClose(Plus(x, {"delivered"}), y, ok)

\* A fault: result_delivered is not set.
CompleteResponseUnmarked(x, y, ok) ==
    /\ Deliver(x, "ok")
    /\ IF Closed(y) THEN Put([x EXCEPT !.state = "TERMINAL"], y)
       ELSE SlotTryClose(x, y, ok)

\* A fault: a response that comes before the request is sent is as good.
CompleteResponseEarly(x, y, ok) ==
    LET told == Plus(x, {"delivered"}) IN
    /\ Deliver(x, "ok")
    /\ IF Closed(y) THEN Put([told EXCEPT !.state = "TERMINAL"], y)
       ELSE IF "keep_alive" \notin x.flags \/ "canceled" \in x.flags \/ stopping
       THEN SlotTryClose(told, y, ok)
       ELSE Put([told EXCEPT !.state = IF "send_pending" \in y.flags
                                       THEN @ ELSE "TERMINAL"], y)

\* chttp_slot_complete_response
CompleteResponse(x, y, ok) ==
    LET told == Plus(x, {"delivered"}) IN
    /\ Deliver(x, "ok")
    /\ IF Closed(y) THEN Put([told EXCEPT !.state = "TERMINAL"], y)
       ELSE IF \/ "keep_alive" \notin x.flags
               \/ "source" \in x.flags \/ "canceled" \in x.flags \/ stopping
       THEN SlotTryClose(told, y, ok)
       ELSE Put([told EXCEPT !.state = IF "send_pending" \in y.flags
                                       THEN @ ELSE "TERMINAL"], y)

\* chttp_slot_arm_receive
ArmReceive(x, y, armed, ok) ==
    IF armed \/ "receive_armed" \in y.flags
    THEN Put(x, Plus(y, {"receive_armed"})) /\ Silent
    ELSE FailAndClose(x, y, ok)

\* The response once its bytes are parsed and its file is up to date.
Proceed(x, y, armed, ok) ==
    IF "complete" \in x.flags THEN CompleteResponse(x, y, ok)
                              ELSE ArmReceive(x, y, armed, ok)

Unmoved == UNCHANGED <<phase, stopping, next, late, asked, drained, config>>

\* Callbacks run inside a poll or a stop.
InCallbacks == phase \in {"poll", "stop"}

\* A request still waiting for its result, and not given up.
Waiting(x) ==
    /\ x.state = "BUSY" /\ ~ stopping
    /\ x.flags \cap {"delivered", "canceled"} = {}

SlotOf(s) == slots[sessions[s].slot]

-----------------------------------------------------------------------------
(* Connections. *)

\* chttp_cnet_state, CONNECTED: the request is handed to CNet.
Connected(s) ==
    LET x == SlotOf(s)
        y == [sessions[s] EXCEPT !.state = "ACTIVE"]
        busy == [x EXCEPT !.state = "BUSY"]
    IN  /\ InCallbacks /\ net[s] = "connecting"
        /\ net' = [net EXCEPT ![s] = "open"]
        /\ IF x.state = "CONNECTING" /\ "canceled" \notin x.flags /\ ~ stopping
           THEN \E sent, armed, ok \in Outcome :
                   IF sent
                   THEN /\ wire' = [wire EXCEPT ![s] = Append(@, x.request)]
                        /\ ArmReceive(busy, Plus(y, {"send_pending"}), armed, ok)
                   ELSE FailAndClose(busy, y, ok) /\ UNCHANGED wire
           ELSE UNCHANGED <<slots, sessions, wire>> /\ Silent
        /\ Unmoved

\* What an ended connection means for its request: how is CNet's terminal
\* state, eof a CLOSED that completes a response without a length.
Ending(x, how) ==
    IF "canceled" \in x.flags THEN "canceled"
    ELSE IF stopping THEN "shutdown"
    ELSE IF how = "eof" \/ (how = "closed" /\ "complete" \in x.flags) THEN "ok"
    ELSE "failed"

\* A fault: a slot that was already told its result is not terminated.
ConnectionEndsLeaves(s, how) ==
    LET y == Minus(Plus([sessions[s] EXCEPT !.state = "TERMINAL"], {"transport_closed"}),
                   {"receive_armed", "send_pending"})
        x == SlotOf(s)
        told == y.slot # None /\ "delivered" \notin x.flags
    IN  /\ InCallbacks /\ net[s] \in {"connecting", "open"}
        /\ net' = [net EXCEPT ![s] = "closed"]
        /\ wire' = [wire EXCEPT ![s] = <<>>]
        /\ sessions' = [sessions EXCEPT ![s] = y]
        /\ IF told
           THEN /\ slots' = [slots EXCEPT ![y.slot] =
                               Plus([x EXCEPT !.state = "TERMINAL"], {"delivered"})]
                /\ Deliver(x, Ending(x, how))
           ELSE UNCHANGED slots /\ Silent
        /\ Unmoved

\* chttp_cnet_state, CLOSED or FAILED.  A complete response whose file is not
\* written yet leaves the slot waiting for the file.
ConnectionEnds(s, how) ==
    LET y == Minus(Plus([sessions[s] EXCEPT !.state = "TERMINAL"], {"transport_closed"}),
                   {"receive_armed", "send_pending"})
        x == SlotOf(s)
        over == Plus([x EXCEPT !.state = "TERMINAL"], {"delivered"})
    IN  /\ InCallbacks /\ net[s] \in {"connecting", "open"}
        /\ how = "eof" => y.slot # None /\ x.flags \cap {"head", "complete"} = {"head"}
        /\ net' = [net EXCEPT ![s] = "closed"]
        /\ wire' = [wire EXCEPT ![s] = <<>>]
        /\ IF y.slot = None
           THEN /\ sessions' = [sessions EXCEPT ![s] = y]
                /\ Silent /\ UNCHANGED slots
           ELSE IF "delivered" \in x.flags
           THEN Put(over, Minus(y, {"close_pending"})) /\ Silent
           ELSE IF Ending(x, how) = "ok" /\ x.sink = "writing"
           THEN Put(Plus(x, {"complete"}), y) /\ Silent
           ELSE Put(over, Minus(y, {"close_pending"})) /\ Deliver(x, Ending(x, how))
        /\ Unmoved

Receiving(s) ==
    InCallbacks /\ net[s] = "open" /\ "receive_armed" \in sessions[s].flags

\* chttp_cnet_receive on a connection without a request: bytes nobody asked for.
ReceiveStray(s) ==
    /\ Receiving(s) /\ sessions[s].slot = None
    /\ \E ok \in Outcome :
          sessions' = [sessions EXCEPT ![s] = TryClose(Minus(@, {"receive_armed"}), ok)]
    /\ UNCHANGED <<slots, net, wire>> /\ Silent /\ Unmoved

\* chttp_cnet_receive for a request that is given up.
ReceiveUnwanted(s) ==
    /\ Receiving(s) /\ sessions[s].slot # None /\ ~ Waiting(SlotOf(s))
    /\ \E ok \in Outcome :
          SlotTryClose(SlotOf(s), Minus(sessions[s], {"receive_armed"}), ok)
    /\ UNCHANGED <<net, wire>> /\ Silent /\ Unmoved

\* chttp_cnet_receive: the bytes are not a response within the limits.
ReceiveFails(s) ==
    /\ Receiving(s) /\ sessions[s].slot # None /\ Waiting(SlotOf(s)) /\ wire[s] # <<>>
    /\ \E ok \in Outcome :
          FailAndClose(SlotOf(s), Minus(sessions[s], {"receive_armed"}), ok)
    /\ UNCHANGED <<net, wire>> /\ Unmoved

\* chttp_cnet_receive: some of a response, or, when final, all that was
\* missing.  A download hands its bytes to the file first.
ReceiveResponse(s, final, keep) ==
    LET y == Minus(sessions[s], {"receive_armed"})
        x == Plus([SlotOf(s) EXCEPT !.answers = Head(wire[s])],
                  {"head"} \union (IF final THEN {"complete"} ELSE {})
                           \union (IF keep THEN {"keep_alive"} ELSE {}))
    IN  /\ Receiving(s) /\ sessions[s].slot # None /\ Waiting(SlotOf(s)) /\ wire[s] # <<>>
        /\ keep => final
        /\ \E armed, ok \in Outcome :
              \/ Proceed(x, y, armed, ok)
              \/ x.sink = "ready" /\ FailAndClose(x, y, ok)
              \/ x.sink = "ready" /\ Put([x EXCEPT !.sink = "writing"], y) /\ Silent
        /\ wire' = [wire EXCEPT ![s] = IF final THEN Tail(@) ELSE @]
        /\ UNCHANGED net /\ Unmoved

-----------------------------------------------------------------------------
(* The request body and the files. *)

\* chttp_slot_source_advance: the source fails, yields a chunk, ends with the
\* final chunk or at its length, or waits for the file system.
SourceAdvance(x, y, ok) ==
    IF ~ Waiting(x) \/ "source" \notin x.flags THEN Put(x, y) /\ Silent
    ELSE IF "final_pending" \in x.flags
    THEN Put(Minus(x, {"source", "final_pending"}), y) /\ Silent
    ELSE \/ FailAndClose(x, y, ok)
         \/ /\ x.sent < MaxChunks
            /\ Put([x EXCEPT !.sent = @ + 1], Plus(y, {"send_pending"})) /\ Silent
         \/ Put(Plus(x, {"final_pending"}), Plus(y, {"send_pending"})) /\ Silent
         \/ Put(Minus(x, {"source"}), y) /\ Silent
         \/ config.blocking /\ Put(Plus(x, {"reading"}), y) /\ Silent

\* chttp_cnet_send: the accepted bytes are written.
SendDone(s) ==
    LET x == SlotOf(s)
        y == Minus(sessions[s], {"send_pending"})
    IN  /\ InCallbacks /\ net[s] = "open" /\ "send_pending" \in sessions[s].flags
        /\ IF "delivered" \in x.flags
           THEN /\ Put([x EXCEPT !.state = IF @ = "BUSY" THEN "TERMINAL" ELSE @], y)
                /\ Silent
           ELSE \E ok \in Outcome : SourceAdvance(x, y, ok)
        /\ UNCHANGED <<net, wire>> /\ Unmoved

\* chttp_slot_file_ready: a read of an uploaded file has finished.
FileReady(r) ==
    /\ InCallbacks /\ "reading" \in slots[r].flags
    /\ \E ok \in Outcome :
          SourceAdvance(Minus(slots[r], {"reading"}), sessions[slots[r].session], ok)
    /\ UNCHANGED <<net, wire>> /\ Unmoved

\* chttp_file_sink_complete and chttp_slot_file_sink_ready: a write of a
\* downloaded file has finished; a short one goes on.
SinkReady(r) ==
    LET x == [slots[r] EXCEPT !.sink = "ready"]
        y == sessions[x.session]
    IN  /\ InCallbacks /\ slots[r].sink = "writing"
        /\ IF Waiting(x)
           THEN \E armed, ok \in Outcome : Proceed(x, y, armed, ok) \/ FailAndClose(x, y, ok)
           ELSE Put(x, y) /\ Silent
        /\ UNCHANGED <<net, wire>> /\ Unmoved

-----------------------------------------------------------------------------
(* Polling.  tables is a record of the slots and the sessions. *)

Tables == [slots |-> slots, sessions |-> sessions]

\* cnet_close accepts to close this connection now.
Closable(s, ok) ==
    ok /\ net[s] \in {"connecting", "open"} /\ "close_admitted" \notin sessions[s].flags

\* chttp_async_request_cancel, once CNet has taken the close.
CanceledSlot(x) == Plus([x EXCEPT !.state = "CLOSING"], {"canceled"})
CanceledSession(y) == Plus([y EXCEPT !.state = "CLOSING"], {"close_admitted"})

\* A fault: deadlines are looked at once the connection is there.
ExpireConnected(closes) ==
    LET due == {r \in Slots : /\ slots[r].request \in late
                              /\ slots[r].state # "CONNECTING"
                              /\ slots[r].flags \cap {"delivered", "canceled"} = {}
                              /\ Closable(slots[r].session, slots[r].session \in closes)}
    IN  [slots |-> [r \in Slots |-> IF r \in due THEN Plus(CanceledSlot(slots[r]), {"deadline"})
                                                 ELSE slots[r]],
         sessions |-> [s \in Sessions |-> IF sessions[s].slot \in due
                                          THEN CanceledSession(sessions[s]) ELSE sessions[s]]]

\* chttp_rpc_expire_deadlines; closes says which closes CNet takes.
Expire(closes) ==
    LET due == {r \in Slots : /\ slots[r].request \in late
                              /\ slots[r].flags \cap {"delivered", "canceled"} = {}
                              /\ Closable(slots[r].session, slots[r].session \in closes)}
    IN  [slots |-> [r \in Slots |-> IF r \in due THEN Plus(CanceledSlot(slots[r]), {"deadline"})
                                                 ELSE slots[r]],
         sessions |-> [s \in Sessions |-> IF sessions[s].slot \in due
                                          THEN CanceledSession(sessions[s]) ELSE sessions[s]]]

\* chttp_retry_pending_closes
RetryPendingCloses(tables, closes) ==
    [tables EXCEPT !.sessions =
        [s \in Sessions |-> IF "close_pending" \in @[s].flags
                            THEN TryClose(@[s], s \in closes) ELSE @[s]]]

\* chttp_reap_terminal_slots: a slot goes once its files and its send are
\* settled; a connection still open is idle again, or closes.
Reapable(tables, r) ==
    LET x == tables.slots[r] IN
    /\ x.state = "TERMINAL" /\ x.sink # "writing" /\ "reading" \notin x.flags
    /\ "send_pending" \notin tables.sessions[x.session].flags

Idled(y, armed, ok) ==
    LET free == [y EXCEPT !.slot = None] IN
    IF y.state # "ACTIVE" THEN free
    ELSE IF stopping THEN TryClose(free, ok)
    ELSE IF armed \/ "receive_armed" \in y.flags
    THEN Plus([free EXCEPT !.state = "IDLE"], {"receive_armed"})
    ELSE TryClose(free, ok)

ReapTerminalSlots(tables, arms, closes) ==
    LET gone == {r \in Slots : Reapable(tables, r)} IN
    [slots |-> [r \in Slots |-> IF r \in gone THEN FreeSlot ELSE tables.slots[r]],
     sessions |-> [s \in Sessions |->
        IF tables.sessions[s].slot \in gone
        THEN Idled(tables.sessions[s], s \in arms, s \in closes) ELSE tables.sessions[s]]]

\* chttp_client_pool_progress: ended connections without a request are freed.
PoolProgress(tables, arms, closes) ==
    LET reaped == ReapTerminalSlots(tables, arms, closes) IN
    [reaped EXCEPT !.sessions =
        [s \in Sessions |-> IF Closed(@[s]) /\ @[s].slot = None THEN FreeSession ELSE @[s]]]

Install(tables) ==
    /\ slots' = tables.slots
    /\ sessions' = tables.sessions
    /\ net' = [s \in Sessions |-> IF tables.sessions[s].state = "FREE" THEN "none" ELSE net[s]]

Outcomes == IF config.refuses THEN SUBSET Pooled ELSE {Pooled}

\* chttp_async_client_poll up to the events of CNet ...
BeginPoll(closes) ==
    /\ phase = "user"
    /\ phase' = "poll"
    /\ Install(RetryPendingCloses(Expire(closes), closes))
    /\ UNCHANGED <<stopping, wire, next, late, asked, drained, config>> /\ Silent

\* ... and after them.
EndPoll(arms, closes) ==
    /\ phase = "poll"
    /\ phase' = "user"
    /\ Install(PoolProgress(RetryPendingCloses(Expire(closes), closes), arms, closes))
    /\ UNCHANGED <<stopping, wire, next, late, asked, drained, config>> /\ Silent

-----------------------------------------------------------------------------
(* The user's calls. *)

FreeSlots == {r \in Slots : slots[r].state = "FREE"}
FreeSessions == {s \in Pooled : sessions[s].state = "FREE"}

\* chttp_h1_reserve: what the pool may lease for a key.
Acquirable(k) ==
    {s \in Sessions : /\ sessions[s].state = "IDLE" /\ sessions[s].key = k
                      /\ sessions[s].slot = None
                      /\ "receive_armed" \in sessions[s].flags
                      /\ "send_pending" \notin sessions[s].flags}

\* The blocking client submits once the previous request is recycled.
MaySubmit ==
    /\ phase = "user" /\ ~ stopping
    /\ next <= config.requests /\ FreeSlots # {}
    /\ config.blocking => FreeSlots = Slots

NewSlot(s, state) ==
    [FreeSlot EXCEPT !.state = state, !.request = next, !.session = s,
                     !.flags = IF next \in config.sourced THEN {"source"} ELSE {},
                     !.sink = IF config.blocking /\ next \in config.downloads THEN "ready" ELSE "absent"]

\* chttp_async_client_submit_impl on a pooled connection.
SubmitReuses(k) ==
    /\ MaySubmit
    /\ \E s \in Acquirable(k) :
          LET r == Min(FreeSlots) IN
          /\ slots' = [slots EXCEPT ![r] = NewSlot(s, "BUSY")]
          /\ sessions' = [sessions EXCEPT ![s] =
                Plus([@ EXCEPT !.state = "ACTIVE", !.slot = r], {"send_pending"})]
          /\ wire' = [wire EXCEPT ![s] = Append(@, next)]
    /\ next' = next + 1
    /\ UNCHANGED <<phase, stopping, net, late, asked, drained, config>> /\ Silent

\* chttp_async_client_submit_impl on a new connection.
SubmitConnects(k) ==
    /\ MaySubmit
    /\ Acquirable(k) = {} /\ FreeSessions # {}
    /\ LET r == Min(FreeSlots)
           s == Min(FreeSessions)
       IN  /\ slots' = [slots EXCEPT ![r] = NewSlot(s, "CONNECTING")]
           /\ sessions' = [sessions EXCEPT ![s] =
                 [FreeSession EXCEPT !.state = "CONNECTING", !.slot = r, !.key = k]]
           /\ net' = [net EXCEPT ![s] = "connecting"]
    /\ next' = next + 1
    /\ UNCHANGED <<phase, stopping, wire, late, asked, drained, config>> /\ Silent

\* chttp_begin_idle_eviction: the first idle connection makes room.
Evict(tables, closes) ==
    LET idle == {s \in Sessions : tables.sessions[s].state = "IDLE"} IN
    IF idle = {} THEN tables
    ELSE [tables EXCEPT !.sessions[Min(idle)] = TryClose(@, Min(idle) \in closes)]

\* chttp_async_client_submit_impl from reject on: CNet refused the send or
\* the connect, or every connection is taken.  Only ENOBUFS evicts.
SubmitRejected(k) ==
    /\ MaySubmit
    /\ config.refuses \/ (Acquirable(k) = {} /\ FreeSessions = {})
    /\ \E arms, closes \in Outcomes :
          LET tables == PoolProgress(Tables, arms, closes) IN
          \/ Install(Evict(tables, closes))
          \/ (Acquirable(k) # {} \/ FreeSessions # {}) /\ Install(tables)
    /\ UNCHANGED <<phase, stopping, wire, next, late, asked, drained, config>> /\ Silent

\* chttp_async_request_cancel, from outside or from another request's
\* callback, a stop's included.  A refused close leaves the request as it is.
Cancel(r) ==
    LET x == slots[r] IN
    /\ ~ config.blocking /\ phase \in {"user", "poll", "stop"}
    /\ x.state # "FREE" /\ x.flags \cap {"delivered", "canceled"} = {}
    /\ Closable(x.session, TRUE)
    /\ Put(CanceledSlot(x), CanceledSession(sessions[x.session]))
    /\ asked' = asked \union {x.request}
    /\ UNCHANGED <<phase, stopping, net, wire, next, late, drained, config>> /\ Silent

\* The monotonic clock reaches a request's rpc_deadline_at_ms.
DeadlinePasses(q) ==
    /\ ~ config.blocking /\ q \in config.timed \ late /\ q < next /\ results[q] = <<>>
    /\ late' = late \union {q}
    /\ UNCHANGED <<phase, stopping, slots, sessions, net, wire, next, asked, drained, config>>
    /\ Silent

\* chttp_async_client_stop: admission ends and CNet closes every connection.
\* chttp_client_destroy calls it between two blocking calls, or after one whose
\* recovery failed.
BeginStop ==
    /\ phase = "user"
    /\ config.blocking => stopping \/ FreeSlots = Slots
    /\ phase' = "stop" /\ stopping' = TRUE
    /\ UNCHANGED <<slots, sessions, net, wire, next, late, asked, drained, config>> /\ Silent

\* chttp_requests_perform past its deadline: cancel, take the file transfers
\* back, and stop the client to recover it (chttp_requests_recover).
GiveUp(r) ==
    LET x == slots[r]
        y == sessions[x.session]
        back == Minus([x EXCEPT !.sink = IF @ = "absent" THEN @ ELSE "detached"], {"reading"})
    IN  /\ config.blocking /\ phase = "user" /\ ~ stopping
        /\ x.state # "FREE" /\ "delivered" \notin x.flags
        /\ \E ok \in Outcome : IF Closable(x.session, ok)
                               THEN Put(CanceledSlot(back), CanceledSession(y))
                               ELSE Put(back, y)
        /\ phase' = "stop" /\ stopping' = TRUE
        /\ UNCHANGED <<net, wire, next, late, asked, drained, config>> /\ Silent

NetworkStopped == \A s \in Sessions : net[s] \in {"none", "closed"}
FilesQuiet == \A r \in Slots : slots[r].sink # "writing" /\ "reading" \notin slots[r].flags

\* The end of chttp_async_client_stop: the client is stopped if its pool and
\* its connections are drained, and otherwise reports EBUSY.
EndStop(closes) ==
    LET tables == PoolProgress(Tables, Sessions, closes)
        empty == \A s \in Sessions : tables.sessions[s].state = "FREE"
    IN  /\ phase = "stop" /\ NetworkStopped /\ FilesQuiet
        /\ Install(tables)
        /\ drained' = IF empty THEN "drained" ELSE "busy"
        /\ phase' = IF empty THEN "stopped" ELSE "user"
        /\ UNCHANGED <<stopping, wire, next, late, asked, config>> /\ Silent

\* CNet is not stopped in time; stop may be called again.
StopTimesOut ==
    /\ phase = "stop" /\ ~ NetworkStopped
    /\ phase' = "user"
    /\ UNCHANGED <<stopping, slots, sessions, net, wire, next, late, asked, drained, config>>
    /\ Silent

Stopped == phase = "stopped" /\ UNCHANGED vars

-----------------------------------------------------------------------------
Ends == {"closed", "failed", "eof"}

Network(s) ==
    \/ Connected(s) \/ SendDone(s)
    \/ \E how \in Ends : ConnectionEnds(s, how)
    \/ ReceiveStray(s) \/ ReceiveUnwanted(s) \/ ReceiveFails(s)
    \/ \E final, keep \in BOOLEAN : ReceiveResponse(s, final, keep)

User ==
    \/ \E k \in Keys : SubmitReuses(k) \/ SubmitConnects(k) \/ SubmitRejected(k)
    \/ \E r \in Slots : Cancel(r) \/ GiveUp(r)
    \/ BeginStop

Poll ==
    \/ \E closes \in Outcomes : BeginPoll(closes)
    \/ \E arms, closes \in Outcomes : EndPoll(arms, closes)

Stop == (\E closes \in Outcomes : EndStop(closes)) \/ StopTimesOut

Next ==
    \/ User \/ Poll \/ Stop
    \/ \E s \in Sessions : Network(s)
    \/ \E r \in Slots : FileReady(r) \/ SinkReady(r)
    \/ \E q \in Requests : DeadlinePasses(q)
    \/ Stopped

Spec == Init /\ [][Next]_vars

\* The user goes on polling, or waits for its stop; CNet ends a connection it
\* has agreed to close, or closes for a stop, and does not refuse a close for
\* ever.  Neither the peer nor the user owes anything else.
Fairness ==
    /\ SF_vars(BeginPoll(Sessions))
    /\ WF_vars(\E arms, closes \in Outcomes : EndPoll(arms, closes))
    /\ WF_vars(\E closes \in Outcomes : EndStop(closes))
    /\ \A s \in Sessions :
          SF_vars(/\ "close_admitted" \in sessions[s].flags \/ phase = "stop"
                  /\ \E how \in Ends : ConnectionEnds(s, how))
    /\ \A r \in Slots : SF_vars(FileReady(r)) /\ SF_vars(SinkReady(r))

FairSpec == Spec /\ Fairness

-----------------------------------------------------------------------------
(* Properties. *)

\* Success of submit guarantees exactly one completion callback (http.h): a
\* request that has left its slot was told once, one still in a slot at most
\* once, and result_delivered says which.  A successful cancel is reported as
\* canceled, whatever the peer, a deadline or a stop do meanwhile, and the stage
\* rpc-deadline is reported only once that deadline has passed: a time limit of
\* CNet's fails a request like any other fault.
CompletedOnce ==
    /\ \A q \in 1 .. next - 1 :
          /\ Len(results[q]) <= 1
          /\ (\A r \in Slots : slots[r].request # q) => Len(results[q]) = 1
          /\ \A r \in Slots : slots[r].request = q =>
                (Len(results[q]) = 1 <=> "delivered" \in slots[r].flags)
    /\ \A q \in Requests :
          /\ q \in asked => results[q] \in {<<>>, <<"canceled">>}
          /\ results[q] = <<"timeout">> => q \in late

\* A connection waits in the pool only when its last exchange is over: the
\* whole body of its request was handed to CNet, although the peer may answer
\* before that; it has no request, nothing to send and no answer to come, and
\* it listens.  A request is given its own response, although connections are
\* reused and responses may come before their request is sent or after it was
\* given up.
ReuseIsClean ==
    /\ [](\A s \in Sessions : sessions[s].state = "IDLE" =>
            /\ sessions[s].slot = None /\ wire[s] = <<>>
            /\ sessions[s].flags = {"receive_armed"})
    /\ [](\A q \in Requests : answer[q] \in {0, q})
    /\ [][\A s \in Sessions :
            sessions[s].state = "ACTIVE" /\ sessions'[s].state = "IDLE"
              => "source" \notin SlotOf(s).flags]_vars

\* A stop whose connections and files have ended finds the pool drained; the
\* one exception is a blocking download that was given up after its connection
\* had ended with the response complete and the file not written.
StopDrains ==
    drained = "busy" =>
       \E r \in Slots : slots[r].sink = "detached" /\ "complete" \in slots[r].flags

\* After the deadline of a blocking call, cancelling and draining may go on,
\* but the client is then safe to reuse or destroy (http.h, timeout_ms).
RecoveryDrains == drained # "busy"

\* A cancelled request and one past its deadline are told so in the end, while
\* the user polls (chttp_async_request_cancel, rpc deadlines); and a connection
\* that is to close is closed and freed, although CNet refuses closes and the
\* slot may wait for a send or a file, unless a stop left the pool busy.
CancelCompletes ==
    /\ \A q \in Requests : q \in asked \union late ~> results[q] # <<>>
    /\ \A s \in Sessions : sessions[s].state = "CLOSING" ~> sessions[s].state = "FREE" \/ drained = "busy"
=============================================================================
