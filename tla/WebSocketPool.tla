--------------------------- MODULE WebSocketPool ---------------------------
(***************************************************************************)
(* The WebSocket pool (http_client/src/chttp_websocket_pool.c): sessions   *)
(* that share one HTTP/2 connection, each a slot with a generation, a      *)
(* stream, a WebSocket engine and an event ring.  Calls block one at a     *)
(* time, as in WebSocketClient; here every CNet event also rearms the      *)
(* receive and flushes all slots.                                          *)
(*                                                                         *)
(* The H2 engine is abstracted to the streams it holds open, what it still *)
(* knows of the others (its stream table, whose closed entries are reused, *)
(* and the ring of streams it reset itself), the control frames it has     *)
(* queued and, per stream, a send window and one DATA frame.               *)
(***************************************************************************)
EXTENDS Integers, Sequences, SequencesExt, FiniteSets

CONSTANTS PoolSlots,      \* session_capacity
          PeerStreams,    \* SETTINGS_MAX_CONCURRENT_STREAMS of the peer
          PoolEventCap,   \* event_capacity
          PoolPlans       \* scenarios: [enable, window, scripts, sends, goaway,
                          \*   faults, refuses, calls, timed]

VARIABLES poolPlan,  \* the scenario: fixed in the initial state
          pool,      \* chttp_websocket_pool_impl
          sockets,     \* its slots
          call,      \* the call in progress
          peerOut,   \* per stream, what the peer has still to deliver
          peerCredit,    \* per stream, WINDOW_UPDATEs the peer has still to deliver
          handles,   \* sessions the caller holds: [slot, generation]
          taken,     \* history per stream: events returned to the caller
          came,      \* history per stream: WebSocket frames the peer delivered
          went       \* history per stream: messages the engine took

poolVars == <<poolPlan, pool, sockets, call, peerOut, peerCredit, handles, taken, came, went>>

Streams == 1..Len(poolPlan.scripts)
PoolSlotIds == 1..PoolSlots

FreePoolSlot(generation) ==
  [phase |-> "FREE", generation |-> generation, stream |-> 0, status |-> "OK", streamTerminal |-> FALSE,
   endSubmitted |-> FALSE, closeRequested |-> FALSE, overflow |-> FALSE, frame |-> FALSE,
   data |-> <<>>, out |-> <<>>, engine |-> "none", remoteEnd |-> FALSE, events |-> <<>>,
   window |-> poolPlan.window]

PoolIdle == [kind |-> "none", stages |-> <<>>, poll |-> FALSE, timed |-> FALSE, slot |-> 1, msg |-> "none",
             ret |-> "none"]

PoolInit ==
  /\ poolPlan \in PoolPlans
  /\ pool = [phase |-> "DISCONNECTED", receive |-> FALSE, write |-> FALSE, wire |-> <<>>,
             control |-> <<>>, settings |-> "none", terminal |-> FALSE, status |-> "OK",
             draining |-> FALSE, active |-> 0, opened |-> 0, open |-> {}, live |-> TRUE,
             table |-> <<>>, ring |-> [n \in PoolSlotIds |-> 0], cursor |-> 1, full |-> FALSE]
  /\ sockets = [k \in PoolSlotIds |-> FreePoolSlot(0)]
  /\ call = PoolIdle
  /\ peerOut = [i \in Streams |-> <<>>] /\ peerCredit = [i \in Streams |-> 0]
  /\ handles = {} /\ taken = [i \in Streams |-> <<>>]
  /\ came = [i \in Streams |-> <<>>] /\ went = [i \in Streams |-> <<>>]

-----------------------------------------------------------------------------
(* What the engine knows of a stream: stream_capacity is session_capacity *)

\* proto_find
StreamEntry(p, i) == {n \in DOMAIN p.table : p.table[n].id = i}
ResetKnown(p, i) == i \in ToSet(p.ring)
LocallyReset(p, i) ==
  IF StreamEntry(p, i) = {} THEN ResetKnown(p, i) ELSE \A n \in StreamEntry(p, i) : p.table[n].reset
ForgottenStream(p, i) == StreamEntry(p, i) = {} /\ ~ResetKnown(p, i)

\* proto_new_stream: the first closed entry is used again
NewStreamEntry(p, i) ==
  LET closed == {n \in DOMAIN p.table : p.table[n].id \notin p.open}
      entry  == [id |-> i, reset |-> FALSE]
  IN  IF closed = {} THEN Append(p.table, entry) ELSE [p.table EXCEPT ![Min(closed)] = entry]

MarkReset(p, i, reset) ==
  [n \in DOMAIN p.table |-> IF p.table[n].id = i THEN [p.table[n] EXCEPT !.reset = reset] ELSE p.table[n]]
\* proto_local_reset_record and proto_local_reset_forget
KeepReset(p, i) ==
  IF ResetKnown(p, i) THEN [p EXCEPT !.table = MarkReset(p, i, TRUE)]
  ELSE [p EXCEPT !.table = MarkReset(p, i, TRUE), !.ring[p.cursor] = i, !.cursor = (@ % PoolSlots) + 1]
DropReset(p, i) ==
  [p EXCEPT !.table = MarkReset(p, i, FALSE),
            !.ring = [n \in PoolSlotIds |-> IF p.ring[n] = i THEN 0 ELSE p.ring[n]]]

-----------------------------------------------------------------------------
(* One slot; s = [p, q]: the pool and its slots *)

\* chttp_websocket_pool_event_push
PushPoolEvent(t, e) ==
  LET u == [t EXCEPT !.closeRequested = @ \/ e = "close"]
  IN  IF t.overflow THEN t
      ELSE IF Len(t.events) >= PoolEventCap THEN [u EXCEPT !.overflow = TRUE, !.status = "ENOBUFS"]
      ELSE [u EXCEPT !.events = Append(@, e)]

\* chttp_websocket_pool_write: EBUSY leaves the frame with the engine
PoolWrite(t, f) ==
  IF t.frame \/ t.data # <<>> THEN [t EXCEPT !.out = <<f>>]
  ELSE [t EXCEPT !.frame = TRUE, !.data = <<f>>]

PoolFeed(t, m) ==
  CASE m = "ping" -> PoolWrite(PushPoolEvent(t, m), "pong")
    [] m = "close" -> IF t.engine = "OPEN"
                      THEN PoolWrite([PushPoolEvent(t, m) EXCEPT !.engine = "CLOSED"], "close")
                      ELSE [PushPoolEvent(t, m) EXCEPT !.engine = "CLOSED"]
    [] OTHER -> PushPoolEvent(t, m)

PoolStatus(t, status) == [t EXCEPT !.status = IF @ = "OK" THEN status ELSE @]
EngineClosed(t) == [t EXCEPT !.engine = IF @ = "none" THEN @ ELSE "CLOSED", !.out = <<>>]

\* chttp_websocket_pool_h2_stream_close
StreamClosed(t, error) ==
  LET u == [EngineClosed(t) EXCEPT !.streamTerminal = TRUE, !.phase = "TERMINAL", !.data = <<>>]
  IN  CASE error = "NO_ERROR" -> u
        [] error = "CANCEL"   -> IF t.closeRequested THEN u ELSE PoolStatus(u, "ECANCELED")
        [] OTHER              -> PoolStatus(u, "ECONNRESET")

StreamOwner(q, i) == {k \in PoolSlotIds : q[k].phase # "FREE" /\ q[k].stream = i}

\* A fault: the end of a stream is reported to every session.
CloseStreamAll(s, i, error) ==
  [s EXCEPT !.p.open = @ \ {i},
            !.q = [k \in PoolSlotIds |-> IF k \in StreamOwner(s.q, i) THEN StreamClosed(s.q[k], error)
                                         ELSE PoolStatus(s.q[k], "ECONNRESET")]]

CloseStream(s, i, error) ==
  [s EXCEPT !.p.open = @ \ {i},
            !.q = [k \in PoolSlotIds |-> IF k \in StreamOwner(s.q, i) THEN StreamClosed(s.q[k], error) ELSE s.q[k]]]
\* chttp_h2_proto_submit_rst_stream closes the stream at once
ResetStream(s, i, error) ==
  IF i \notin s.p.open THEN s
  ELSE CloseStream([s EXCEPT !.p = [KeepReset(s.p, i) EXCEPT !.control = Append(@, <<"rst", i>>)]], i, error)

\* chttp_websocket_pool_fail
PoolFail(s, status) ==
  IF s.p.phase = "TERMINAL" THEN s
  ELSE [s EXCEPT
        !.p = [@ EXCEPT !.phase = "TERMINAL", !.terminal = TRUE, !.status = status,
                        !.receive = FALSE, !.write = FALSE, !.open = {},
                        !.wire = IF s.p.write THEN <<>> ELSE @],
        !.q = [k \in PoolSlotIds |->
                 IF s.q[k].phase = "FREE" THEN s.q[k]
                 ELSE PoolStatus([EngineClosed(s.q[k]) EXCEPT !.streamTerminal = TRUE, !.phase = "TERMINAL"],
                                 status)]]

-----------------------------------------------------------------------------
(* Output: slot_output, flush, output_pending *)

PoolSendable(t) == t.data # <<>> /\ (t.data = <<"end">> \/ t.window > 0)
SentFrame(t) == [t EXCEPT !.frame = @ /\ t.data # <<>>]
NextFrame(t) == IF ~t.frame /\ t.out # <<>> THEN PoolWrite([t EXCEPT !.out = <<>>], t.out[1]) ELSE t
EndDue(t) ==
  t.closeRequested /\ ~t.endSubmitted /\ ~t.frame /\ t.out = <<>> /\ t.engine = "CLOSED"
EndStream(t) == IF EndDue(t) THEN [t EXCEPT !.endSubmitted = TRUE, !.data = <<"end">>] ELSE t
SlotOutput(t) ==
  IF t.phase \in {"FREE", "OPENING"} \/ t.streamTerminal THEN t
  ELSE EndStream(NextFrame(SentFrame(t)))

Ready(q) == {k \in PoolSlotIds : PoolSendable(q[k])}
SlotSent(t) ==
  [t EXCEPT !.data = <<>>, !.window = IF t.data = <<"end">> THEN @ ELSE @ - 1]
\* chttp_h2_proto_send: the control frames, then the DATA credit allows; a stream
\* whose both ends are closed leaves the engine
PoolSend(s) ==
  LET ended == {s.q[k].stream : k \in {k \in Ready(s.q) : s.q[k].data = <<"end">> /\ s.q[k].remoteEnd}}
      wire  == s.p.control \o SetToSeq({<<s.q[k].data[1], s.q[k].stream>> : k \in Ready(s.q)})
      sent  == [s EXCEPT !.p = [@ EXCEPT !.wire = wire, !.control = <<>>],
                         !.q = [k \in PoolSlotIds |-> IF k \in Ready(s.q) THEN SlotSent(s.q[k]) ELSE s.q[k]]]
  IN  FoldLeft(LAMBDA u, i : CloseStream(u, i, "NO_ERROR"), sent, SetToSeq(ended))
Outputs(s) == [s EXCEPT !.q = [k \in PoolSlotIds |-> SlotOutput(s.q[k])]]
\* output CNet refuses (EBUSY, ENOBUFS) stays in the wire buffer for the next flush
Offered(s) == [s EXCEPT !.p.write = s.p.wire # <<>> /\ ~s.p.full]
FlushWire(s) ==
  IF s.p.write THEN s ELSE Offered(IF s.p.wire = <<>> THEN PoolSend(s) ELSE s)
PoolFlush(s) == IF s.p.terminal THEN s ELSE FlushWire(Outputs(s))

PoolPending(s) ==
  \/ s.p.write \/ s.p.wire # <<>> \/ s.p.control # <<>> \/ Ready(s.q) # {}
  \/ \E k \in PoolSlotIds :
        /\ s.q[k].phase # "FREE" /\ ~s.q[k].streamTerminal
        /\ s.q[k].frame \/ s.q[k].out # <<>>
           \/ (s.q[k].closeRequested /\ ~s.q[k].endSubmitted /\ s.q[k].engine = "CLOSED")

-----------------------------------------------------------------------------
(* Input *)

PoolFrames == {"a1", "a2", "b1", "ping", "close"}

\* h2_end_headers, h2_data, h2_stream_close for stream i
BusyOrFull(t, m) == t.out # <<>> \/ PoolFeed(t, m).overflow
FedSlot(t, m) == IF t.out # <<>> THEN [t EXCEPT !.status = "EBUSY"] ELSE PoolFeed(t, m)
RemoteEnd(t) ==
  LET u == [EngineClosed(t) EXCEPT !.remoteEnd = TRUE]
  IN  IF t.closeRequested THEN u ELSE PoolStatus(u, "ECONNRESET")
StreamInput(s, k, i, m) ==
  CASE m = "200" -> [s EXCEPT !.q[k].phase = "OPEN", !.q[k].engine = "OPEN"]
    [] m = "403" -> [s EXCEPT !.q[k].phase = "TERMINAL", !.q[k].status = "EPROTO"]
    [] m = "rst" -> CloseStream(s, i, "REFUSED")
    [] m = "end" ->
         IF s.q[k].endSubmitted /\ s.q[k].data = <<>>
         THEN CloseStream([s EXCEPT !.q[k] = RemoteEnd(@)], i, "NO_ERROR")
         ELSE [s EXCEPT !.q[k] = RemoteEnd(@)]
    [] m \in PoolFrames ->
         IF s.q[k].phase \notin {"OPEN", "CLOSING"} \/ s.q[k].engine = "CLOSED" THEN s
         ELSE IF BusyOrFull(s.q[k], m)
         THEN ResetStream([s EXCEPT !.q[k] = FedSlot(@, m)], i, "ENHANCE_YOUR_CALM")
         ELSE [s EXCEPT !.q[k] = FedSlot(@, m)]
\* proto_dispatch for a stream that is no longer open: a stream the engine reset
\* itself is ignored, credit and RST_STREAM for a known one too; any other frame
\* fails the connection, and with it the pool (on_receive)
LateFrame(s, i, m) ==
  LET ignored == IF m \in {"window", "rst"} THEN ~ForgottenStream(s.p, i) ELSE LocallyReset(s.p, i)
  IN  IF ~ignored THEN PoolFail(s, "EPROTO")
      ELSE IF m \in {"rst", "end"} THEN [s EXCEPT !.p = DropReset(@, i)] ELSE s
ReceiveOn(s, i, m) ==
  IF i \notin s.p.open THEN LateFrame(s, i, m)
  ELSE StreamInput([s EXCEPT !.p.control = IF m \in PoolFrames THEN Append(@, <<"window", i>>) ELSE @],
                   CHOOSE k \in StreamOwner(s.q, i) : TRUE, i, m)
CreditOn(s, i) ==
  IF i \notin s.p.open THEN LateFrame(s, i, "window")
  ELSE [s EXCEPT !.q[CHOOSE k \in StreamOwner(s.q, i) : TRUE].window = @ + 1]

\* chttp_websocket_pool_h2_goaway with last_stream_id = last
Goaway(s, last) ==
  [s EXCEPT !.p = [@ EXCEPT !.draining = TRUE, !.open = {i \in @ : i <= last}],
            !.q = [k \in PoolSlotIds |->
            IF s.q[k].phase = "FREE" \/ s.q[k].stream <= last THEN s.q[k]
            ELSE PoolStatus([EngineClosed(s.q[k]) EXCEPT !.streamTerminal = TRUE, !.phase = "TERMINAL",
                                                         !.data = <<>>], "ECONNRESET")]]

PoolArm(s) == [s EXCEPT !.p.receive = @ \/ (~s.p.terminal /\ ~s.p.full)]
ArmFlush(s) == PoolFlush(PoolArm(s))

-----------------------------------------------------------------------------
(* The stages of the calls; s = [p, q, c, h] with the call and the handles *)

PoolPop(s) == [s EXCEPT !.c.stages = Tail(@)]
PoolWait(s) == [s EXCEPT !.c.poll = TRUE]
PoolReturn(s, r) == [s EXCEPT !.c.ret = r, !.c.stages = <<>>]
PoolBroken(p) == p.terminal \/ p.status # "OK"

\* slot_release keeps the generation
PoolRelease(s, k) ==
  [s EXCEPT !.q[k] = FreePoolSlot(s.q[k].generation), !.p.active = @ - 1]

\* A fault: an open that fails leaves its stream to the engine.
AbandonSilently(s, k) == PoolRelease(s, k)

\* open's release_slot: reset the stream unless it is terminal already
Abandon(s, k) ==
  LET u == IF s.q[k].stream > 0 /\ ~s.q[k].streamTerminal
           THEN PoolFlush(ResetStream([s EXCEPT !.q[k].closeRequested = TRUE], s.q[k].stream, "CANCEL"))
           ELSE s
  IN  PoolRelease(u, k)
ReleaseIfTerminal(s, k) ==
  IF s.q[k].streamTerminal \/ s.q[k].phase = "TERMINAL" \/ s.p.terminal THEN PoolRelease(s, k) ELSE s

PoolStageFailed(s, r) ==
  CASE s.c.kind = "open" /\ Head(s.c.stages) \in {"link", "settings"} ->
         PoolReturn([s EXCEPT !.p.draining = TRUE], r)
    [] s.c.kind = "open" /\ Head(s.c.stages) = "admit" -> PoolReturn(s, r)
    [] s.c.kind = "open" /\ Head(s.c.stages) \notin {"link", "settings", "admit"} ->
         PoolReturn(Abandon(s, s.c.slot), r)
    [] s.c.kind = "close" /\ r # "ETIMEDOUT" ->
         PoolReturn(ReleaseIfTerminal(s, s.c.slot), r)
    [] s.c.kind = "destroy" /\ r # "ETIMEDOUT" -> PoolPop(s)
    [] OTHER -> PoolReturn(s, r)

\* no call starts to drain a broken pool, so its do-while is a while
PoolDrained(s) == IF PoolPending(s) THEN PoolWait(PoolArm(s)) ELSE PoolPop(s)
PoolDrain(s) == IF PoolBroken(s.p) THEN PoolStageFailed(s, s.p.status) ELSE PoolDrained(PoolFlush(s))

Link(s) ==
  IF s.p.phase = "CONNECTING" /\ ~s.p.terminal THEN PoolWait(s)
  ELSE IF s.p.phase # "CONNECTED" THEN PoolStageFailed(s, s.p.status) ELSE PoolPop(s)
PoolSettings(s) ==
  IF s.p.terminal THEN PoolStageFailed(s, s.p.status)
  ELSE IF s.p.settings = "none" THEN PoolWait(ArmFlush(s))
  ELSE IF s.p.settings = "off" THEN PoolStageFailed(s, "EPROTONOSUPPORT") ELSE PoolPop(s)
\* capacity, slot_acquire and h2_submit
FreeSockets(q) == {k \in PoolSlotIds : q[k].phase = "FREE"}
Acquired(s, k) ==
  [s EXCEPT !.c.slot = k, !.p.active = @ + 1, !.p.opened = @ + 1, !.p.open = @ \cup {s.p.opened + 1},
            !.p.control = Append(@, <<"headers", s.p.opened + 1>>),
            !.p.table = NewStreamEntry(s.p, s.p.opened + 1),
            !.q[k].phase = "OPENING", !.q[k].generation = @ + 1, !.q[k].stream = s.p.opened + 1]
Admit(s) ==
  IF s.p.active >= PoolSlots \/ s.p.active >= PeerStreams THEN PoolStageFailed(s, "ENOBUFS")
  ELSE PoolPop(Acquired(s, CHOOSE k \in FreeSockets(s.q) : \A j \in FreeSockets(s.q) : k <= j))
Opening(s) ==
  IF s.q[s.c.slot].phase = "OPENING" /\ ~s.p.terminal THEN PoolWait(PoolArm(PoolFlush(s)))
  ELSE IF s.q[s.c.slot].phase = "OPEN" THEN PoolPop(s)
  ELSE PoolStageFailed(s, s.q[s.c.slot].status)
PoolOpened(s) ==
  PoolReturn([s EXCEPT !.h = @ \cup {[slot |-> s.c.slot, generation |-> s.q[s.c.slot].generation]}], "OK")

PoolSubmit(s) ==
  IF s.q[s.c.slot].engine # "OPEN" THEN PoolReturn(s, "ESHUTDOWN")
  ELSE PoolPop([s EXCEPT !.q[s.c.slot] = PoolWrite(@, s.c.msg)])
PoolSentStage(s) == PoolReturn(s, s.q[s.c.slot].status)

PoolAwait(s) ==
  LET t == s.q[s.c.slot]
  IN  IF t.events = <<>> /\ t.phase = "OPEN" /\ ~s.p.terminal /\ t.status = "OK"
      THEN PoolWait(PoolArm(s)) ELSE PoolPop(s)
PoolTake(s) ==
  IF s.q[s.c.slot].events # <<>>
  THEN PoolReturn(PoolFlush([s EXCEPT !.q[s.c.slot].events = Tail(@)]), "OK")
  ELSE PoolReturn(s, s.q[s.c.slot].status)

\* close: the engine's Close frame unless the peer closed first
Shutting(s) ==
  LET t == s.q[s.c.slot]
      u == [s EXCEPT !.q[s.c.slot].closeRequested = TRUE, !.q[s.c.slot].phase = "CLOSING"]
  IN  IF t.streamTerminal \/ t.phase # "OPEN" THEN PoolPop(s)
      ELSE IF t.closeRequested THEN PoolPop(u)
      ELSE IF t.engine # "OPEN" THEN PoolStageFailed(s, "ESHUTDOWN")
      ELSE PoolPop([u EXCEPT !.q[s.c.slot] = PoolWrite([@ EXCEPT !.engine = "CLOSING"], "close")])
\* the closing loops: drain, look again, then wait for the peer
PoolAgain(s, stages) == [s EXCEPT !.c.stages = stages \o @]
PoolClosing(s) ==
  IF s.q[s.c.slot].streamTerminal \/ s.p.terminal THEN PoolPop(s)
  ELSE PoolAgain(s, <<"drain", "settle">>)
PoolSettle(s) ==
  IF s.q[s.c.slot].streamTerminal THEN PoolPop(s) ELSE PoolWait(PoolArm(PoolPop(s)))
PoolClosed(s) == PoolReturn(ReleaseIfTerminal(s, s.c.slot), s.q[s.c.slot].status)

\* destroy
ShutAll(s) ==
  PoolPop([s EXCEPT !.q = [k \in PoolSlotIds |->
    IF s.q[k].phase = "OPEN" /\ s.q[k].engine = "OPEN"
    THEN PoolWrite([s.q[k] EXCEPT !.engine = "CLOSING", !.closeRequested = TRUE, !.phase = "CLOSING"], "close")
    ELSE s.q[k]]])
AllTerminal(q) == \A k \in PoolSlotIds : q[k].phase \in {"FREE", "TERMINAL"} \/ q[k].streamTerminal
ClosingAll(s) ==
  IF s.p.terminal \/ AllTerminal(s.q) THEN PoolPop(s) ELSE PoolAgain(s, <<"drain", "settleAll">>)
SettleAll(s) == IF AllTerminal(s.q) THEN PoolPop(s) ELSE PoolWait(PoolArm(PoolPop(s)))
Destroyed(s) ==
  PoolReturn([s EXCEPT !.p.live = FALSE, !.p.active = 0, !.p.open = {},
                       !.q = [k \in PoolSlotIds |-> FreePoolSlot(s.q[k].generation)]], "OK")

PoolStage(s) ==
  CASE Head(s.c.stages) = "link"     -> Link(s)
    [] Head(s.c.stages) = "settings" -> PoolSettings(s)
    [] Head(s.c.stages) = "admit"    -> Admit(s)
    [] Head(s.c.stages) = "drain"    -> PoolDrain(s)
    [] Head(s.c.stages) = "opening"  -> Opening(s)
    [] Head(s.c.stages) = "opened"   -> PoolOpened(s)
    [] Head(s.c.stages) = "submit"   -> PoolSubmit(s)
    [] Head(s.c.stages) = "sent"     -> PoolSentStage(s)
    [] Head(s.c.stages) = "await"    -> PoolAwait(s)
    [] Head(s.c.stages) = "take"     -> PoolTake(s)
    [] Head(s.c.stages) = "shut"     -> Shutting(s)
    [] Head(s.c.stages) = "closing"  -> PoolClosing(s)
    [] Head(s.c.stages) = "settle"   -> PoolSettle(s)
    [] Head(s.c.stages) = "closed"   -> PoolClosed(s)
    [] Head(s.c.stages) = "shutAll"  -> ShutAll(s)
    [] Head(s.c.stages) = "closingAll" -> ClosingAll(s)
    [] Head(s.c.stages) = "settleAll" -> SettleAll(s)
    [] Head(s.c.stages) = "destroyed" -> Destroyed(s)

-----------------------------------------------------------------------------
(* Actions *)

BeginCall(kind, stages, timed, slot, msg) ==
  /\ call.kind = "none" /\ pool.live /\ kind \in poolPlan.calls
  /\ call' = [kind |-> kind, stages |-> stages, poll |-> FALSE, timed |-> timed, slot |-> slot, msg |-> msg,
              ret |-> "none"]
  /\ UNCHANGED <<poolPlan, sockets, peerOut, peerCredit, taken, came, went>>

\* chttp_websocket_pool_session: the handle still names its slot's occupant
Valid(h) == sockets[h.slot].phase # "FREE" /\ sockets[h.slot].generation = h.generation

PoolOpen(timed) ==
  /\ pool.phase # "TERMINAL" /\ ~pool.draining /\ pool.opened < Len(poolPlan.scripts)
  /\ pool' = [pool EXCEPT !.phase = IF @ = "DISCONNECTED" THEN "CONNECTING" ELSE @]
  /\ BeginCall("open", (IF pool.phase = "DISCONNECTED" THEN <<"link", "settings">> ELSE <<>>)
                     \o <<"admit", "drain", "opening", "drain", "opened">>, timed, 1, "none")
  /\ UNCHANGED handles
PoolSendCall(h, timed) ==
  /\ Valid(h) /\ sockets[h.slot].phase = "OPEN" /\ sockets[h.slot].status = "OK"
  /\ Len(went[sockets[h.slot].stream]) < Len(poolPlan.sends)
  /\ BeginCall("send", <<"drain", "submit", "drain", "sent">>, timed, h.slot,
           poolPlan.sends[Len(went[sockets[h.slot].stream]) + 1])
  /\ UNCHANGED <<pool, handles>>
PoolReceiveCall(h, timed) ==
  /\ Valid(h) /\ (sockets[h.slot].phase = "OPEN" \/ sockets[h.slot].events # <<>>)
  /\ BeginCall("receive", <<"await", "take">>, timed, h.slot, "none")
  /\ UNCHANGED <<pool, handles>>
PoolCloseCall(h, timed) ==
  /\ Valid(h)
  /\ BeginCall("close", (IF sockets[h.slot].phase = "OPEN" THEN <<"drain", "shut">> ELSE <<>>)
                      \o <<"closing", "closed">>, timed, h.slot, "none")
  /\ UNCHANGED <<pool, handles>>
PoolDestroyCall(timed) ==
  /\ pool' = [pool EXCEPT !.draining = TRUE]
  /\ BeginCall("destroy", (IF pool.phase = "CONNECTED" /\ pool.active > 0
                       THEN <<"drain", "shutAll", "closingAll">> ELSE <<>>) \o <<"destroyed">>, timed, 1, "none")
  /\ UNCHANGED handles

PoolRun ==
  /\ call.kind # "none" /\ ~call.poll
  /\ LET s == PoolStage([p |-> pool, q |-> sockets, c |-> call, h |-> handles])
         stage == Head(call.stages)
         stream == sockets[call.slot].stream
     IN  /\ pool' = s.p /\ sockets' = s.q /\ handles' = s.h
         /\ call' = IF s.c.ret = "none" THEN s.c ELSE PoolIdle
         /\ went' = IF stage = "submit" /\ s.c.ret = "none" THEN [went EXCEPT ![stream] = Append(@, call.msg)] ELSE went
         /\ taken' = IF stage = "take" /\ sockets[call.slot].events # <<>>
                     THEN [taken EXCEPT ![stream] = Append(@, Head(sockets[call.slot].events))] ELSE taken
  /\ UNCHANGED <<poolPlan, peerOut, peerCredit, came>>

\* one CNet event inside chttp_websocket_pool_poll
PoolPolled(u) ==
  /\ call.poll
  /\ pool' = u.p /\ sockets' = u.q /\ call' = [call EXCEPT !.poll = FALSE]
  /\ UNCHANGED <<poolPlan, handles, taken, went>>
Now == [p |-> pool, q |-> sockets]

PoolConnected ==
  /\ pool.phase = "CONNECTING"
  /\ PoolPolled(ArmFlush([Now EXCEPT !.p.phase = "CONNECTED", !.p.control = <<<<"settings", 0>>>>]))
  /\ UNCHANGED <<peerOut, peerCredit, came>>
PeerSettings ==
  /\ pool.phase = "CONNECTED" /\ pool.receive /\ pool.settings = "none"
  /\ PoolPolled(ArmFlush([Now EXCEPT !.p.settings = poolPlan.enable, !.p.receive = FALSE,
                                     !.p.control = Append(@, <<"settings", 0>>)]))
  /\ UNCHANGED <<peerOut, peerCredit, came>>
\* the write ends: the peer starts its script on HEADERS, returns credit for
\* DATA, answers Close and END_STREAM; it sends nothing on a stream it has ended,
\* reset or, with GOAWAY, left out
Refused(i) == poolPlan.goaway > 0 /\ pool.draining /\ i >= poolPlan.goaway
Answering(i) == {"end", "rst"} \cap ToSet(poolPlan.scripts[i]) = {}
PeerReply(i, frames) ==
  IF Refused(i) THEN <<>>
  ELSE (IF <<"headers", i>> \in frames THEN poolPlan.scripts[i] ELSE <<>>)
    \o (IF <<"close", i>> \in frames /\ Answering(i) /\ "close" \notin ToSet(poolPlan.scripts[i])
        THEN <<"close">> ELSE <<>>)
    \o (IF <<"end", i>> \in frames /\ Answering(i) THEN <<"end">> ELSE <<>>)
PoolSendDone ==
  /\ pool.write
  /\ PoolPolled(PoolFlush([Now EXCEPT !.p.write = FALSE, !.p.wire = <<>>]))
  /\ LET frames == ToSet(pool.wire)
     IN  /\ peerOut' = [i \in Streams |-> peerOut[i] \o PeerReply(i, frames)]
         /\ peerCredit' = [i \in Streams |-> peerCredit[i] +
              Cardinality({f \in frames : f[2] = i /\ f[1] \notin {"headers", "rst", "window", "end"}})]
  /\ UNCHANGED came
PoolReceived(i, n) ==
  /\ pool.receive /\ n \in 1..Len(peerOut[i])
  /\ PoolPolled(ArmFlush(FoldLeft(LAMBDA u, m : ReceiveOn(u, i, m), [Now EXCEPT !.p.receive = FALSE],
                                  SubSeq(peerOut[i], 1, n))))
  /\ peerOut' = [peerOut EXCEPT ![i] = SubSeq(@, n + 1, Len(@))]
  /\ came' = [came EXCEPT ![i] = @ \o SelectSeq(SubSeq(peerOut[i], 1, n), LAMBDA m : m \in PoolFrames)]
  /\ UNCHANGED peerCredit
PoolCredited(i) ==
  /\ pool.receive /\ peerCredit[i] > 0
  /\ "rst" \in ToSet(poolPlan.scripts[i]) => "rst" \in ToSet(peerOut[i])
  /\ PoolPolled(ArmFlush(CreditOn([Now EXCEPT !.p.receive = FALSE], i)))
  /\ peerCredit' = [peerCredit EXCEPT ![i] = @ - 1] /\ UNCHANGED <<peerOut, came>>
\* last_stream_id is at least every stream the peer has answered
Unanswered(i) ==
  i <= pool.opened => \E k \in PoolSlotIds : sockets[k].stream = i /\ sockets[k].phase = "OPENING"
PeerGoaway ==
  /\ poolPlan.goaway > 0 /\ pool.receive /\ pool.settings = "on" /\ ~pool.draining
  /\ \A i \in Streams : i >= poolPlan.goaway => Unanswered(i)
  /\ PoolPolled(ArmFlush(Goaway([Now EXCEPT !.p.receive = FALSE], poolPlan.goaway - 1)))
  /\ peerOut' = [i \in Streams |-> IF i >= poolPlan.goaway THEN <<>> ELSE peerOut[i]]
  /\ UNCHANGED <<peerCredit, came>>
\* CNet's rings fill up or have room again
PoolRoom ==
  /\ poolPlan.refuses /\ pool.live
  /\ pool' = [pool EXCEPT !.full = ~@]
  /\ UNCHANGED <<poolPlan, sockets, call, peerOut, peerCredit, handles, taken, came, went>>
PoolLost ==
  /\ poolPlan.faults /\ pool.phase \in {"CONNECTING", "CONNECTED"}
  /\ PoolPolled(PoolFail(Now, "ECONNRESET")) /\ UNCHANGED <<peerOut, peerCredit, came>>
PoolTick ==
  /\ ~call.timed /\ PoolPolled(Now) /\ UNCHANGED <<peerOut, peerCredit, came>>
PoolDeadline ==
  /\ call.poll /\ call.timed
  /\ LET s == PoolStageFailed([p |-> pool, q |-> sockets, c |-> call, h |-> handles], "ETIMEDOUT")
     IN  pool' = s.p /\ sockets' = s.q /\ call' = PoolIdle
  /\ UNCHANGED <<poolPlan, peerOut, peerCredit, handles, taken, came, went>>

PoolNext ==
  \/ \E timed \in poolPlan.timed :
       \/ PoolOpen(timed) \/ PoolDestroyCall(timed)
       \/ \E h \in handles : PoolSendCall(h, timed) \/ PoolReceiveCall(h, timed) \/ PoolCloseCall(h, timed)
  \/ PoolRun \/ PoolConnected \/ PeerSettings \/ PoolSendDone
  \/ \E i \in Streams : PoolCredited(i) \/ \E n \in 1..3 : PoolReceived(i, n)
  \/ PeerGoaway \/ PoolRoom \/ PoolLost \/ PoolTick \/ PoolDeadline

-----------------------------------------------------------------------------
(* Properties *)

LiveStream == {k \in PoolSlotIds : sockets[k].phase # "FREE"}

\* A session's events are its own stream's frames, in order, each once, and while
\* the session is healthy none is missing, although slots are reused and several
\* streams arrive interleaved (h2_data, event ring, generation).  Every stream the
\* H2 engine holds open belongs to exactly one occupied slot: an open that times
\* out, a rejected handshake and a failed session leave no stream behind
\* (release_slot, slot_release, h2_goaway, active_sessions).
SessionEvents ==
  /\ pool.open = {sockets[k].stream : k \in {k \in LiveStream : ~sockets[k].streamTerminal}}
  /\ pool.active = Cardinality(LiveStream)
  /\ \A i \in Streams : IsPrefix(taken[i], came[i])
  /\ \A k \in LiveStream :
       LET i == sockets[k].stream
       IN  /\ \A j \in LiveStream \ {k} : sockets[j].stream # i
           /\ i > 0 => IsPrefix(taken[i] \o sockets[k].events, came[i])
           /\ i > 0 /\ sockets[k].status = "OK" /\ sockets[k].engine = "OPEN" => taken[i] \o sockets[k].events = came[i]

\* What a session's caller can tell of a slot.
Fate(q, k) == <<q[k].status, q[k].phase>>

\* This step takes a frame of a stream whose table entry was reused and that is not
\* among the streams the engine reset itself (proto_new_stream, proto_dispatch).
FrameOfForgotten ==
  \E i \in 1..pool.opened :
    /\ ForgottenStream(pool, i)
    /\ (peerCredit'[i] < peerCredit[i] \/ Len(peerOut'[i]) < Len(peerOut[i]))

\* "Closes and releases only this HTTP/2 stream; sibling sessions remain usable."
\* (http.h:522): a failing, rejected, closing or timed-out session leaves its
\* siblings as they are.  No step changes the status or the phase of two slots,
\* except destroy, the GOAWAY that starts draining, the loss of the connection
\* (ECONNRESET), and one thing the sentence does not allow: a peer's late frame for
\* a closed session whose entry of the stream table a later open has reused fails
\* the engine, and EPROTO makes every sibling TERMINAL (chttp_h2_proto.c:170-178,
\* 1425-1430, chttp_websocket_pool_fail).
SiblingsSpared ==
  [][\A j, k \in PoolSlotIds : j # k /\ Fate(sockets, j) # Fate(sockets', j) /\ Fate(sockets, k) # Fate(sockets', k)
       => \/ call.kind = "destroy"
          \/ ~pool.draining /\ pool'.draining
          \/ pool'.status = "ECONNRESET" /\ pool.status = "OK"
          \/ pool'.status = "EPROTO" /\ pool.status = "OK" /\ FrameOfForgotten]_poolVars
=============================================================================
