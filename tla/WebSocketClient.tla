--------------------------- MODULE WebSocketClient ---------------------------
(***************************************************************************)
(* The blocking WebSocket client                                           *)
(* (http_client/src/chttp_websocket_client.c).  One caller makes one call  *)
(* at a time; CNet is polled only inside a call, so whatever a call leaves *)
(* behind (a timed-out send, stored input) rests until the next one.       *)
(*                                                                         *)
(* A call is a list of stages (op.stages), the loops of its function.      *)
(* Run executes the head of the list; when it has to poll, op.poll is set  *)
(* and one CNet event, or the deadline, comes next.  On HTTP/1.1 frames go *)
(* through the CNet bridge; on HTTP/2 through one stream of the H2 engine, *)
(* abstracted to its control output, its send window and one DATA frame.   *)
(* wc.full is the CNet operation that finds no room at the moment.         *)
(***************************************************************************)
EXTENDS Integers, Sequences, SequencesExt, FiniteSets

CONSTANTS WsClients,    \* scenarios: [proto, script, window, sends, faults, refuses]
          EventCap    \* event_capacity

VARIABLES plan,     \* the scenario: fixed in the initial state
          wc,       \* chttp_websocket_client_impl
          op,       \* the call in progress
          inbox,    \* what the peer has still to deliver
          grants,   \* WINDOW_UPDATEs the peer has still to deliver
          given,    \* history: events returned to the caller
          arrived,  \* history: WebSocket frames CNet delivered
          accepted, \* history: messages the engine took from the caller
          sentOk    \* history: messages whose send returned success

wcVars == <<plan, wc, op, inbox, grants, given, arrived, accepted, sentOk>>

NoCall == [kind |-> "none", stages |-> <<>>, poll |-> FALSE, timed |-> FALSE, msg |-> "none", ret |-> "none"]

WcInit ==
  /\ plan \in WsClients
  /\ wc = [phase |-> "DISCONNECTED", connected |-> FALSE, receive |-> FALSE, write |-> FALSE,
           terminal |-> FALSE, status |-> "OK", stored |-> <<>>, tag |-> FALSE, out |-> <<>>,
           engine |-> "none", frame |-> FALSE, data |-> <<>>, window |-> plan.window,
           ctl |-> <<"ctl">>, settings |-> "none", wire |-> <<>>, endSubmitted |-> FALSE,
           remoteEnd |-> FALSE, closeRequested |-> FALSE, streamTerminal |-> FALSE,
           events |-> <<>>, overflow |-> FALSE, sent |-> <<>>, full |-> "never", live |-> TRUE]
  /\ op = NoCall /\ inbox = plan.script /\ grants = 0
  /\ given = <<>> /\ arrived = <<>> /\ accepted = <<>> /\ sentOk = {}

H2 == plan.proto = "h2"

-----------------------------------------------------------------------------
(* The WebSocket engine: at most one retained frame *)

\* chttp_websocket_client_event_push
PushEvent(w, e) ==
  IF w.overflow THEN w
  ELSE IF Len(w.events) >= EventCap THEN [w EXCEPT !.overflow = TRUE, !.status = "ENOBUFS"]
  ELSE [w EXCEPT !.events = Append(@, e)]

\* chttp_websocket_client_write on HTTP/2; the bridge on HTTP/1.1
EngineSend(w, f) ==
  IF H2 /\ ~w.frame /\ w.data = <<>>
  THEN [w EXCEPT !.frame = TRUE, !.data = <<f>>]
  ELSE [w EXCEPT !.out = <<f>>]

FeedFrame(w, m) ==
  CASE m = "ping"  -> EngineSend(PushEvent(w, m), "pong")
    [] m = "close" -> IF w.engine = "OPEN"
                      THEN EngineSend([PushEvent(w, m) EXCEPT !.engine = "CLOSED"], "close")
                      ELSE [PushEvent(w, m) EXCEPT !.engine = "CLOSED"]
    [] OTHER       -> PushEvent(w, m)

SetStatus(w, status) == [w EXCEPT !.status = status]
Overflowed(w) == IF w.overflow THEN SetStatus(w, "ENOBUFS") ELSE w
Reset(w) == [w EXCEPT !.status = IF @ = "OK" THEN "ECONNRESET" ELSE @]

-----------------------------------------------------------------------------
(* Input *)

Frames == {"m1", "m2", "m3", "ping", "close"}

\* chttp_websocket_client_on_receive, HTTP/1.1: EBUSY keeps one receive quantum
ReceiveH1(w, m) ==
  CASE w.phase = "HANDSHAKE" /\ m = "101" -> [w EXCEPT !.phase = "OPEN", !.engine = "OPEN"]
    [] w.phase = "HANDSHAKE" /\ m = "half" -> w
    [] w.phase = "HANDSHAKE" /\ m \notin {"101", "half"} -> SetStatus(w, "EPROTO")
    [] w.phase = "OPEN" /\ w.out = <<>> -> Overflowed(FeedFrame(w, m))
    [] w.phase = "OPEN" /\ w.out # <<>> ->
         IF w.stored = <<>> THEN [w EXCEPT !.stored = <<m>>] ELSE SetStatus(w, "ENOBUFS")
    [] OTHER -> SetStatus(w, "EPROTO")

\* the stream of the H2 client: h2_end_headers, h2_data, h2_stream_close, h2_goaway
StreamEnd(w) ==
  LET q == [w EXCEPT !.remoteEnd = TRUE, !.engine = "CLOSED",
                     !.streamTerminal = @ \/ (w.endSubmitted /\ w.data = <<>>)]
  IN  IF w.closeRequested THEN q ELSE Reset(q)
ReceiveH2(w, m) ==
  CASE m \in {"connect-on", "connect-off"} -> [w EXCEPT !.settings = m, !.ctl = <<"ctl">>]
    [] m = "200"    -> [w EXCEPT !.phase = "OPEN", !.engine = "OPEN"]
    [] m = "403"    -> [w EXCEPT !.phase = "TERMINAL", !.status = "EPROTO"]
    [] m = "end"    -> StreamEnd(w)
    [] m = "rst"    -> Reset([w EXCEPT !.streamTerminal = TRUE, !.engine = "CLOSED"])
    [] m = "goaway" -> Reset([w EXCEPT !.streamTerminal = TRUE])
    [] m \in Frames -> IF w.phase # "OPEN" \/ w.engine = "CLOSED" THEN w
                       ELSE IF w.out # <<>> THEN SetStatus(w, "EPROTO")
                       ELSE Overflowed(FeedFrame([w EXCEPT !.ctl = <<"ctl">>], m))

ReceiveItem(w, m) ==
  IF H2 THEN (IF w.status = "EPROTO" THEN w ELSE ReceiveH2(w, m)) ELSE ReceiveH1(w, m)

\* A fault: stored input stays stored.
FeedStoredInputAgain(w) ==
  IF w.stored = <<>> \/ w.out # <<>> \/ w.terminal THEN w ELSE FeedFrame(w, w.stored[1])

\* chttp_websocket_client_bridge_progress
FeedStoredInput(w) ==
  IF w.stored = <<>> \/ w.out # <<>> \/ w.terminal THEN w
  ELSE FeedFrame([w EXCEPT !.stored = <<>>], w.stored[1])
BridgeProgress(w) ==
  IF H2 \/ w.engine = "none" THEN w
  ELSE FeedStoredInput([w EXCEPT !.tag = @ /\ w.out # <<>> /\ ~w.terminal])

\* A fault: a session on HTTP/1.1 does not ask for input.
ArmHandshake(w) == [w EXCEPT !.receive = @ \/ H2 \/ w.engine = "none"]

\* chttp_websocket_client_receive_arm; its callers poll on when CNet has no room
Arm(w) ==
  [w EXCEPT !.receive = @ \/ /\ w.full # "receive"
                             /\ H2 \/ w.engine = "none" \/ (w.stored = <<>> /\ w.out = <<>>)]

-----------------------------------------------------------------------------
(* Output on HTTP/2: h2_wire_flush and output_pending *)

ReleaseFrame(w) == [w EXCEPT !.frame = @ /\ w.data # <<>>]
FlushEngine(w) ==
  IF ~w.frame /\ w.out # <<>> /\ w.data = <<>>
  THEN [w EXCEPT !.frame = TRUE, !.data = w.out, !.out = <<>>] ELSE w
SubmitEnd(w) ==
  IF w.closeRequested /\ ~w.endSubmitted /\ ~w.frame /\ w.out = <<>> /\ w.engine = "CLOSED"
  THEN [w EXCEPT !.endSubmitted = TRUE, !.data = <<"end">>] ELSE w
\* chttp_h2_proto_send: control output always, DATA when the window allows
Sendable(w) == w.data # <<>> /\ (w.data = <<"end">> \/ w.window > 0)
WireSend(w) ==
  [w EXCEPT !.wire = w.ctl \o (IF Sendable(w) THEN w.data ELSE <<>>),
            !.ctl = <<>>, !.data = IF Sendable(w) THEN <<>> ELSE @,
            !.window = IF Sendable(w) /\ w.data # <<"end">> THEN @ - 1 ELSE @,
            !.streamTerminal = @ \/ (w.data = <<"end">> /\ w.remoteEnd)]
\* what CNet has no room for stays in the wire buffer (h2_wire_size)
StartWrite(w) == [w EXCEPT !.write = w.wire # <<>> /\ w.full # "send"]
WireFlush(w) ==
  LET q == SubmitEnd(ReleaseFrame(w))
  IN  IF q.write THEN q ELSE StartWrite(IF q.wire = <<>> THEN WireSend(q) ELSE q)
OutputPending(w) == w.write \/ w.wire # <<>> \/ w.frame \/ w.ctl # <<>> \/ Sendable(w) \/ w.out # <<>>

-----------------------------------------------------------------------------
(* The stages of the calls; s = [w, op] *)

Pop(s) == [s EXCEPT !.op.stages = Tail(@)]
Wait(s) == [s EXCEPT !.op.poll = TRUE]
\* the stages that replace the current one
Become(s, stages) == [s EXCEPT !.op.stages = stages \o Tail(@)]
ReturnCall(s, r) == [s EXCEPT !.op.ret = r, !.op.stages = <<>>]
Broken(w) == w.terminal \/ w.status # "OK"

\* the error exits: connect closes unless it is open already, a closing handshake
\* that times out closes the transport, close on HTTP/2 marks the request
ConnectFailed(w) == IF w.phase = "OPEN" THEN w ELSE [w EXCEPT !.phase = "TERMINAL", !.connected = FALSE]
FailCall(s, r) ==
  CASE s.op.kind = "connect" -> ReturnCall([s EXCEPT !.w = ConnectFailed(@)], r)
    [] s.op.kind = "close" /\ "shut" \notin ToSet(s.op.stages) ->
         ReturnCall([s EXCEPT !.w.phase = "TERMINAL", !.w.connected = FALSE], r)
    [] s.op.kind = "close" /\ "shut" \in ToSet(s.op.stages) ->
         ReturnCall([s EXCEPT !.w.closeRequested = H2], r)
    [] OTHER -> ReturnCall(s, r)

\* chttp_websocket_client_drain_output.  On HTTP/2 the loop tests for failure
\* after its body, and it asks for no input: what it waits for is the end of a
\* write, or what an earlier call armed.
DrainH1(s) ==
  LET q == [s EXCEPT !.w = BridgeProgress(@)]
  IN  IF Broken(s.w) THEN FailCall(s, s.w.status)
      ELSE IF q.w.tag \/ q.w.out # <<>> THEN Wait(q) ELSE Pop(q)
DrainH2(s) ==
  LET q == [s EXCEPT !.w = WireFlush(FlushEngine(@))]
  IN  IF s.w.terminal THEN FailCall(s, s.w.status)
      ELSE IF OutputPending(q.w) THEN Wait(Become(q, <<"redrain">>))
      ELSE IF Broken(q.w) THEN FailCall(q, q.w.status)
      ELSE Pop(q)
Drain(s) == IF H2 THEN DrainH2(s) ELSE DrainH1(s)
Redrain(s) == IF Broken(s.w) THEN FailCall(s, s.w.status) ELSE DrainH2(s)

WsConnected(s) ==
  IF Broken(s.w) THEN FailCall(s, s.w.status)
  ELSE IF ~s.w.connected THEN Wait(s)
  ELSE IF ~H2 /\ s.w.full = "send" THEN FailCall([s EXCEPT !.w.phase = "HANDSHAKE"], "ENOBUFS")
  ELSE Pop([s EXCEPT !.w.phase = "HANDSHAKE", !.w.write = ~H2, !.w.wire = IF H2 THEN <<>> ELSE <<"request">>])
Settings(s) ==
  IF s.w.settings = "connect-on" THEN Pop([s EXCEPT !.w.ctl = Append(@, "headers")])
  ELSE IF Broken(s.w) \/ s.w.settings = "connect-off" THEN FailCall(s, "EPROTONOSUPPORT")
  ELSE Wait([s EXCEPT !.w = Arm(WireFlush(@))])
Written(s) == IF s.w.write /\ ~Broken(s.w) THEN Wait(s) ELSE Pop(s)
Handshake(s) ==
  IF s.w.phase # "HANDSHAKE" \/ Broken(s.w) THEN Pop(s)
  ELSE Wait([s EXCEPT !.w = Arm(IF H2 THEN WireFlush(@) ELSE @)])
Opened(s) == IF s.w.phase = "OPEN" THEN Pop(s) ELSE FailCall(s, s.w.status)

\* the engine takes the message, or refuses because the session has ended
SubmitFrame(s) ==
  IF s.w.engine # "OPEN" THEN FailCall(s, "ESHUTDOWN")
  ELSE Pop([s EXCEPT !.w = EngineSend([@ EXCEPT !.tag = ~H2], s.op.msg)])
SubmitClose(s) ==
  IF s.w.engine # "OPEN" THEN FailCall(s, "ESHUTDOWN")
  ELSE Pop([s EXCEPT !.w = EngineSend([@ EXCEPT !.engine = "CLOSING", !.closeRequested = H2], "close")])

AwaitEvent(s) ==
  LET q == [s EXCEPT !.w = BridgeProgress(@)]
  IN  IF s.w.events # <<>> \/ Broken(s.w) THEN Pop(s)
      ELSE IF q.w.events # <<>> THEN Pop(q)
      ELSE Wait([q EXCEPT !.w = Arm(@)])
DrainBeforeEvent(s) == IF s.w.events # <<>> /\ ~Broken(s.w) THEN Drain(s) ELSE Pop(s)
TakeEvent(s) ==
  IF s.w.events # <<>> THEN ReturnCall([s EXCEPT !.w.events = Tail(@)], "OK") ELSE ReturnCall(s, s.w.status)

\* the closing handshake; HTTP/2 drains its output before it asks for input
Closing(s) ==
  LET q == [s EXCEPT !.w = BridgeProgress(@)]
  IN  IF Broken(s.w) \/ (H2 /\ s.w.streamTerminal) THEN Pop(s)
      ELSE IF H2 THEN Become(s, <<"drain", "ask">>)
      ELSE IF q.w.out # <<>> THEN Wait(q)
      ELSE IF q.w.engine = "CLOSED" THEN Pop(q)
      ELSE Wait([q EXCEPT !.w = Arm(@)])
AskToClose(s) ==
  IF s.w.streamTerminal THEN Pop(s)
  ELSE Wait(Become([s EXCEPT !.w = Arm(@)], <<"closing">>))
WsClosed(s) == ReturnCall([s EXCEPT !.w.phase = "TERMINAL", !.w.connected = FALSE], "OK")

Stage(s) ==
  CASE Head(s.op.stages) = "connected" -> WsConnected(s)
    [] Head(s.op.stages) = "settings"  -> Settings(s)
    [] Head(s.op.stages) = "written"   -> Written(s)
    [] Head(s.op.stages) = "handshake" -> Handshake(s)
    [] Head(s.op.stages) = "opened"    -> Opened(s)
    [] Head(s.op.stages) = "drain"     -> Drain(s)
    [] Head(s.op.stages) = "redrain"   -> Redrain(s)
    [] Head(s.op.stages) = "submit"    -> SubmitFrame(s)
    [] Head(s.op.stages) = "await"     -> AwaitEvent(s)
    [] Head(s.op.stages) = "drainEvent" -> DrainBeforeEvent(s)
    [] Head(s.op.stages) = "take"      -> TakeEvent(s)
    [] Head(s.op.stages) = "shut"      -> SubmitClose(s)
    [] Head(s.op.stages) = "closing"   -> Closing(s)
    [] Head(s.op.stages) = "ask"       -> AskToClose(s)
    [] Head(s.op.stages) = "closed"    -> WsClosed(s)
    [] Head(s.op.stages) = "ok"        -> ReturnCall(s, s.w.status)

-----------------------------------------------------------------------------
(* Actions *)

Idle == op.kind = "none" /\ wc.live
ApiCall(kind, stages, timed, msg) ==
  /\ op' = [kind |-> kind, stages |-> stages, poll |-> FALSE, timed |-> timed, msg |-> msg, ret |-> "none"]
  /\ UNCHANGED <<plan, inbox, grants, given, arrived, accepted, sentOk>>

ConnectCall(timed) ==
  /\ Idle /\ wc.phase = "DISCONNECTED"
  /\ wc' = [wc EXCEPT !.phase = "CONNECTING"]
  /\ ApiCall("connect", IF H2 THEN <<"connected", "settings", "drain", "handshake", "opened", "drain", "ok">>
                     ELSE <<"connected", "written", "handshake", "opened", "drain", "ok">>, timed, "none")
SendCall(timed) ==
  /\ Idle /\ wc.phase = "OPEN" /\ wc.status = "OK" /\ Len(accepted) < Len(plan.sends)
  /\ ApiCall("send", <<"drain", "submit", "drain", "ok">>, timed, plan.sends[Len(accepted) + 1])
  /\ UNCHANGED wc
ReceiveCall(timed) ==
  /\ Idle /\ (wc.phase = "OPEN" \/ wc.events # <<>>)
  /\ ApiCall("receive", <<"await", "drainEvent", "take">>, timed, "none")
  /\ UNCHANGED wc
CloseCall(timed) ==
  /\ Idle /\ wc.phase = "OPEN"
  /\ ApiCall("close", <<"drain", "shut", "closing", "closed">>, timed, "none")
  /\ UNCHANGED wc
\* chttp_websocket_client_destroy: closes, stops CNet, frees
DestroyCall ==
  /\ Idle /\ wc' = [wc EXCEPT !.live = FALSE, !.connected = FALSE]
  /\ UNCHANGED <<plan, op, inbox, grants, given, arrived, accepted, sentOk>>

\* a loop body, up to the next poll or the end of the call
Run ==
  /\ op.kind # "none" /\ ~op.poll
  /\ LET s == Stage([w |-> wc, op |-> op])
         stage == Head(op.stages)
     IN  /\ wc' = s.w
         /\ op' = IF s.op.ret = "none" THEN s.op ELSE NoCall
         /\ accepted' = IF stage = "submit" /\ s.op.ret = "none" THEN Append(accepted, op.msg) ELSE accepted
         /\ sentOk' = IF op.kind = "send" /\ s.op.ret = "OK" THEN sentOk \cup {op.msg} ELSE sentOk
         /\ given' = IF stage = "take" /\ wc.events # <<>> THEN Append(given, Head(wc.events)) ELSE given
  /\ UNCHANGED <<plan, inbox, grants, arrived>>

\* chttp_websocket_client_poll returned with one event; the bridge makes progress
Polled(w) ==
  /\ op.poll
  /\ wc' = BridgeProgress(w) /\ op' = [op EXCEPT !.poll = FALSE]
  /\ UNCHANGED <<plan, given, accepted, sentOk>>

OnConnected ==
  /\ wc.phase = "CONNECTING" /\ ~wc.connected /\ Polled([wc EXCEPT !.connected = TRUE])
  /\ UNCHANGED <<inbox, grants, arrived>>
\* the retained write of the request or of H2 output ends (on_send): the peer
\* grants window for DATA and answers a closing frame
Answer(frames) ==
  (IF "close" \in ToSet(frames) /\ "close" \notin ToSet(plan.script) THEN <<"close">> ELSE <<>>)
    \o (IF "end" \in ToSet(frames) THEN <<"end">> ELSE <<>>)
OnSendDone ==
  /\ wc.write
  /\ Polled([wc EXCEPT !.write = FALSE, !.wire = <<>>, !.sent = @ \o SelectSeq(wc.wire, LAMBDA f : f # "ctl")])
  /\ inbox' = inbox \o Answer(wc.wire)
  /\ grants' = grants + Len(SelectSeq(wc.wire, LAMBDA f : f \notin {"ctl", "headers", "request", "end"}))
  /\ UNCHANGED arrived
\* the bridge's native write ends
OnBridgeSent ==
  /\ ~H2 /\ wc.out # <<>> /\ wc.engine # "none"
  /\ Polled([wc EXCEPT !.sent = @ \o wc.out, !.out = <<>>])
  /\ inbox' = inbox \o Answer(wc.out)
  /\ UNCHANGED <<grants, arrived>>

\* one receive value: a frame, or on HTTP/2 everything the peer has sent
Deliverable(m) ==
  CASE m \in {"101", "half"} -> "request" \in ToSet(wc.sent)
    [] m \in {"200", "403"} -> "headers" \in ToSet(wc.sent)
    [] OTHER -> TRUE
OnWireInput(n) ==
  /\ wc.receive /\ n \in 1..Len(inbox) /\ (n > 1 => H2 \/ (n = 2 /\ inbox[1] = "101"))
  /\ \A i \in 1..n : Deliverable(inbox[i])
  /\ Polled(FoldLeft(ReceiveItem, [wc EXCEPT !.receive = FALSE], SubSeq(inbox, 1, n)))
  /\ inbox' = SubSeq(inbox, n + 1, Len(inbox))
  /\ arrived' = arrived \o SelectSeq(SubSeq(inbox, 1, n), LAMBDA m : m \in Frames)
  /\ UNCHANGED grants
OnCredit ==
  /\ H2 /\ wc.receive /\ grants > 0
  /\ Polled([wc EXCEPT !.receive = FALSE, !.window = @ + 1])
  /\ grants' = grants - 1 /\ UNCHANGED <<inbox, arrived>>
\* the transport closes or fails
OnClosed ==
  /\ op.poll /\ wc.phase # "DISCONNECTED" /\ ~wc.terminal /\ plan.faults
  /\ Polled(Reset([wc EXCEPT !.terminal = TRUE, !.connected = FALSE, !.receive = FALSE, !.write = FALSE,
                             !.phase = "TERMINAL", !.out = <<>>, !.engine = IF @ = "none" THEN @ ELSE "CLOSED"]))
  /\ UNCHANGED <<inbox, grants, arrived>>
\* CNet's command queue fills up, once; a poll empties it
CnetFull(operation) ==
  /\ wc.full = "never" /\ operation \in plan.refuses /\ wc.connected
  /\ wc' = [wc EXCEPT !.full = operation]
  /\ UNCHANGED <<plan, op, inbox, grants, given, arrived, accepted, sentOk>>
OnRoom ==
  /\ wc.full \in plan.refuses /\ Polled([wc EXCEPT !.full = "past"])
  /\ UNCHANGED <<inbox, grants, arrived>>
\* a call without a deadline polls for a second at a time
OnTick ==
  /\ op.poll /\ ~op.timed /\ Polled(wc) /\ UNCHANGED <<inbox, grants, arrived>>
\* the deadline of the call passes
OnDeadline ==
  /\ op.poll /\ op.timed
  /\ LET s == FailCall([w |-> wc, op |-> op], "ETIMEDOUT") IN wc' = s.w /\ op' = NoCall
  /\ UNCHANGED <<plan, inbox, grants, given, arrived, accepted, sentOk>>

WcNext ==
  \/ \E timed \in BOOLEAN : ConnectCall(timed) \/ SendCall(timed) \/ ReceiveCall(timed) \/ CloseCall(timed)
  \/ DestroyCall \/ Run
  \/ OnConnected \/ OnSendDone \/ OnBridgeSent \/ OnCredit \/ OnClosed \/ OnTick \/ OnDeadline \/ OnRoom
  \/ \E operation \in {"send", "receive"} : CnetFull(operation)
  \/ \E n \in 1..4 : OnWireInput(n)

-----------------------------------------------------------------------------
(* Properties *)

\* Frames reach the caller in the order the peer sent them, none twice, and while
\* the session is healthy none is missing: it was returned, is queued, or is the
\* input stored behind unsent output (on_receive, bridge_progress, event ring).
\* A message goes to the transport at most once and in the order of the calls,
\* also when its send timed out and later calls push it out; a send that returned
\* success has left (tagged_pending, h2_frame_size, drain_output before and after).
TransfersExact ==
  LET out == SelectSeq(wc.sent \o wc.wire \o wc.data \o wc.out, LAMBDA f : f \in ToSet(plan.sends))
  IN  /\ IsPrefix(given \o wc.events, arrived)
      /\ wc.status = "OK" => given \o wc.events \o wc.stored = arrived
      /\ IsPrefix(out, accepted)
      /\ ~Broken(wc) => out = accepted
      /\ \A m \in sentOk : m \in ToSet(wc.sent)

\* What CNet owes the client.
Owed ==
  ~wc.connected \/ wc.write \/ wc.receive \/ wc.full \in plan.refuses \/ (~H2 /\ wc.out # <<>>)
\* DATA without credit, and a frame the engine kept until the earlier one was released
FlowBlocked == H2 /\ wc.data # <<>> /\ ~Sendable(wc)
KeptBehind == H2 /\ wc.out # <<>>

\* A call that blocks waits for something CNet owes it: a connection, room, the end
\* of a write, or input it has asked for.  The exception is the output loop on
\* HTTP/2 (drain_output), which asks for no input.  DATA without credit there waits
\* for a WINDOW_UPDATE that nobody reads: until the call's deadline, for ever
\* without one.  A frame kept behind an earlier one there waits out the poll.  Every
\* other wait of connect, send, receive and close, HTTP/1.1's included, is owed.
WaitsAreOwed ==
  op.poll /\ ~Owed => Head(op.stages) = "redrain" /\ (FlowBlocked \/ KeptBehind)
=============================================================================
