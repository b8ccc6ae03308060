------------------------------- MODULE H2Server -------------------------------
(***************************************************************************)
(* The server's HTTP/2 adapter (http_server/src/chttp_h2_server.c) over the*)
(* engine of H2Protocol: a record s that holds the engine s.p, the table   *)
(* of application streams s.slots, and the transport side of the           *)
(* connection (chttp_server.c).  What the application does with a request  *)
(* is the plan its HEADERS name: answer at once, reject it at admission,   *)
(* defer the response to a worker, or fail.  slot.token is the deferred    *)
(* token a worker thread moves; slot.timed says that deadline_ms is armed. *)
(* s.busy is a write in progress, s.closing is close_after_write.          *)
(***************************************************************************)
EXTENDS H2Protocol

CONSTANT MaxRequest    \* max_request_body_bytes, in units

FreeSlot ==
  [id |-> 0, active |-> FALSE, closed |-> FALSE, tag |-> "", got |-> 0, len |-> 0,
   submitted |-> FALSE, rejected |-> FALSE, token |-> "IDLE", timed |-> FALSE, io |-> FALSE]

NewServer ==
  [p |-> NewEngine("server"), slots |-> [i \in 1..StreamCap |-> FreeSlot],
   draining |-> FALSE, pingSent |-> FALSE, pingAcked |-> FALSE,
   busy |-> FALSE, closing |-> FALSE, open |-> TRUE, tx |-> <<>>]

\* chttp_h2_server_stream_find and _acquire
Find(s, id) == SelectInSeq(s.slots, LAMBDA x : x.active /\ ~x.closed /\ x.id = id)
Vacant(s) == SelectInSeq(s.slots, LAMBDA x : ~x.active)
ActiveStreams(s) == {i \in 1..StreamCap : s.slots[i].active /\ ~s.slots[i].closed}

\* A fault: the slot a worker writes into is not marked closed.
OnServerCloseUnmarked(s, n) ==
  LET i == Find(s, n.id)
  IN  IF i = 0 \/ s.slots[i].token = "WRITING" THEN s ELSE [s EXCEPT !.slots[i] = FreeSlot]

\* chttp_h2_server_stream_close: a slot a worker is writing into is kept
OnServerClose(s, n) ==
  LET i == Find(s, n.id)
  IN  IF i = 0 THEN s
      ELSE [s EXCEPT !.slots[i] = IF @.token = "WRITING" THEN [@ EXCEPT !.closed = TRUE] ELSE FreeSlot]

ServerSettle(s) == [FoldLeft(OnServerClose, s, s.p.notices) EXCEPT !.p.notices = <<>>]

ServerRst(s, id, err) == ServerSettle([s EXCEPT !.p = SubmitRst(@, id, err)])
CloseConnection(s) == [s EXCEPT !.open = FALSE]

\* chttp_h2_server_submit_response_builder
Respond(s, i, kind, size) ==
  ServerSettle([s EXCEPT !.slots[i].submitted = TRUE, !.slots[i].timed = FALSE,
                         !.p = SubmitResponse(@, s.slots[i].id, kind, size)])

\* chttp_h2_server_dispatch_or_reset on a complete request
DispatchRequest(s, i) ==
  LET x == s.slots[i]
      plan == Plan[x.tag]
  IN  CASE x.len # x.got \/ plan.serve = "error" ->
             ServerRst(s, x.id, IF x.len # x.got THEN "protocol" ELSE "internal")
        [] x.len = x.got /\ plan.serve = "defer" -> [s EXCEPT !.slots[i].token = "PENDING"]
        [] x.len = x.got /\ plan.serve = "now" -> Respond(s, i, plan.resp, plan.respSize)

\* chttp_h2_server_begin_headers and _end_headers: the new adapter and whether
\* the callbacks accept the block
Begun(s, i, f) ==
  [s EXCEPT !.slots[i] = [FreeSlot EXCEPT !.id = f.sid, !.active = TRUE, !.tag = f.tag,
                                          !.len = f.n, !.timed = TRUE]]
Admitted(s, i, f) ==
  IF Plan[f.tag].serve = "reject"
  THEN [s EXCEPT !.slots[i].submitted = TRUE, !.slots[i].rejected = TRUE,
                 !.p = SubmitResponse(@, f.sid, "none", 0)]
  ELSE IF f.end THEN DispatchRequest(s, i) ELSE s
OnRequestHeaders(s, f) ==
  LET i == Vacant(s)
  IN  IF s.draining \/ i = 0 THEN [s |-> s, ok |-> FALSE]
      ELSE [s |-> Admitted(Begun(s, i, f), i, f), ok |-> TRUE]

\* chttp_h2_server_data: the new adapter and what the callback returns
CreditBack(s, f) == IF f.n = 0 THEN s ELSE [s EXCEPT !.p = ConsumeBoth(@, f.sid, f.n)]
DispatchAtEnd(s, i, f) ==
  IF s.p.streams[Slot(s.p, f.sid)].remoteEnd THEN DispatchRequest(s, i) ELSE s
OnRequestData(s, f) ==
  LET i == Find(s, f.sid)
      x == s.slots[i]
  IN  CASE i = 0 \/ (x.submitted /\ ~x.rejected) -> [s |-> s, result |-> "fail"]
        [] i # 0 /\ x.submitted /\ x.rejected -> [s |-> CreditBack(s, f), result |-> "ok"]
        [] i # 0 /\ ~x.submitted /\ x.got + f.n > MaxRequest ->
             [s |-> ServerRst([s EXCEPT !.p = ConsumeConnection(@, f.n)], f.sid, "calm"),
              result |-> "ok"]
        [] i # 0 /\ ~x.submitted /\ x.got + f.n <= MaxRequest ->
             [s |-> DispatchAtEnd([CreditBack(s, f) EXCEPT !.slots[i].got = @ + f.n], i, f),
              result |-> "ok"]

DataDone(r, f) == [r.s EXCEPT !.p = DataReturns(@, f, r.result)]
HeadersDone(r, f) == [r.s EXCEPT !.p = HeadersReturn(@, f, r.ok)]
ServerData(s, f) ==
  IF DataUpcall(s.p, f) THEN DataDone(OnRequestData([s EXCEPT !.p = DataArrives(@, f)], f), f)
  ELSE [s EXCEPT !.p = DataArrives(@, f)]
ServerHeaders(s, f) ==
  IF HeadersUpcall(s.p, f)
  THEN HeadersDone(OnRequestHeaders([s EXCEPT !.p = HeadersArrive(@, f)], f), f)
  ELSE [s EXCEPT !.p = HeadersArrive(@, f)]
ServerFrame(s, f) ==
  CASE OutOfOrder(s.p, f) -> [s EXCEPT !.p = Fail(@, f.sid)]
    [] ~OutOfOrder(s.p, f) /\ f.t = "DATA" -> ServerData(s, f)
    [] ~OutOfOrder(s.p, f) /\ f.t = "HEADERS" -> ServerHeaders(s, f)
    [] ~OutOfOrder(s.p, f) /\ f.t = "PONG" ->
         [s EXCEPT !.pingAcked = @ \/ (s.pingSent /\ f.tag = "drain")]
    [] OTHER -> [s EXCEPT !.p = DispatchControl(@, f)]

ServerInput(s, frames) ==
  LET step(t, f) == IF t.p.failed THEN t ELSE ServerSettle(ServerFrame(t, f))
  IN  FoldLeft(step, s, frames)

HasDeferred(s) == \E i \in 1..StreamCap : s.slots[i].token # "IDLE"
Drained(s) ==
  s.draining /\ ActiveStreams(s) = {} /\ ~HasDeferred(s) /\ ~WantWrite(s.p) /\ ~s.busy
StopReady(s) == Drained(s) /\ s.pingAcked
StopWaiting(s) == Drained(s) /\ s.pingSent /\ ~s.pingAcked

\* chttp_server_send_pending with chttp_h2_server_connection_flush: the drain
\* PING goes out behind the last response, and its ACK lets the server close
DrainPing(s) == s.draining /\ ActiveStreams(s) = {} /\ ~s.pingSent /\ ~WantWrite(s.p)
ServerFlushed(s, q, ping) ==
  ServerSettle([s EXCEPT !.p = [q EXCEPT !.out = <<>>], !.tx = @ \o q.out,
                         !.busy = (q.out # <<>>), !.pingSent = @ \/ ping])
\* sources that answered WAIT start a read
StartReads(s) ==
  [s EXCEPT !.slots = [i \in 1..StreamCap |->
     [s.slots[i] EXCEPT !.io = @ \/ /\ s.slots[i].active /\ IsOpen(s.p, s.slots[i].id)
                                    /\ s.p.streams[Slot(s.p, s.slots[i].id)].waiting]]]
CloseIfReady(s) == IF StopReady(s) THEN CloseConnection(s) ELSE s
ServerFlush(s) ==
  IF s.busy \/ ~s.open THEN s
  ELSE CloseIfReady(StartReads(ServerFlushed(s,
         ProtoSend(IF DrainPing(s) THEN SubmitPing(s.p, "drain") ELSE s.p), DrainPing(s))))

\* chttp_server_on_receive: a protocol failure flushes GOAWAY, then closes
CloseUnlessBusy(s) == IF s.closing /\ ~s.busy THEN CloseConnection(s) ELSE s
ServerReceived(s) == CloseUnlessBusy(ServerFlush([s EXCEPT !.closing = @ \/ s.p.failed]))
ServerReceive(s, frames) == ServerReceived(ServerInput(s, frames))

\* A fault: output that became ready during the write waits for the next event.
ServerSentUnflushed(s) ==
  IF s.closing THEN CloseConnection([s EXCEPT !.busy = FALSE]) ELSE [s EXCEPT !.busy = FALSE]

\* chttp_server_on_send
ServerSent(s) ==
  IF s.closing THEN CloseConnection([s EXCEPT !.busy = FALSE])
  ELSE ServerFlush([s EXCEPT !.busy = FALSE])

\* chttp_h2_server_file_ready
ServerFileReady(s, i) ==
  IF CanResumeSource(s.p, s.slots[i].id)
  THEN ServerFlush([s EXCEPT !.slots[i].io = FALSE, !.p = ResumeSource(@, s.slots[i].id)])
  ELSE CloseConnection([s EXCEPT !.slots[i].io = FALSE])

\* chttp_h2_server_connection_deadlines for one expired stream
ServerDeadline(s, i) ==
  LET x == s.slots[i]
  IN  CASE x.token = "PENDING" -> [s EXCEPT !.slots[i].token = "CANCELED", !.slots[i].timed = FALSE]
        [] x.token \notin {"IDLE", "PENDING"} -> [s EXCEPT !.slots[i].timed = FALSE]
        [] x.token = "IDLE" -> ServerFlush(ServerRst(s, x.id, "cancel"))

\* chttp_h2_server_connection_deferred_progress at slot i
DeferredStep(s, i) ==
  LET x == s.slots[i]
      plan == Plan[x.tag]
      t == [s EXCEPT !.slots[i].token = "IDLE"]
  IN  IF x.closed THEN [s EXCEPT !.slots[i] = FreeSlot]
      ELSE ServerFlush(IF x.token = "CANCELED" THEN ServerRst(t, x.id, "cancel")
                       ELSE Respond(t, i, plan.resp, plan.respSize))

ServerStop(s) ==
  ServerFlush([s EXCEPT !.p = SubmitGoaway(@), !.draining = TRUE,
                        !.pingSent = FALSE, !.pingAcked = FALSE])

\* chttp_h2_server_connection_release after the transport closed
ServerReleased(s) ==
  [s EXCEPT !.slots = [i \in 1..StreamCap |->
     IF s.slots[i].token = "WRITING" THEN [s.slots[i] EXCEPT !.closed = TRUE] ELSE FreeSlot]]
=============================================================================
