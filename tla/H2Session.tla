------------------------------ MODULE H2Session -------------------------------
(***************************************************************************)
(* The client's HTTP/2 session (http_client/src/chttp_h2_session.c) over   *)
(* the engine of H2Protocol: a record c that holds the engine c.p, the     *)
(* request of every stream in c.req, and the transport side of the session.*)
(* Frames the session hands to CNet are appended to c.tx; c.busy is        *)
(* send_active, c.held the pending output CNet has refused, c.armed        *)
(* receive_armed.  File reads and writes are asynchronous: c.req[id].io is *)
(* the operation the file runtime still owes the request.  Only requests   *)
(* of the blocking client read or write files.  c.full is the CNet         *)
(* operation that finds no room at the moment.                             *)
(***************************************************************************)
EXTENDS H2Protocol, Functions

CONSTANTS Ids,          \* stream ids the client may use
          MaxResponse   \* max_response_body_bytes, in units

FreeRequest ==
  [st |-> "free", tag |-> "", res |-> "", failure |-> "", final |-> FALSE, len |-> 0,
   got |-> 0, flow |-> 0, io |-> "none", reg |-> FALSE]

NewSession ==
  [p |-> NewEngine("client"), state |-> "active", req |-> [id \in Ids |-> FreeRequest],
   defer |-> FALSE, failed |-> FALSE, closeAfterFlush |-> FALSE, closePending |-> FALSE,
   armed |-> TRUE, busy |-> FALSE, held |-> <<>>, full |-> "never", tx |-> <<>>]

Active(c) == {id \in Ids : c.req[id].st \in {"live", "terminal"}}
\* active_requests: a registry entry lives until the owner releases the request
Registered(c) == {id \in Ids : c.req[id].reg}

\* A fault: final headers make a success of any end of the stream.
CloseResultHeaders(r, err) ==
  IF r.final THEN "ok" ELSE IF r.failure # "" THEN r.failure ELSE "protocol"

CloseResult(r, err) ==
  CASE err = "none" /\ r.final /\ r.len = r.got -> "ok"
    [] err = "none" /\ r.final /\ r.len # r.got -> "length"
    [] (err # "none" \/ ~r.final) /\ r.failure # "" -> r.failure
    [] (err # "none" \/ ~r.final) /\ r.failure = "" ->
         IF err = "cancel" THEN "canceled" ELSE IF err = "refused" THEN "refused" ELSE "protocol"

\* chttp_h2_on_stream_close; record_terminal while completions are deferred
OnStreamClose(c, n) ==
  IF c.req[n.id].st # "live" THEN c
  ELSE [c EXCEPT !.req[n.id].st = IF c.defer THEN "terminal" ELSE "done",
                 !.req[n.id].res = CloseResult(c.req[n.id], n.err)]

Settle(c) == [FoldLeft(OnStreamClose, c, c.p.notices) EXCEPT !.p.notices = <<>>]

\* RST_STREAM with the completion left to chttp_h2_session_progress
ResetDeferred(c, id, err) ==
  [Settle([c EXCEPT !.p = SubmitRst(@, id, err), !.defer = TRUE]) EXCEPT !.defer = c.defer]

\* chttp_h2_session_try_close: a close CNet has no room for is left to progress
TryClose(c) ==
  IF c.full = "close" THEN [c EXCEPT !.closePending = TRUE]
  ELSE [c EXCEPT !.state = "closing", !.closePending = FALSE]

SessionFail(c) ==
  TryClose([c EXCEPT !.failed = TRUE, !.closeAfterFlush = FALSE, !.state = "draining",
                     !.req = [id \in Ids |-> IF id \in Active(c)
                                THEN [c.req[id] EXCEPT !.st = "done", !.res = "failed"]
                                ELSE c.req[id]]])

\* the requests whose source just answered WAIT have a read in progress
Reading(p, id) == IsOpen(p, id) /\ p.streams[Slot(p, id)].waiting

\* chttp_h2_session_flush
\* what the engine has to send is held for CNet; sources that answered WAIT start a read
Produced(c, q) ==
  Settle([c EXCEPT !.p = [q EXCEPT !.out = <<>>], !.held = q.out,
                   !.req = [id \in Ids |-> IF Reading(q, id)
                              THEN [c.req[id] EXCEPT !.io = "read"] ELSE c.req[id]]])
SendHeld(c) ==
  IF c.held = <<>> \/ c.full = "send" THEN c
  ELSE [c EXCEPT !.tx = @ \o c.held, !.held = <<>>, !.busy = TRUE]
CloseIfFlushed(c) ==
  IF c.closeAfterFlush /\ ~c.busy /\ c.held = <<>> /\ ~WantWrite(c.p) THEN TryClose(c) ELSE c
SessionFlush(c) ==
  IF c.state \in {"closing", "terminal"} \/ c.busy THEN c
  ELSE CloseIfFlushed(SendHeld(IF c.held = <<>> /\ WantWrite(c.p) THEN Produced(c, ProtoSend(c.p)) ELSE c))

\* chttp_h2_session_arm_receive, unless the input is paused
CanArm(c) == c.p.pausedOn # 0 \/ c.armed \/ c.full # "receive"
Arm(c) == [c EXCEPT !.armed = @ \/ (c.p.pausedOn = 0 /\ c.full # "receive")]

-----------------------------------------------------------------------------
(* Engine callbacks *)

OnResponseHeaders(c, f) ==
  [c EXCEPT !.req[f.sid].final = TRUE, !.req[f.sid].len = f.n]

\* chttp_h2_on_data: the new session and what the callback returns
RefuseData(c, f, failure, err) ==
  ResetDeferred([c EXCEPT !.req[f.sid].failure = failure, !.p = ConsumeConnection(@, f.n)],
                f.sid, err)
OnResponseData(c, f) ==
  LET r == c.req[f.sid]
      sink == Plan[r.tag].sink
      large == r.got + f.n > MaxResponse
  IN  CASE r.st = "free" \/ ~r.final -> [c |-> c, result |-> "fail"]
        [] r.final /\ (large \/ (f.n > 0 /\ sink = "broken")) ->
             [c |-> RefuseData(c, f, IF large THEN "too-large" ELSE "sink",
                               IF large THEN "calm" ELSE "cancel"),
              result |-> "ok"]
        [] r.final /\ ~large /\ f.n > 0 /\ sink = "file" ->
             [c |-> [c EXCEPT !.req[f.sid].got = @ + f.n, !.req[f.sid].flow = f.n,
                              !.req[f.sid].io = "write"],
              result |-> "pause"]
        [] r.final /\ ~large /\ (f.n = 0 \/ sink = "memory") ->
             [c |-> [c EXCEPT !.req[f.sid].got = @ + f.n,
                              !.p = IF f.n = 0 THEN @ ELSE ConsumeBoth(@, f.sid, f.n)],
              result |-> "ok"]

\* chttp_h2_on_goaway runs before the engine closes the refused streams
OnSessionGoaway(c) ==
  [c EXCEPT !.state = IF @ = "active" THEN "draining" ELSE @,
            !.closeAfterFlush = @ \/ Registered(c) = {}]

Returned(r, f) == [r.c EXCEPT !.p = DataReturns(@, f, r.result)]
SessionData(c, f) ==
  IF DataUpcall(c.p, f) THEN Returned(OnResponseData([c EXCEPT !.p = DataArrives(@, f)], f), f)
  ELSE [c EXCEPT !.p = DataArrives(@, f)]
SessionHeaders(c, f) ==
  IF HeadersUpcall(c.p, f)
  THEN [OnResponseHeaders([c EXCEPT !.p = HeadersArrive(@, f)], f) EXCEPT !.p = HeadersReturn(@, f, TRUE)]
  ELSE [c EXCEPT !.p = HeadersArrive(@, f)]
SessionFrame(c, f) ==
  CASE OutOfOrder(c.p, f) -> [c EXCEPT !.p = Fail(@, f.sid)]
    [] ~OutOfOrder(c.p, f) /\ f.t = "DATA" -> SessionData(c, f)
    [] ~OutOfOrder(c.p, f) /\ f.t = "HEADERS" -> SessionHeaders(c, f)
    [] OTHER -> [(IF f.t = "GOAWAY" THEN OnSessionGoaway(c) ELSE c) EXCEPT
                   !.p = DispatchControl(@, f)]

\* chttp_h2_proto_recv: frames after a failure are dropped, frames behind a
\* paused one wait in the input buffer
SessionInput(c, frames) ==
  LET step(d, f) == IF d.p.failed THEN d
                    ELSE IF d.p.pausedOn # 0 THEN [d EXCEPT !.p.inbuf = Append(@, f)]
                    ELSE Settle(SessionFrame(d, f))
  IN  FoldLeft(step, [c EXCEPT !.p.inbuf = <<>>], c.p.inbuf \o frames)

\* chttp_h2_proto_resume_input: the paused stream may close, then the buffer runs
SessionResume(c, id) ==
  SessionInput(Settle([c EXCEPT !.p = ResumeInput(@, id)]), <<>>)

-----------------------------------------------------------------------------
(* Entry points *)

\* chttp_h2_cnet_receive
FlushUnlessFailed(c) == IF c.p.failed \/ ~CanArm(c) THEN SessionFail(c) ELSE SessionFlush(Arm(c))
SessionReceive(c, frames) == FlushUnlessFailed(SessionInput([c EXCEPT !.armed = FALSE], frames))

\* chttp_h2_session_submit
CanSubmit(c) ==
  c.state = "active" /\ Cardinality(Registered(c)) < StreamCap /\ CanRequest(c.p) /\ HasSlot(c.p)
SessionSubmit(c, tag) ==
  LET id == c.p.nextId
  IN  [c EXCEPT !.p = SubmitRequest(@, Plan[tag].req, Plan[tag].reqSize, tag),
                !.req[id] = [FreeRequest EXCEPT !.st = "live", !.tag = tag, !.reg = TRUE]]

\* chttp_h2_session_cancel: reset, then let the input behind the stream run
ArmUnlessFailed(c) == IF c.p.failed THEN c ELSE Arm(c)
ResumeAfterCancel(c, id) ==
  IF CanResumeInput(c.p, id)
  THEN [ArmUnlessFailed(SessionResume([c EXCEPT !.defer = TRUE], id)) EXCEPT !.defer = FALSE]
  ELSE c
SessionCancel(c, id) == ResumeAfterCancel(ResetDeferred(c, id, "cancel"), id)

\* a file write ends; chttp_h2_session_resume_file_sink
\* the credit of the write goes back, or the stream is reset when the file failed
SinkWritten(c, id, n) == [c EXCEPT !.p = ConsumeBoth(@, id, n)]
SinkFailed(c, id, n) ==
  ResetDeferred([c EXCEPT !.p = ConsumeConnection(@, n), !.req[id].failure = "file",
                          !.defer = TRUE], id, "cancel")
SinkReturned(c, id, n, ok) ==
  [SessionResume(IF ok THEN SinkWritten(c, id, n) ELSE SinkFailed(c, id, n), id) EXCEPT !.defer = FALSE]
ResumeFileSink(c, id, ok) ==
  LET n == c.req[id].flow
      b == [c EXCEPT !.req[id].io = "none"]
      d == [b EXCEPT !.req[id].flow = 0]
  IN  IF c.req[id].st = "done" THEN b
      ELSE IF ~CanResumeInput(c.p, id)
              \/ (IF ok THEN ~CanConsumeStream(c.p, id, n) ELSE ~IsOpen(c.p, id))
           THEN SessionFail(d)
      ELSE FlushUnlessFailed(SinkReturned(d, id, n, ok))

\* a file read ends; chttp_h2_session_resume_file_source
ResumeFileSource(c, id) ==
  LET b == [c EXCEPT !.req[id].io = "none"]
  IN  IF c.req[id].st = "done" THEN b
      ELSE IF CanResumeSource(c.p, id)
           THEN SessionFlush([b EXCEPT !.p = ResumeSource(@, id)])
           ELSE SessionFail(b)

\* chttp_h2_session_progress: the deferred completions, the close that found no
\* room, then flush
RetryClose(c) == IF c.closePending THEN TryClose(c) ELSE c
SessionProgress(c) ==
  SessionFlush(RetryClose([c EXCEPT !.req = [id \in Ids |-> IF c.req[id].st = "terminal"
                                               THEN [c.req[id] EXCEPT !.st = "done"] ELSE c.req[id]]]))

\* chttp_reap_terminal_slots, chttp_h2_request_release: the registry entry of a
\* completed request goes once no file operation can still reach it
Reaped(c) ==
  [id \in Ids |->
     IF c.req[id].st # "done" \/ c.req[id].io # "none" \/ (c.failed /\ c.state # "terminal")
     THEN c.req[id] ELSE [c.req[id] EXCEPT !.reg = FALSE]]
SessionReap(c) ==
  [c EXCEPT !.req = Reaped(c),
            !.closeAfterFlush = @ \/ /\ c.state = "draining" /\ Registered(c) # {}
                                     /\ \A id \in Ids : ~Reaped(c)[id].reg]

SessionStop(c) ==
  IF c.state = "active"
  THEN [c EXCEPT !.p = SubmitGoaway(@), !.state = "draining", !.closeAfterFlush = (Registered(c) = {})]
  ELSE [c EXCEPT !.closeAfterFlush = @ \/ Registered(c) = {}]

\* chttp_file_sink_transfer_drain_destroy: the callback is cleared and the file
\* runtime runs until the operation is quiescent
SinkWithdrawn(c, id) == [c EXCEPT !.req[id].io = "none"]
\* chttp_requests_perform at its deadline: cancel, take the file transfer back,
\* stop the client
SessionGiveUp(c, id) ==
  SessionStop(SinkWithdrawn(IF c.req[id].st = "live" THEN SessionCancel(c, id) ELSE c, id))

\* chttp_h2_cnet_state on CLOSED or FAILED
SessionClosed(c) ==
  [c EXCEPT !.state = "terminal", !.busy = FALSE, !.armed = FALSE, !.closePending = FALSE,
            !.req = [id \in Ids |-> IF id \in Active(c)
                       THEN [c.req[id] EXCEPT !.st = "done", !.res = "reset"] ELSE c.req[id]]]
=============================================================================
