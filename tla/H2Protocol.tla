------------------------------ MODULE H2Protocol ------------------------------
(***************************************************************************)
(* The HTTP/2 protocol engine that client and server share                 *)
(* (http_common/http/chttp_h2_proto.c): stream table, flow-control windows,*)
(* the ring of locally reset streams, frame output and frame dispatch.     *)
(*                                                                         *)
(* An engine is a record p and every function of the file is an operator   *)
(* from engines to engines, so that an adapter composes them the way its C *)
(* callbacks do.  on_stream_close is recorded in p.notices, which the      *)
(* adapter consumes after every dispatched frame; on_data and the header   *)
(* callbacks run between ...Arrives and ...Returns.  Octets are abstracted *)
(* to flow-control units, header blocks to a tag; a header block is one    *)
(* frame (the CONTINUATION frames that out_headers emits back to back are  *)
(* joined), and the output buffer is large enough for one round of DATA.   *)
(***************************************************************************)
EXTENDS Integers, Sequences, SequencesExt

CONSTANTS StreamCap,      \* stream_capacity: slots, and the size of the reset ring
          DefaultWindow,  \* CHTTP_H2_DEFAULT_WINDOW: every window before SETTINGS
          MaxWindow,      \* CHTTP_H2_MAX_WINDOW
          LocalWindow,    \* [mode -> initial window announced for streams]
          ConnWindow,     \* [mode -> target receive window of the connection]
          Plan,           \* [tag of a header block -> what the applications do with it]
          MaxFrame        \* the largest DATA payload (max_frame_size, send_chunk)

ASSUME WindowAssumption ==
  /\ StreamCap \in Nat \ {0} /\ MaxFrame \in Nat \ {0}
  /\ DefaultWindow \in 1..MaxWindow /\ MaxWindow \in Nat
  /\ \A m \in {"client", "server"} : /\ LocalWindow[m] \in 1..MaxWindow
                                     /\ ConnWindow[m] \in DefaultWindow..MaxWindow

\* a frame; SETTINGS carries the stream limit in sid and the initial window in n,
\* HEADERS the content length in n, RST the error in tag
F(t, sid, n, end, tag) == [t |-> t, sid |-> sid, n |-> n, end |-> end, tag |-> tag]
Control(t, sid, n) == F(t, sid, n, FALSE, "")

\* chttp_h2_proto_create: nothing sent, nothing received
NewEngine(mode) ==
  [mode |-> mode, streams |-> <<>>, ring |-> [i \in 1..StreamCap |-> 0], cursor |-> 1,
   nextId |-> 1, maxPeer |-> 0, lastProc |-> 0, draining |-> FALSE,
   failed |-> FALSE, failedOn |-> 0,
   connSend |-> DefaultWindow, connRecv |-> DefaultWindow, consumed |-> 0,
   peerWin |-> DefaultWindow, peerMax |-> MaxWindow,
   settingsSent |-> FALSE, gotSettings |-> FALSE,
   out |-> <<>>, inbuf |-> <<>>, pausedOn |-> 0, pausedEnd |-> FALSE, notices |-> <<>>]

NewStreamRecord(p, id) ==
  [id |-> id, sendWin |-> p.peerWin, recvWin |-> LocalWindow[p.mode],
   closed |-> FALSE, reset |-> FALSE, endSent |-> FALSE, remoteEnd |-> FALSE,
   body |-> "none", left |-> 0, buf |-> 0, waiting |-> FALSE, eof |-> FALSE]

\* proto_find: the slot of a stream, 0 when no slot holds the id (any more)
Slot(p, id) == SelectInSeq(p.streams, LAMBDA s : s.id = id)
InRing(p, id) == \E i \in 1..StreamCap : p.ring[i] = id
IsOpen(p, id) == Slot(p, id) # 0 /\ ~p.streams[Slot(p, id)].closed

RecordReset(p, id) ==
  IF InRing(p, id) THEN p
  ELSE [p EXCEPT !.ring[p.cursor] = id, !.cursor = 1 + (@ % StreamCap)]
ForgetReset(p, id) ==
  [p EXCEPT !.ring = [i \in 1..StreamCap |-> IF @[i] = id THEN 0 ELSE @[i]]]

Open(p) == {i \in 1..Len(p.streams) : ~p.streams[i].closed}

\* proto_new_stream: the first closed slot is reused before the table grows, so
\* the engine forgets the oldest closed stream as soon as another one opens.
HasSlot(p) == Open(p) # 1..Len(p.streams) \/ Len(p.streams) < StreamCap
NewStream(p, id) ==
  LET i == SelectInSeq(p.streams, LAMBDA s : s.closed)
  IN  [p EXCEPT !.streams = IF i # 0 THEN [@ EXCEPT ![i] = NewStreamRecord(p, id)]
                            ELSE Append(@, NewStreamRecord(p, id)),
                !.lastProc = IF p.mode = "server" /\ id > @ THEN id ELSE @]

Emit(p, f) == [p EXCEPT !.out = Append(@, f)]

\* proto_ensure_preface: SETTINGS, then the credit above the default window.
\* The server waits for the client's preface, which precedes its SETTINGS.
AnnounceWindow(p) ==
  IF ConnWindow[p.mode] = DefaultWindow THEN p
  ELSE Emit([p EXCEPT !.connRecv = ConnWindow[p.mode]],
            Control("WINDOW", 0, ConnWindow[p.mode] - DefaultWindow))
EnsurePreface(p) ==
  IF p.settingsSent \/ (p.mode = "server" /\ ~p.gotSettings) THEN p
  ELSE AnnounceWindow(Emit([p EXCEPT !.settingsSent = TRUE],
                           Control("SETTINGS", StreamCap, LocalWindow[p.mode])))

SubmitPing(p, tag) == Emit(EnsurePreface(p), F("PING", 0, 0, FALSE, tag))

CanWindow(p, id, n) ==
  IF id = 0 THEN p.connRecv <= MaxWindow - n
  ELSE IsOpen(p, id) /\ p.streams[Slot(p, id)].recvWin <= MaxWindow - n
SubmitWindow(p, id, n) ==
  Emit(IF id = 0 THEN [p EXCEPT !.connRecv = @ + n]
       ELSE [p EXCEPT !.streams[Slot(p, id)].recvWin = @ + n],
       Control("WINDOW", id, n))

\* a stream leaves the open state: the callback is owed to the adapter
Close(p, i, err) ==
  [p EXCEPT !.streams[i].closed = TRUE, !.streams[i].body = "none",
            !.notices = Append(@, [id |-> p.streams[i].id, err |-> err])]

\* chttp_h2_proto_submit_rst_stream on an open stream
SubmitRst(p, id, err) ==
  Close([RecordReset(Emit(p, F("RST", id, 0, FALSE, err)), id) EXCEPT
           !.streams[Slot(p, id)].reset = TRUE], Slot(p, id), err)

SubmitGoaway(p) ==
  [Emit(EnsurePreface(p), Control("GOAWAY", 0, p.lastProc)) EXCEPT !.draining = TRUE]

\* proto_fail; failedOn keeps the stream whose frame was refused (history)
Fail(p, sid) ==
  IF p.failed THEN p ELSE SubmitGoaway([p EXCEPT !.failed = TRUE, !.failedOn = sid])

MaybeClose(p, i) ==
  IF p.streams[i].closed \/ ~p.streams[i].endSent \/ ~p.streams[i].remoteEnd THEN p
  ELSE Close(p, i, "none")

\* the body a submission leaves pending on its stream
WithBody(p, id, kind, size) ==
  LET i == Slot(p, id)
  IN  [p EXCEPT !.streams[i].endSent = (kind = "none"), !.streams[i].body = kind,
                !.streams[i].left = size]

\* chttp_h2_proto_submit_request_ex: body kind "none", "flat" or "file"
CanRequest(p) ==
  p.mode = "client" /\ ~p.draining /\ ~p.failed /\ Cardinality(Open(p)) < p.peerMax
SubmitRequest(p, kind, size, tag) ==
  LET q == NewStream([EnsurePreface(p) EXCEPT !.nextId = @ + 2], p.nextId)
  IN  Emit(WithBody(q, p.nextId, kind, size), F("HEADERS", p.nextId, size, kind = "none", tag))

\* chttp_h2_proto_submit_response_ex on an open stream
SubmitResponse(p, id, kind, size) ==
  MaybeClose(Emit(WithBody(p, id, kind, size), F("HEADERS", id, size, kind = "none", "")),
             Slot(p, id))

-----------------------------------------------------------------------------
(* Send path *)

Least(a, b) == IF a < b THEN a ELSE b
Credit(p, i) == Least(p.connSend, p.streams[i].sendWin)

\* n units of DATA in frames of at most MaxFrame; the last carries END_STREAM
DataFrames(id, n, end) ==
  LET k == (n + MaxFrame - 1) \div MaxFrame
  IN  [j \in 1..k |-> F("DATA", id, IF j < k THEN MaxFrame ELSE n - (k - 1) * MaxFrame,
                        end /\ j = k, "")]

SendUnits(p, i, n, end) ==
  [p EXCEPT !.out = @ \o DataFrames(p.streams[i].id, n, end), !.connSend = @ - n,
            !.streams[i].sendWin = @ - n, !.streams[i].endSent = end,
            !.streams[i].body = IF end THEN "none" ELSE @]

\* n units of a body in memory; the last of them ends the stream
SendFlat(p, i, n) ==
  IF n <= 0 THEN p
  ELSE MaybeClose(SendUnits([p EXCEPT !.streams[i].left = @ - n], i, n, n = p.streams[i].left), i)
EmitFlat(p, i) == SendFlat(p, i, Least(p.streams[i].left, Credit(p, i)))

\* A file source yields what its last completed read left in the buffer, then
\* answers WAIT while the next read runs; EOF is an empty DATA frame.
SendFile(p, i, n, credit) ==
  LET end == [p EXCEPT !.out = Append(@, F("DATA", p.streams[i].id, 0, TRUE, "")),
                       !.streams[i].endSent = TRUE, !.streams[i].body = "none"]
  IN  IF credit <= 0 THEN p
      ELSE IF p.streams[i].eof THEN MaybeClose(end, i)
      ELSE SendUnits([p EXCEPT !.streams[i].buf = @ - n, !.streams[i].waiting = (n < credit)],
                     i, n, FALSE)
EmitFile(p, i) == SendFile(p, i, Least(p.streams[i].buf, Credit(p, i)), Credit(p, i))

\* proto_emit_data
EmitData(p, i) ==
  CASE p.streams[i].closed -> p
    [] p.streams[i].body = "flat" -> EmitFlat(p, i)
    [] p.streams[i].body = "file" -> EmitFile(p, i)
    [] OTHER -> p

\* chttp_h2_proto_send leaves in p.out the octets it hands to the transport
EmitAll(p) == IF p.failed THEN p ELSE FoldLeft(EmitData, p, [i \in 1..Len(p.streams) |-> i])
ProtoSend(p) == EmitAll(EnsurePreface(p))

WantWrite(p) ==
  \/ p.out # <<>>
  \/ /\ ~p.failed
     /\ \E i \in Open(p) : \/ p.streams[i].body = "flat"
                           \/ p.streams[i].body = "file" /\ ~p.streams[i].waiting

CanResumeSource(p, id) ==
  IsOpen(p, id) /\ p.streams[Slot(p, id)].body = "file" /\ p.streams[Slot(p, id)].waiting
\* chttp_file_transfer_complete, then chttp_h2_proto_resume_source
ResumeSource(p, id) ==
  LET i == Slot(p, id)
      n == Least(p.streams[i].left, MaxFrame)
  IN  [p EXCEPT !.streams[i].waiting = FALSE, !.streams[i].buf = @ + n,
                !.streams[i].left = @ - n, !.streams[i].eof = (p.streams[i].left = 0)]

-----------------------------------------------------------------------------
(* Flow-control credit returned by the application *)

ConsumeConnection(p, n) ==
  IF n = 0 THEN p
  ELSE IF p.consumed + n >= ConnWindow[p.mode] \div 2
       THEN SubmitWindow([p EXCEPT !.consumed = 0], 0, p.consumed + n)
       ELSE [p EXCEPT !.consumed = @ + n]

CanConsumeStream(p, id, n) == CanWindow(p, id, n)
ConsumeStream(p, id, n) == IF n = 0 THEN p ELSE SubmitWindow(p, id, n)
ConsumeBoth(p, id, n) == ConsumeConnection(ConsumeStream(p, id, n), n)

-----------------------------------------------------------------------------
(* Frame dispatch *)

OnSettings(p, f) ==
  LET grown == [i \in 1..Len(p.streams) |->
                  IF p.streams[i].closed THEN p.streams[i]
                  ELSE [p.streams[i] EXCEPT !.sendWin = @ + f.n - p.peerWin]]
  IN  IF \E i \in Open(p) : grown[i].sendWin > MaxWindow
      THEN Fail(p, 0)
      ELSE Emit(EnsurePreface([p EXCEPT !.gotSettings = TRUE, !.streams = grown,
                                        !.peerWin = f.n, !.peerMax = f.sid]),
                Control("ACK", 0, 0))

\* a WINDOW_UPDATE that fails the connection, one that is ignored, one that adds credit
WindowRefused(p, f, i) ==
  IF f.sid = 0 THEN p.connSend > MaxWindow - f.n
  ELSE IF i = 0 THEN ~InRing(p, f.sid)
  ELSE ~p.streams[i].closed /\ p.streams[i].sendWin > MaxWindow - f.n

\* A fault: credit for a closed stream is a protocol error.
OnWindowAtClosed(p, f, i) ==
  IF WindowRefused(p, f, i) \/ (i # 0 /\ p.streams[i].closed) THEN Fail(p, f.sid)
  ELSE IF f.sid = 0 THEN [p EXCEPT !.connSend = @ + f.n]
  ELSE IF i = 0 THEN p
  ELSE [p EXCEPT !.streams[i].sendWin = @ + f.n]

OnWindowAt(p, f, i) ==
  IF WindowRefused(p, f, i) THEN Fail(p, f.sid)
  ELSE IF f.sid = 0 THEN [p EXCEPT !.connSend = @ + f.n]
  ELSE IF i = 0 \/ p.streams[i].closed THEN p
  ELSE [p EXCEPT !.streams[i].sendWin = @ + f.n]
OnWindow(p, f) == OnWindowAt(p, f, Slot(p, f.sid))

OnRstAt(p, f, i) ==
  IF i = 0 THEN IF InRing(p, f.sid) THEN p ELSE Fail(p, f.sid)
  ELSE [(IF p.streams[i].closed THEN p ELSE Close(p, i, f.tag)) EXCEPT !.streams[i].reset = FALSE]
OnRst(p, f) == ForgetReset(OnRstAt(p, f, Slot(p, f.sid)), f.sid)

\* streams of ours above the peer's last processed id end as refused
OnGoaway(p, f) ==
  LET refused(q, i) == IF q.streams[i].closed \/ q.streams[i].id <= f.n THEN q
                       ELSE Close(q, i, "refused")
      mine == IF p.mode = "client" THEN Len(p.streams) ELSE 0
  IN  FoldLeft(refused, [p EXCEPT !.draining = TRUE], [i \in 1..mine |-> i])

\* the first frame of a peer is its SETTINGS
OutOfOrder(p, f) == ~p.gotSettings /\ f.t # "SETTINGS"

\* SETTINGS, ACK, WINDOW_UPDATE, RST_STREAM, GOAWAY, PING
DispatchControl(p, f) ==
  CASE f.t = "SETTINGS" -> OnSettings(p, f)
    [] f.t = "WINDOW"   -> OnWindow(p, f)
    [] f.t = "RST"      -> OnRst(p, f)
    [] f.t = "GOAWAY"   -> OnGoaway(p, f)
    [] f.t = "PING"     -> Emit(p, F("PONG", 0, 0, FALSE, f.tag))
    [] OTHER            -> p

\* DATA before the callback: connection window, known stream, stream window.
\* The frame reaches on_data when DataUpcall holds of the engine before it.
DataIgnored(p, f) ==
  IF Slot(p, f.sid) = 0 THEN InRing(p, f.sid) ELSE p.streams[Slot(p, f.sid)].reset
DataRefused(p, f) ==
  \/ f.n > p.connRecv
  \/ /\ ~DataIgnored(p, f)
     /\ \/ Slot(p, f.sid) = 0
        \/ p.streams[Slot(p, f.sid)].closed
        \/ p.streams[Slot(p, f.sid)].remoteEnd
        \/ f.n > p.streams[Slot(p, f.sid)].recvWin
DataUpcall(p, f) == ~DataRefused(p, f) /\ ~DataIgnored(p, f)

EndOfReset(p, id) ==
  LET i == Slot(p, id)
  IN  ForgetReset([p EXCEPT !.streams = IF i = 0 THEN @
                     ELSE [@ EXCEPT ![i] = [@ EXCEPT !.remoteEnd = TRUE, !.reset = FALSE]]], id)

EndsReset(p, f) == IF f.end THEN EndOfReset(p, f.sid) ELSE p

\* A fault: DATA of a reset stream is dropped with its credit.
DataArrivesUncredited(p, f) ==
  LET i == Slot(p, f.sid)
      q == [p EXCEPT !.connRecv = @ - f.n]
  IN  CASE DataRefused(p, f) -> Fail(IF f.n > p.connRecv THEN p ELSE q, f.sid)
        [] ~DataRefused(p, f) /\ DataIgnored(p, f) -> EndsReset(q, f)
        [] DataUpcall(p, f) ->
             [q EXCEPT !.streams[i].recvWin = @ - f.n,
                       !.streams[i].remoteEnd = @ \/ f.end]

DataArrives(p, f) ==
  LET i == Slot(p, f.sid)
      q == [p EXCEPT !.connRecv = @ - f.n]
  IN  CASE DataRefused(p, f) -> Fail(IF f.n > p.connRecv THEN p ELSE q, f.sid)
        [] ~DataRefused(p, f) /\ DataIgnored(p, f) -> EndsReset(ConsumeConnection(q, f.n), f)
        [] DataUpcall(p, f) ->
             [q EXCEPT !.streams[i].recvWin = @ - f.n,
                       !.streams[i].remoteEnd = @ \/ f.end]

\* DATA after the callback returned result
DataReturns(p, f, result) ==
  LET i == Slot(p, f.sid)
  IN  CASE result = "pause" -> [p EXCEPT !.pausedOn = f.sid, !.pausedEnd = f.end]
        [] result = "fail"  -> Fail(p, f.sid)
        [] result = "ok"    ->
             IF f.end THEN MaybeClose(IF p.streams[i].reset THEN EndOfReset(p, f.sid) ELSE p, i)
             ELSE p

\* HEADERS before the callbacks; a server opens the stream of a new request
HeadersRefused(p, f) ==
  LET i == Slot(p, f.sid)
  IN  /\ ~InRing(p, f.sid)
      /\ IF p.mode = "server" /\ i = 0
         THEN \/ f.sid <= p.maxPeer
              \/ Cardinality(Open(p)) >= StreamCap \/ ~HasSlot(p)
         ELSE \/ i = 0
              \/ ~p.streams[i].reset /\ (p.streams[i].closed \/ p.streams[i].remoteEnd)
HeadersIgnored(p, f) == InRing(p, f.sid) \/ DataIgnored(p, f)
HeadersUpcall(p, f) == ~HeadersRefused(p, f) /\ ~HeadersIgnored(p, f)

OpenPeerStream(p, id) ==
  IF Slot(p, id) # 0 THEN p ELSE [NewStream(p, id) EXCEPT !.maxPeer = id]
EndOfHeaders(p, f) == [p EXCEPT !.streams[Slot(p, f.sid)].remoteEnd = f.end]
HeadersArrive(p, f) ==
  CASE HeadersRefused(p, f) -> Fail(p, f.sid)
    [] HeadersIgnored(p, f) -> EndsReset(p, f)
    [] HeadersUpcall(p, f) -> EndOfHeaders(OpenPeerStream(p, f.sid), f)

\* proto_finish_headers after the callbacks: a refusal resets the stream
HeadersReturn(p, f, ok) ==
  LET i == Slot(p, f.sid)
  IN  IF p.failed \/ p.streams[i].closed THEN p
      ELSE IF ok THEN MaybeClose(p, i)
      ELSE EndsReset(SubmitRst(p, f.sid, "protocol"), f)

\* chttp_h2_proto_resume_input up to the dispatch of what was buffered
CanResumeInput(p, id) == p.pausedOn = id
ResumeInput(p, id) ==
  LET q == [p EXCEPT !.pausedOn = 0, !.pausedEnd = FALSE]
      i == Slot(p, id)
  IN  IF p.pausedEnd /\ i # 0 THEN MaybeClose(q, i) ELSE q
=============================================================================
