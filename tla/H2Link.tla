-------------------------------- MODULE H2Link --------------------------------
(***************************************************************************)
(* One HTTP/2 connection between the client and the server of this         *)
(* repository: the session of H2Session and the adapter of H2Server, each  *)
(* with its own engine, joined by two byte streams (client.tx, server.tx). *)
(* The owners' threads, the file runtime, the workers that complete        *)
(* deferred responses, deadlines, cancellation, shutdown of either side    *)
(* and the loss of the connection interleave freely.                       *)
(***************************************************************************)
EXTENDS H2Session, H2Server

\* a scenario: whether the client is the blocking one, the tags of the requests it
\* submits, in order, which of them it may cancel or give up, whose server deadline
\* may expire, who may stop, whether the transport delivers frame by frame or
\* everything in flight at once, and which CNet operations may find no room
CONSTANT Scenarios

VARIABLES scenario, client, server

linkVars == <<scenario, client, server>>

LinkInit == scenario \in Scenarios /\ client = NewSession /\ server = NewServer

\* how many frames of the stream a read returns
Chunk(wire) == IF scenario.read = "one" THEN 1 ELSE Len(wire)
Taken(wire) == SubSeq(wire, 1, Chunk(wire))
Rest(wire) == SubSeq(wire, Chunk(wire) + 1, Len(wire))

-----------------------------------------------------------------------------
(* The client's owner thread and its file runtime *)

Usable == client.state \in {"active", "draining"}

\* the blocking client refuses a second operation and waits for the slot's release
Submit ==
  /\ CanSubmit(client) /\ client.p.nextId \in Ids
  /\ scenario.blocking => Registered(client) = {}
  /\ LET n == (client.p.nextId + 1) \div 2
     IN  n <= Len(scenario.tags) /\ client' = SessionSubmit(client, scenario.tags[n])
  /\ UNCHANGED <<scenario, server>>

Cancel(id) ==
  /\ ~scenario.blocking
  /\ Usable /\ client.req[id].st = "live" /\ client.req[id].tag \in scenario.cancel
  /\ client' = SessionCancel(client, id)
  /\ UNCHANGED <<scenario, server>>

\* the deadline of a blocking request
GiveUp(id) ==
  /\ scenario.blocking /\ client.state # "terminal"
  /\ client.req[id].st \in {"live", "terminal"} /\ client.req[id].tag \in scenario.cancel
  /\ client' = SessionGiveUp(client, id)
  /\ UNCHANGED <<scenario, server>>

FileWritten(id, ok) ==
  /\ client.req[id].io = "write"
  /\ client' = ResumeFileSink(client, id, ok)
  /\ UNCHANGED <<scenario, server>>

FileRead(id) ==
  /\ client.req[id].io = "read"
  /\ client' = ResumeFileSource(client, id)
  /\ UNCHANGED <<scenario, server>>

\* the H2 part of chttp_async_client_poll around the network poll
Progress ==
  /\ client' = SessionReap(SessionProgress(client))
  /\ UNCHANGED <<scenario, server>>

ClientReceive ==
  /\ Usable /\ client.armed /\ server.tx # <<>>
  /\ client' = SessionReceive(client, Taken(server.tx))
  /\ server' = [server EXCEPT !.tx = Rest(@)]
  /\ UNCHANGED scenario

ClientSent ==
  /\ Usable /\ client.busy
  /\ client' = SessionFlush([client EXCEPT !.busy = FALSE])
  /\ UNCHANGED <<scenario, server>>

ClientStop ==
  /\ "client" \in scenario.stop /\ Usable /\ ~client.p.draining
  /\ client' = SessionStop(client)
  /\ UNCHANGED <<scenario, server>>

\* CNet's command queue fills up, once, and empties again
CnetRefuses(op) ==
  /\ Usable /\ client.full = "never" /\ op \in scenario.refuses
  /\ client' = [client EXCEPT !.full = op]
  /\ UNCHANGED <<scenario, server>>

CnetAccepts ==
  /\ client.full \in scenario.refuses
  /\ client' = [client EXCEPT !.full = "past"]
  /\ UNCHANGED <<scenario, server>>

\* the transport reports the end of the connection to both sides
Disconnect ==
  /\ client.state # "terminal"
  /\ client.state = "closing" \/ ~server.open
  /\ client' = [SessionClosed(client) EXCEPT !.tx = <<>>]
  /\ server' = ServerReleased([CloseConnection(server) EXCEPT !.tx = <<>>])
  /\ UNCHANGED scenario

-----------------------------------------------------------------------------
(* The server's owner lane, its workers and its deadlines *)

Receives ==
  /\ server.open /\ ~server.closing /\ client.tx # <<>>
  /\ server' = ServerReceive(server, Taken(client.tx))
  /\ client' = [client EXCEPT !.tx = Rest(@)]
  /\ UNCHANGED scenario

ServerSends ==
  /\ server.open /\ server.busy
  /\ server' = ServerSent(server)
  /\ UNCHANGED <<scenario, client>>

ServerReads(i) ==
  /\ server.open /\ server.slots[i].io
  /\ server' = ServerFileReady(server, i)
  /\ UNCHANGED <<scenario, client>>

Deadline(i) ==
  /\ server.open /\ server.slots[i].active /\ ~server.slots[i].closed
  /\ server.slots[i].timed /\ server.slots[i].tag \in scenario.timed
  /\ server' = ServerDeadline(server, i)
  /\ UNCHANGED <<scenario, client>>

WorkerClaims(i) ==
  /\ server.slots[i].token = "PENDING"
  /\ server' = [server EXCEPT !.slots[i].token = "WRITING"]
  /\ UNCHANGED <<scenario, client>>

WorkerCompletes(i) ==
  /\ server.slots[i].token = "WRITING"
  /\ server' = [server EXCEPT !.slots[i].token = "READY"]
  /\ UNCHANGED <<scenario, client>>

DeferredProgress(i) ==
  /\ server.slots[i].token \in {"READY", "CANCELED"}
  /\ server.slots[i].closed \/ (server.open /\ ~server.busy)
  /\ server' = DeferredStep(server, i)
  /\ UNCHANGED <<scenario, client>>

BeginStop ==
  /\ "server" \in scenario.stop /\ server.open /\ server.p.gotSettings
  /\ ~server.draining /\ ~server.closing
  /\ server' = ServerStop(server)
  /\ UNCHANGED <<scenario, client>>

\* h2_close_after_ms: the drain PING is not answered in time
StopTimeout ==
  /\ server.open /\ StopWaiting(server)
  /\ server' = CloseConnection(server)
  /\ UNCHANGED <<scenario, client>>

ClientStep ==
  \/ Submit
  \/ \E id \in Ids : \/ Cancel(id) \/ GiveUp(id) \/ FileRead(id)
                     \/ \E ok \in BOOLEAN : FileWritten(id, ok)
  \/ Progress \/ ClientReceive \/ ClientSent \/ ClientStop \/ Disconnect
  \/ CnetAccepts \/ \E op \in {"send", "close", "receive"} : CnetRefuses(op)

ServerStep ==
  \/ Receives \/ ServerSends \/ BeginStop \/ StopTimeout
  \/ \E i \in 1..StreamCap : \/ ServerReads(i) \/ Deadline(i) \/ WorkerClaims(i)
                             \/ WorkerCompletes(i) \/ DeferredProgress(i)

LinkNext == ClientStep \/ ServerStep

LinkSpec == LinkInit /\ [][LinkNext]_linkVars

-----------------------------------------------------------------------------
(* Properties *)

Sum(S, op(_)) == FoldSet(LAMBDA x, acc : op(x) + acc, 0, S)
Units(frames, type, sids) ==
  FoldLeft(LAMBDA acc, f : IF f.t = type /\ f.sid \in sids THEN acc + f.n ELSE acc, 0, frames)
Healthy == ~client.p.failed /\ ~server.p.failed /\ server.open /\ client.state \in {"active", "draining"}

ToServer == client.p.out \o client.held \o client.tx \o server.p.inbuf
ToClient == server.p.out \o server.tx \o client.p.inbuf

\* what the sender may still send, what is on its way and what was granted back
\* add up to what the receiver still accepts
Balance(sender, receiver, sent, back) ==
  sender.connSend + Units(sent, "DATA", Ids) + Units(back, "WINDOW", {0}) = receiver.connRecv

\* the same for a stream both engines have open; SETTINGS may still be on their way
StreamBalance(sender, receiver, sent, back, id) ==
  IsOpen(sender, id) /\ IsOpen(receiver, id) =>
    sender.streams[Slot(sender, id)].sendWin + (LocalWindow[receiver.mode] - sender.peerWin)
      + Units(sent, "DATA", {id}) + Units(back, "WINDOW", {id})
    = receiver.streams[Slot(receiver, id)].recvWin

\* what an engine's open stream accepts, with what its application still holds
StreamOwes(p, id, held) ==
  IsOpen(p, id) => p.streams[Slot(p, id)].recvWin + held = LocalWindow[p.mode]

\* Flow control neither loses nor invents credit: in both directions the two
\* engines agree on the connection's window and on every stream's, counting
\* frames in flight, and a receiver owes only what it has consumed below the
\* update threshold or still holds for a file write (consume_connection,
\* consume_stream, on_data, resume_file_sink).
CreditConserved ==
  Healthy =>
    /\ Balance(client.p, server.p, ToServer, ToClient)
    /\ Balance(server.p, client.p, ToClient, ToServer)
    /\ \A id \in Ids : /\ StreamBalance(client.p, server.p, ToServer, ToClient, id)
                       /\ StreamBalance(server.p, client.p, ToClient, ToServer, id)
                       /\ StreamOwes(client.p, id, client.req[id].flow)
                       /\ StreamOwes(server.p, id, 0)
    /\ client.p.settingsSent =>
         client.p.connRecv + client.p.consumed
           + Sum(Ids, LAMBDA id : client.req[id].flow) = ConnWindow["client"]
    /\ server.p.settingsSent =>
         server.p.connRecv + server.p.consumed = ConnWindow["server"]

\* A stream the engine has given up: it was opened, and its slot went to another.
Forgotten(p, id) ==
  id # 0 /\ Slot(p, id) = 0 /\ (IF p.mode = "client" THEN id < p.nextId ELSE id <= p.maxPeer)

\* An engine fails the connection only over a frame of a stream it has forgotten
\* (proto_fail): every other race between resets, ends of stream, window updates,
\* SETTINGS and GOAWAY of the two sides is absorbed.
FailsOnlyForgotten ==
  \A p \in {client.p, server.p} : p.failed => Forgotten(p, p.failedOn)

\* The adapter's table mirrors the engine's: every open stream has exactly one
\* live slot (on_begin_headers, on_stream_close, deferred tokens).
SlotsMirrorStreams ==
  server.open =>
    /\ \A i \in Open(server.p) :
         Cardinality({j \in ActiveStreams(server) : server.slots[j].id = server.p.streams[i].id}) = 1
    /\ \A j \in ActiveStreams(server) : IsOpen(server.p, server.slots[j].id)

\* What a request reported successful was given.
Answered(id) ==
  client.req[id].st = "done" /\ client.req[id].res = "ok" =>
    LET plan == Plan[client.req[id].tag]
    IN  /\ plan.serve # "error"
        /\ client.req[id].got = IF plan.serve = "reject" THEN 0 ELSE plan.respSize
\* A request reported successful got the whole body of the answer the server
\* meant for it (content length, on_stream_close), and a completion is final:
\* exactly one result is delivered per request.
AnswersIntact ==
  /\ [](\A id \in Ids : Answered(id))
  /\ [][\A id \in Ids : client.req[id].st = "done" =>
          client'.req[id].st = "done" /\ client'.req[id].res = client.req[id].res]_linkVars

\* Nothing is owed to the connection by the transport, the file runtime, the
\* workers or the owners' polls: only the applications could act.
Quiet ==
  /\ Usable => /\ server.tx = <<>> \/ ~client.armed
               /\ ~client.busy /\ server.open
  /\ client.state # "closing" /\ client.full \notin scenario.refuses
  /\ SessionReap(SessionProgress(client)) = client
  /\ \A id \in Ids : client.req[id].io = "none"
  /\ server.open => /\ client.tx = <<>> \/ server.closing
                    /\ ~server.busy /\ ~StopWaiting(server)
                    /\ \A i \in 1..StreamCap : ~server.slots[i].io
  /\ \A i \in 1..StreamCap : server.slots[i].token = "IDLE"

\* No request and no shutdown is ever left waiting for an event nobody owes: when
\* everything in flight has been delivered, every submitted request has completed
\* and left the registry, and a stopping server has closed.  (Windows, paused
\* input, waiting sources, busy and refused sends, refused closes, drain PING.)
NeverStranded ==
  Quiet =>
    /\ \A id \in Ids : client.req[id].st \notin {"live", "terminal"}
    /\ server.draining => ~server.open
    /\ Registered(client) = {}

-----------------------------------------------------------------------------
(* What a comment of the code says *)

\* "H2 sends RST_STREAM(CANCEL) without closing sibling streams" (http.h): where
\* nobody stops and no deadline passes, a cancellation ends no request but the
\* cancelled one, and no request ends by the loss of the connection.
CancelSparesSiblings == \A id \in Ids : client.req[id].res \notin {"failed", "reset"}
=============================================================================
