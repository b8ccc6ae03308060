--------------------------- MODULE WebSocketServer ---------------------------
(***************************************************************************)
(* The server's WebSocket side on HTTP/1.1                                 *)
(* (http_server/src/chttp_websocket_server.c and the parts of              *)
(* chttp_server.c that serve an upgraded connection): the opening          *)
(* handshake, input and output of a peer, both transport modes (the shared *)
(* connection path and the dedicated bridge), and the command queue        *)
(* through which any thread sends to a captured session.                   *)
(*                                                                         *)
(* One owner lane serves one connection slot, reused under generations.    *)
(* The CNet WebSocket engine is external: it retains at most one frame     *)
(* that the transport did not take (peer.out) and then answers EBUSY.      *)
(***************************************************************************)
EXTENDS Integers, Sequences, FiniteSets

CONSTANTS Producers,    \* threads that send through captured sessions
          CommandCap,   \* command_capacity of the owner lane
          WsPlans,      \* bounds: connections served by the slot, who publishes
                        \* commands, how many and of which kinds, messages of the client
          CreditCap     \* bound: receive credits CNet is asked for at once

ASSUME WsConstants == /\ CommandCap \in Nat /\ CreditCap \in Nat \ {0} /\ IsFiniteSet(Producers)
ASSUME WsPlanTypes ==
  \A p \in WsPlans : /\ p.gens \in Nat \ {0} /\ p.producers \subseteq Producers
                     /\ p.messages \subseteq {"message", "echo", "ping", "close"}

VARIABLES wsPlan,    \* the bounds of this behaviour, an element of WsPlans
          peer,      \* the connection slot with its websocket_peer
          queue,     \* websocket_commands: published, not yet taken
          pending,   \* websocket_pending: kept by the owner, to be retried in order
          todo,      \* the part of websocket_pending the current pass has not reached
          held,      \* websocket_pending_count
          claims,    \* websocket_command_claims
          prod,      \* [Producers -> what a producer is in the middle of]
          inPass,    \* the owner is between the snapshot and the end of a pass
          pressure,  \* CNet refuses a send, a receive or a close with ENOBUFS
          wsStop,    \* "running", "stopping", "closing" or "destroyed"
          tickets,   \* history: commands published so far
          lastAccepted,  \* history: by generation, the last command its peer accepted
          settled    \* history: commands accepted or given up with a final error

wsVars == <<wsPlan, peer, queue, pending, todo, held, claims, prod, inPass, pressure, wsStop, tickets, lastAccepted, settled>>

WsFrame(t, kind) == [t |-> t, kind |-> kind]

FreshPeer(gen, dedicated) ==
  [active |-> gen > 0, gen |-> gen, dedicated |-> dedicated, phase |-> "NONE", bridge |-> FALSE,
   state |-> "OPEN", out |-> <<>>, tag |-> FALSE, opening |-> <<>>, input |-> <<>>,
   outbound |-> <<>>, writing |-> FALSE, pend |-> "NONE", closing |-> FALSE, shut |-> FALSE,
   credit |-> (IF gen > 0 THEN 1 ELSE 0), paused |-> FALSE, blocked |-> FALSE]

WsInit ==
  /\ wsPlan \in WsPlans
  /\ peer \in {FreshPeer(1, d) : d \in BOOLEAN}
  /\ queue = <<>> /\ pending = <<>> /\ todo = <<>> /\ held = 0
  /\ claims = 0 /\ inPass = FALSE
  /\ prod = [q \in Producers |-> <<>>]
  /\ pressure = FALSE /\ wsStop = "running"
  /\ tickets = 0 /\ lastAccepted = [g \in 1..wsPlan.gens |-> 0] /\ settled = 0

-----------------------------------------------------------------------------
(* The connection's transport: at most one deferred action *)

\* a dedicated peer does not read while output or stored input is outstanding
Outstanding(p) == p.tag \/ p.out # <<>> \/ p.input # <<>>

\* chttp_server_connection_retry
RetryReceive(p) ==
  IF p.bridge /\ p.credit > 0 THEN [p EXCEPT !.pend = "NONE"]
  ELSE IF p.bridge /\ Outstanding(p) THEN [p EXCEPT !.paused = TRUE]
  ELSE IF pressure THEN p
  ELSE [p EXCEPT !.credit = IF @ < CreditCap THEN @ + 1 ELSE @, !.paused = FALSE, !.pend = "NONE"]
Retry(p) ==
  IF ~p.active \/ p.writing \/ p.pend = "NONE" THEN p
  ELSE IF p.pend = "RECEIVE" THEN RetryReceive(p)
  ELSE IF pressure THEN p
  ELSE IF p.pend = "SEND" THEN [p EXCEPT !.writing = TRUE, !.pend = "NONE"]
  ELSE [p EXCEPT !.shut = TRUE, !.pend = "NONE"]

\* chttp_server_connection_close
CloseConn(p) ==
  Retry([p EXCEPT !.closing = TRUE, !.pend = IF @ = "SEND" THEN @ ELSE "CLOSE"])

\* chttp_server_connection_receive
ReceiveMore(p) ==
  IF p.closing \/ (p.bridge /\ p.credit > 0) THEN p
  ELSE IF p.bridge /\ Outstanding(p) THEN [p EXCEPT !.paused = TRUE]
  ELSE Retry([p EXCEPT !.pend = "RECEIVE"])

\* chttp_server_send_pending
SendPending(p) ==
  IF p.writing THEN p
  ELSE IF p.outbound = <<>> THEN ReceiveMore(p)
  ELSE Retry([p EXCEPT !.pend = "SEND"])

-----------------------------------------------------------------------------
(* The WebSocket engine over its transport *)

\* chttp_server_websocket_h1_write answers EBUSY, and the engine keeps the frame
CanWrite(p) == p.phase = "OPEN" /\ ~p.writing /\ p.outbound = <<>> /\ p.pend # "SEND"
EngineWrite(p, f) ==
  IF ~p.bridge /\ CanWrite(p) THEN SendPending([p EXCEPT !.outbound = <<f>>])
  ELSE [p EXCEPT !.out = <<f>>]

\* chttp_server_websocket_apply: the status of a send ...
ApplyStatus(p) ==
  IF p.dedicated /\ p.phase = "HANDSHAKE" /\ p.opening # <<>> THEN "EBUSY"
  ELSE IF p.state # "OPEN" THEN "ESHUTDOWN"
  ELSE IF p.out # <<>> \/ p.tag THEN "EBUSY"
  ELSE "OK"
\* ... and what an accepted one does: the single operation of an opening
\* dedicated peer is kept for the bridge, data on the bridge is tagged
Apply(p, f) ==
  LET q == [p EXCEPT !.state = IF f.kind = "close" THEN "CLOSING" ELSE @,
                     !.opening = IF p.dedicated /\ p.phase = "HANDSHAKE" THEN <<f>> ELSE @,
                     !.tag = p.bridge /\ f.kind # "close"]
  IN  EngineWrite(q, f)

\* cnet_websocket_feed of one message: the engine answers a PING and a CLOSE,
\* the route's callback may answer a message
Feed(p, m) ==
  CASE m = "ping"    -> IF p.state = "OPEN" THEN EngineWrite(p, WsFrame(0, "pong")) ELSE p
    [] m = "close"   -> IF p.state = "OPEN"
                        THEN EngineWrite([p EXCEPT !.state = "CLOSED"], WsFrame(0, "close"))
                        ELSE [p EXCEPT !.state = "CLOSED"]
    [] m = "echo"    -> IF ApplyStatus(p) = "OK" THEN Apply(p, WsFrame(0, "text")) ELSE p
    [] m = "message" -> p

\* cnet_websocket_flush on the shared connection
FlushOut(p) ==
  IF p.out # <<>> /\ CanWrite(p)
  THEN SendPending([p EXCEPT !.outbound = p.out, !.out = <<>>]) ELSE p

FeedStored(p) == IF p.input = <<>> THEN p ELSE Feed([p EXCEPT !.input = <<>>], p.input[1])
Terminal(p) == p.state = "CLOSED"

\* chttp_server_websocket_bind: the bridge takes over the connection
BindPeer(p) ==
  LET q == [p EXCEPT !.bridge = TRUE, !.phase = "OPEN", !.state = "OPEN", !.out = <<>>,
                     !.opening = <<>>]
  IN  IF p.opening = <<>> THEN q ELSE Apply(q, p.opening[1])

\* chttp_server_websocket_progress: advancing the bridge completes the tag of a
\* frame the transport has taken (chttp_server_websocket_tag_complete)
Advanced(p) == [p EXCEPT !.tag = @ /\ p.out # <<>>]

\* A fault: the pause ends and no receive is armed.
ResumeTransportUnarmed(p) ==
  IF p.tag \/ p.out # <<>> THEN p
  ELSE IF Terminal(p) THEN CloseConn(p) ELSE [p EXCEPT !.paused = FALSE]

ResumeTransport(p) ==
  IF p.tag \/ p.out # <<>> THEN p
  ELSE IF Terminal(p) THEN CloseConn(p)
  ELSE IF p.paused /\ ~p.closing THEN SendPending([p EXCEPT !.paused = FALSE])
  ELSE p
AfterAdvance(p) == IF p.tag \/ p.out # <<>> THEN p ELSE ResumeTransport(FeedStored(p))
WsProgress(p) == IF p.bridge THEN AfterAdvance(Advanced(p)) ELSE p

\* chttp_server_websocket_send_complete
CloseIfTerminal(p) ==
  IF Terminal(p) /\ ~p.writing /\ p.outbound = <<>> /\ p.pend = "NONE" THEN CloseConn(p) ELSE p
SendComplete(p) ==
  IF p.dedicated THEN WsProgress(BindPeer(p))
  ELSE CloseIfTerminal(FeedStored(FlushOut([p EXCEPT !.phase = "OPEN"])))

-----------------------------------------------------------------------------
(* Connection events, in the owner's thread *)

Owner == wsStop # "destroyed" /\ ~inPass
Unchanged == UNCHANGED <<wsPlan, queue, pending, todo, held, claims, prod, inPass, pressure, wsStop, tickets, lastAccepted, settled>>

\* chttp_server_websocket_upgrade: the open callback accepts (and may send one
\* frame), or replies; bytes behind the request are stored
Upgrade ==
  /\ Owner /\ peer.active /\ peer.phase = "NONE" /\ peer.credit > 0 /\ ~peer.closing
  /\ \E accept, sends \in BOOLEAN, more \in {<<>>} \cup {<<m>> : m \in wsPlan.messages} :
       LET q == [peer EXCEPT !.credit = 0, !.phase = "HANDSHAKE", !.input = more]
           r == IF sends THEN Apply(q, WsFrame(0, "text")) ELSE q
       IN  peer' = SendPending(IF accept THEN [r EXCEPT !.outbound = <<WsFrame(0, "101")>>]
                               ELSE [peer EXCEPT !.credit = 0, !.closing = TRUE,
                                                 !.outbound = <<WsFrame(0, "reply")>>])
  /\ Unchanged

\* chttp_server_on_send
AfterSend(p) ==
  IF p.outbound # <<>> THEN SendPending(p)
  ELSE IF p.closing THEN CloseConn(p) ELSE SendPending(p)
OnSend ==
  /\ Owner /\ peer.active /\ peer.writing
  /\ LET q == [peer EXCEPT !.writing = FALSE, !.outbound = <<>>]
     IN  peer' = AfterSend(IF q.phase = "NONE" THEN q ELSE SendComplete(q))
  /\ Unchanged

\* chttp_server_on_receive on an open peer: input behind unsent output is stored
OnReceive(m) ==
  /\ Owner /\ peer.active /\ peer.phase = "OPEN" /\ peer.credit > 0 /\ ~peer.shut
  /\ LET q == [peer EXCEPT !.credit = @ - 1]
         r == IF q.out # <<>> THEN [q EXCEPT !.input = <<m>>] ELSE Feed(q, m)
     IN  peer' = IF q.closing THEN q
                 ELSE IF q.out # <<>> /\ q.input # <<>>
                      THEN IF q.writing \/ q.outbound # <<>> THEN [q EXCEPT !.closing = TRUE]
                           ELSE CloseConn(q)
                 ELSE IF r.writing \/ r.outbound # <<>> THEN r ELSE SendPending(r)
  /\ Unchanged

\* the bridge's native write ends: the frame is taken, or the session fails
NativeWrite ==
  /\ Owner /\ peer.active /\ peer.bridge /\ peer.out # <<>>
  /\ peer' \in {[peer EXCEPT !.out = <<>>],
               CloseConn([peer EXCEPT !.out = <<>>, !.tag = FALSE, !.state = "CLOSED"])}
  /\ Unchanged

\* chttp_server_retry_pending for the slot; a bridge that outlived its
\* connection is released here
RetryPending ==
  /\ Owner
  /\ peer' = IF peer.active THEN Retry(WsProgress(peer)) ELSE [peer EXCEPT !.bridge = FALSE]
  /\ Unchanged

\* the connection ends; the slot is accepted again under the next generation
\* once the bridge has let go of it
TransportClosed ==
  /\ Owner /\ peer.active
  /\ \E lingers \in {FALSE, peer.bridge} :
       peer' = [FreshPeer(0, peer.dedicated) EXCEPT !.gen = peer.gen, !.bridge = lingers]
  /\ Unchanged
Accept ==
  /\ Owner /\ wsStop = "running" /\ ~peer.active /\ ~peer.bridge /\ peer.gen < wsPlan.gens
  /\ peer' = FreshPeer(peer.gen + 1, peer.dedicated)
  /\ Unchanged

Pressure ==
  /\ wsStop # "destroyed"
  /\ pressure' = ~pressure
  /\ UNCHANGED <<wsPlan, peer, queue, pending, todo, held, claims, prod, inPass, wsStop, tickets, lastAccepted, settled>>

-----------------------------------------------------------------------------
(* Commands from other threads *)

\* chttp_server_websocket_command_submit: claim a slot under the lock, ...
Claim(q, kind) ==
  /\ wsStop = "running" /\ prod[q] = <<>>
  /\ claims < CommandCap - Len(queue) - held
  /\ tickets + claims < wsPlan.commands
  /\ claims' = claims + 1
  /\ \E gen \in 1..peer.gen : prod' = [prod EXCEPT ![q] = <<[gen |-> gen, kind |-> kind]>>]
  /\ UNCHANGED <<wsPlan, peer, queue, pending, todo, held, inPass, pressure, wsStop, tickets, lastAccepted, settled>>

\* ... copy outside it, then publish, unless there is no memory for the copy or
\* the server stops meanwhile
PublishCommand(q) ==
  /\ prod[q] # <<>>
  /\ claims' = claims - 1 /\ prod' = [prod EXCEPT ![q] = <<>>]
  /\ \/ /\ wsStop = "running"
        /\ tickets' = tickets + 1
        /\ queue' = Append(queue, [t |-> tickets + 1, gen |-> prod[q][1].gen, kind |-> prod[q][1].kind])
     \/ UNCHANGED <<tickets, queue>>
  /\ UNCHANGED <<wsPlan, peer, pending, todo, held, inPass, pressure, wsStop, lastAccepted, settled>>

\* A fault: commands to be retried go behind the new ones.
SnapshotNewFirst ==
  /\ Owner /\ wsStop \in {"running", "stopping"}
  /\ todo' = queue \o pending /\ held' = Len(pending) + Len(queue)
  /\ pending' = <<>> /\ queue' = <<>> /\ inPass' = TRUE
  /\ peer' = [peer EXCEPT !.blocked = FALSE]
  /\ UNCHANGED <<wsPlan, claims, prod, pressure, wsStop, tickets, lastAccepted, settled>>

\* chttp_server_websocket_commands_progress: the snapshot under the lock ...
Snapshot ==
  /\ Owner /\ wsStop \in {"running", "stopping"}
  /\ todo' = pending \o queue /\ held' = Len(pending) + Len(queue)
  /\ pending' = <<>> /\ queue' = <<>> /\ inPass' = TRUE
  /\ peer' = [peer EXCEPT !.blocked = FALSE]
  /\ UNCHANGED <<wsPlan, claims, prod, pressure, wsStop, tickets, lastAccepted, settled>>

\* ... then each command in order; one that cannot go blocks those behind it
HasPeer(p, cmd) == p.active /\ p.gen = cmd.gen /\ p.phase # "NONE"
CommandStatus(p, cmd) ==
  IF ~HasPeer(p, cmd) THEN "ENOENT"
  ELSE IF p.blocked THEN "EBUSY" ELSE ApplyStatus(p)

Accepted(cmd) ==
  /\ CommandStatus(peer, cmd) = "OK"
  /\ peer' = Apply(peer, WsFrame(cmd.t, cmd.kind))
  /\ lastAccepted' = [lastAccepted EXCEPT ![cmd.gen] = cmd.t] /\ settled' = settled + 1
  /\ UNCHANGED pending
Kept(cmd) ==
  /\ CommandStatus(peer, cmd) = "EBUSY"
  /\ peer' = [peer EXCEPT !.blocked = TRUE] /\ pending' = Append(pending, cmd)
  /\ UNCHANGED <<lastAccepted, settled>>
GivenUp(cmd) ==
  /\ CommandStatus(peer, cmd) \in {"ENOENT", "ESHUTDOWN"}
  /\ settled' = settled + 1
  /\ UNCHANGED <<peer, pending, lastAccepted>>
RunCommand ==
  /\ inPass /\ todo # <<>>
  /\ Accepted(Head(todo)) \/ Kept(Head(todo)) \/ GivenUp(Head(todo))
  /\ todo' = Tail(todo)
  /\ UNCHANGED <<wsPlan, queue, held, claims, prod, inPass, pressure, wsStop, tickets>>

FinishPass ==
  /\ inPass /\ todo = <<>>
  /\ held' = Len(pending) /\ inPass' = FALSE
  /\ UNCHANGED <<wsPlan, peer, queue, pending, todo, claims, prod, pressure, wsStop, tickets, lastAccepted, settled>>

\* chttp_server_stop closes the door for producers; the lane leaves its loop and
\* closes its connection; it is freed once no producer holds a claim
RequestStop ==
  /\ wsStop = "running"
  /\ wsStop' = "stopping"
  /\ UNCHANGED <<wsPlan, peer, queue, pending, todo, held, claims, prod, inPass, pressure, tickets, lastAccepted, settled>>
BeginShutdown ==
  /\ wsStop = "stopping" /\ ~inPass
  /\ wsStop' = "closing" /\ peer' = IF peer.active THEN CloseConn(peer) ELSE peer
  /\ UNCHANGED <<wsPlan, queue, pending, todo, held, claims, prod, inPass, pressure, tickets, lastAccepted, settled>>
DestroyServer ==
  /\ wsStop = "closing" /\ ~peer.active /\ ~peer.bridge /\ claims = 0
  /\ wsStop' = "destroyed" /\ queue' = <<>> /\ pending' = <<>> /\ held' = 0
  /\ UNCHANGED <<wsPlan, peer, todo, claims, prod, inPass, pressure, tickets, lastAccepted, settled>>

WsNext ==
  \/ Upgrade \/ OnSend \/ NativeWrite \/ RetryPending \/ TransportClosed \/ Accept \/ Pressure
  \/ \E m \in wsPlan.messages : OnReceive(m)
  \/ \E q \in wsPlan.producers : PublishCommand(q) \/ \E kind \in wsPlan.kinds : Claim(q, kind)
  \/ Snapshot \/ RunCommand \/ FinishPass \/ RequestStop \/ BeginShutdown \/ DestroyServer

WsSpec == WsInit /\ [][WsNext]_wsVars

-----------------------------------------------------------------------------
(* Properties *)

\* The lane's arrays never overflow: claims, published and retried commands share
\* command_capacity, also while a pass has moved them, and the lane is never
\* destroyed under a producer that copies outside the lock.  No published command
\* is lost, and a session's peer accepts its commands in the order they were
\* published: one that is retried stays before every newer one
\* (command_submit, commands_progress).
CommandsOrdered ==
  LET waiting == pending \o todo \o queue
  IN  /\ claims + Len(queue) + held <= CommandCap /\ Len(pending) + Len(todo) <= held
      /\ claims = Cardinality({q \in Producers : prod[q] # <<>>})
      /\ IF wsStop = "destroyed" THEN claims = 0 ELSE Len(waiting) + settled = tickets
      /\ \A i \in 1..Len(waiting) : waiting[i].t > lastAccepted[waiting[i].gen]
      /\ \A i, j \in 1..Len(waiting) : i < j => waiting[i].t < waiting[j].t

\* An open connection is never left deaf or mute: when nothing is being sent and
\* nothing is deferred, a receive is armed, or output or stored input will resume
\* it, or the connection is being closed; and what the engine retained or the
\* upgrade stored waits for a send completion, for the bridge, or for the end of
\* the connection (receive_paused, retry, send_complete).
NeverDeaf ==
  /\ peer.active /\ peer.phase # "HANDSHAKE" /\ ~peer.writing /\ peer.pend = "NONE" =>
       \/ peer.credit > 0 \/ peer.shut
       \/ peer.bridge /\ peer.paused
       \/ peer.bridge /\ Terminal(peer)
  /\ peer.active /\ ~peer.shut /\ (peer.out # <<>> \/ peer.input # <<>>) =>
       peer.writing \/ peer.pend = "SEND" \/ peer.bridge \/ peer.closing
=============================================================================
