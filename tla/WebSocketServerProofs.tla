------------------------ MODULE WebSocketServerProofs ------------------------
(***************************************************************************)
(* Proofs about WebSocketServer, for any number of producers, commands,    *)
(* connections and any command_capacity.                                   *)
(***************************************************************************)
EXTENDS WebSocketServer, FiniteSetTheorems, TLAPS

\* At most one element of S: what a peer retains of each kind.
AtMostOne(S) == {<<>>} \cup {<<x>> : x \in S}

Frames == [t : Nat, kind : {"text", "pong", "close", "101", "reply"} \cup wsPlan.kinds]

\* The connection slot with its peer.
Peers ==
  [active : BOOLEAN, gen : Nat, dedicated : BOOLEAN,
   phase : {"NONE", "HANDSHAKE", "OPEN"}, bridge : BOOLEAN,
   state : {"OPEN", "CLOSING", "CLOSED"}, out : AtMostOne(Frames), tag : BOOLEAN,
   opening : AtMostOne(Frames), input : AtMostOne(wsPlan.messages),
   outbound : AtMostOne(Frames), writing : BOOLEAN,
   pend : {"NONE", "RECEIVE", "SEND", "CLOSE"}, closing : BOOLEAN, shut : BOOLEAN,
   credit : Nat, paused : BOOLEAN, blocked : BOOLEAN]

-----------------------------------------------------------------------------
(* What holds of a peer *)

\* What is being written or waits to be written is in outbound.
HalfWired(p) ==
  /\ p.writing \/ p.pend = "SEND" => p.outbound # <<>>
  /\ p.writing => p.pend \in {"NONE", "CLOSE"}
Wired(p) == HalfWired(p) /\ (p.outbound # <<>> => p.writing \/ p.pend = "SEND")

\* Which peers are on the bridge, and what only they, or only the others, have.
Bridged(p) ==
  /\ p.active /\ (p.bridge <=> p.dedicated /\ p.phase = "OPEN")
  /\ p.bridge => ~p.writing /\ p.outbound = <<>>
  /\ ~p.bridge => ~p.tag /\ ~p.paused
  /\ ~(p.dedicated /\ p.phase = "HANDSHAKE") => p.opening = <<>>

\* A connection that is to be closed has its close, or a send before it, under way.
Closes(p) == p.closing => p.shut \/ p.writing \/ p.pend \in {"SEND", "CLOSE"}

\* The two halves of NeverDeaf, of any peer.
Hears(p) ==
  p.phase # "HANDSHAKE" /\ ~p.writing /\ p.pend = "NONE" =>
    p.credit > 0 \/ p.shut \/ (p.bridge /\ (p.paused \/ Terminal(p)))
Keeps(p) ==
  ~p.shut /\ (p.out # <<>> \/ p.input # <<>>) =>
    p.writing \/ p.pend = "SEND" \/ p.bridge \/ p.closing

\* What the transport's operations leave of a peer.
Transported(p, q) ==
  /\ q \in Peers
  /\ q.active = p.active /\ q.gen = p.gen /\ q.dedicated = p.dedicated /\ q.phase = p.phase
  /\ q.bridge = p.bridge /\ q.state = p.state /\ q.out = p.out /\ q.tag = p.tag
  /\ q.opening = p.opening /\ q.input = p.input /\ q.outbound = p.outbound

-----------------------------------------------------------------------------
(* The transport's operations *)

\* What a retry does: it drops no action that is still to be done.
Retried(p, q) ==
  /\ Transported(p, q) /\ q.closing = p.closing
  /\ HalfWired(p) => HalfWired(q)
  /\ Wired(p) => Wired(q)
  /\ Bridged(p) /\ HalfWired(p) => Bridged(q)
  /\ Closes(p) => Closes(q)
  /\ Hears(p) \/ p.pend # "NONE" => Hears(q)
  /\ Keeps(p) => Keeps(q)
  /\ p.pend \in {"SEND", "CLOSE"} => q.shut \/ q.writing \/ q.pend = p.pend
  /\ p.pend # "CLOSE" => q.shut = p.shut

\* A retry drops no action that is still to be done (connection_retry).
LEMMA RetryRetries == ASSUME NEW p \in Peers, p.active PROVE Retried(p, Retry(p))
<1> DEFINE more == IF p.credit < CreditCap THEN p.credit + 1 ELSE p.credit
           q1 == [p EXCEPT !.pend = "NONE"]
           q2 == [p EXCEPT !.paused = TRUE]
           q3 == [p EXCEPT !.credit = more, !.paused = FALSE, !.pend = "NONE"]
           q4 == [p EXCEPT !.writing = TRUE, !.pend = "NONE"]
           q5 == [p EXCEPT !.shut = TRUE, !.pend = "NONE"]
<1> USE DEF Retried, Transported, HalfWired, Wired, Bridged, Closes, Hears, Keeps, Terminal, Peers
<1>1. more \in Nat /\ more > 0
  BY WsConstants
<1>2. Retried(p, p)
  OBVIOUS
<1>3. ~p.writing /\ p.pend = "RECEIVE" /\ p.bridge /\ p.credit > 0 => Retried(p, q1)
  BY ZenonT(60)
<1>4. ~p.writing /\ p.pend = "RECEIVE" /\ p.bridge => Retried(p, q2)
  BY ZenonT(60)
<1>5. ~p.writing /\ p.pend = "RECEIVE" => Retried(p, q3)
  BY <1>1, ZenonT(60)
<1>6. ~p.writing /\ p.pend = "SEND" => Retried(p, q4)
  BY ZenonT(60)
<1>7. ~p.writing /\ p.pend = "CLOSE" => Retried(p, q5)
  BY ZenonT(60)
<1>8. p.pend \in {"NONE", "RECEIVE", "SEND", "CLOSE"}
  OBVIOUS
<1> HIDE DEF Retried, Transported, HalfWired, Wired, Bridged, Closes, Hears, Keeps, Terminal, Peers
<1> QED
  BY <1>2, <1>3, <1>4, <1>5, <1>6, <1>7, <1>8 DEF Retry, RetryReceive

\* A peer the transport may be asked to serve: its output may still have to be
\* handed over.  Everything that must hold of a peer, but for its input.
Half(p) == p \in Peers /\ HalfWired(p) /\ Bridged(p)
Shaped(p) == p \in Peers /\ Wired(p) /\ Bridged(p)
Good(p) == Shaped(p) /\ Closes(p) /\ Hears(p) /\ Keeps(p)

\* A connection that is closed keeps its output and waits for its close.
LEMMA CloseConnCloses ==
  ASSUME NEW p, Shaped(p)
  PROVE  LET q == CloseConn(p) IN Good(q) /\ Transported(p, q)
<1> DEFINE r == [p EXCEPT !.closing = TRUE, !.pend = IF @ = "SEND" THEN @ ELSE "CLOSE"]
<1>1. p \in Peers
  BY DEF Shaped
<1>2. r \in Peers /\ r.active /\ r.pend \in {"SEND", "CLOSE"} /\ Transported(p, r)
  BY <1>1, ZenonT(60) DEF Peers, Transported, Shaped, Bridged
<1>3. Wired(r) /\ Bridged(r) /\ Closes(r) /\ Keeps(r) /\ HalfWired(r)
  BY <1>1 DEF Peers, Shaped, Wired, HalfWired, Bridged, Closes, Keeps
<1>4. Retried(r, Retry(r))
  BY <1>2, RetryRetries, ZenonT(60)
<1>5. Transported(p, Retry(r))
  BY <1>2, <1>4 DEF Retried, Transported
<1> HIDE DEF r
<1>6. Good(Retry(r))
  BY <1>2, <1>3, <1>4 DEF Retried, Transported, Good, Shaped
<1> QED
  BY <1>5, <1>6 DEF CloseConn, r

\* A connection with nothing to send is read, unless something holds it back.
LEMMA ReceiveMoreHears ==
  ASSUME NEW p, Shaped(p), Closes(p), Keeps(p), ~p.writing, p.outbound = <<>>
  PROVE  LET q == ReceiveMore(p) IN Good(q) /\ Transported(p, q)
<1> DEFINE r == [p EXCEPT !.pend = "RECEIVE"]
           s == [p EXCEPT !.paused = TRUE]
<1>1. p \in Peers /\ p.active
  BY DEF Shaped, Bridged
<1>2. Transported(p, p) /\ (p.closing \/ (p.bridge /\ p.credit > 0) => Good(p))
  BY <1>1 DEF Peers, Transported, Good, Shaped, Wired, HalfWired, Closes, Hears
<1>3. p.bridge => Good(s) /\ Transported(p, s)
  BY <1>1, ZenonT(60) DEF Peers, Transported, Good, Shaped, Wired, HalfWired, Bridged, Closes, Hears, Keeps, Terminal
<1>4. ~p.closing => Good(Retry(r)) /\ Transported(p, Retry(r))
  <2> SUFFICES ASSUME ~p.closing PROVE Good(Retry(r)) /\ Transported(p, Retry(r))
    OBVIOUS
  <2>1. r \in Peers /\ r.active /\ r.pend = "RECEIVE" /\ Transported(p, r)
    BY <1>1, ZenonT(60) DEF Peers, Transported
  <2>2. Wired(r) /\ HalfWired(r) /\ Bridged(r) /\ Closes(r) /\ Keeps(r)
    BY <1>1 DEF Peers, Shaped, Wired, HalfWired, Bridged, Closes, Keeps
  <2>3. Retried(r, Retry(r))
    BY <2>1, RetryRetries, ZenonT(60)
  <2> HIDE DEF r
  <2>4. Good(Retry(r))
    BY <2>1, <2>2, <2>3 DEF Retried, Transported, Good, Shaped
  <2> QED
    BY <2>1, <2>3, <2>4 DEF Retried, Transported
<1> QED
  BY <1>2, <1>3, <1>4 DEF ReceiveMore

\* Output is handed over, or a connection without output is read.
LEMMA SendPendingServes ==
  ASSUME NEW p, Half(p), ~p.writing /\ p.outbound = <<>> => Closes(p) /\ Keeps(p)
  PROVE  LET q == SendPending(p) IN Good(q) /\ Transported(p, q)
<1> DEFINE r == [p EXCEPT !.pend = "SEND"]
<1>1. p \in Peers /\ p.active
  BY DEF Half, Bridged
<1>2. CASE p.writing
  <2>1. Good(p) /\ Transported(p, p)
    BY <1>1, <1>2 DEF Peers, Half, Transported, Good, Shaped, Wired, HalfWired, Closes, Hears, Keeps
  <2> QED
    BY <1>2, <2>1 DEF SendPending
<1>3. CASE ~p.writing /\ p.outbound = <<>>
  <2>1. Shaped(p)
    BY <1>3 DEF Half, Shaped, Wired
  <2> QED
    BY <1>3, <2>1, ReceiveMoreHears DEF SendPending
<1>4. CASE ~p.writing /\ p.outbound # <<>>
  <2>1. r \in Peers /\ r.active /\ r.pend = "SEND" /\ Transported(p, r) /\ r.outbound # <<>>
    BY <1>1, <1>4, ZenonT(60) DEF Peers, Transported
  <2>2. Wired(r) /\ HalfWired(r) /\ Bridged(r) /\ Closes(r) /\ Keeps(r)
    BY <1>1, <1>4 DEF Peers, Half, Wired, HalfWired, Bridged, Closes, Keeps
  <2>3. Retried(r, Retry(r))
    BY <2>1, RetryRetries, ZenonT(60)
  <2> HIDE DEF r
  <2>4. Good(Retry(r)) /\ Transported(p, Retry(r))
    BY <2>1, <2>2, <2>3 DEF Retried, Transported, Good, Shaped
  <2> QED
    BY <1>4, <2>4 DEF SendPending, r
<1> QED
  BY <1>2, <1>3, <1>4

-----------------------------------------------------------------------------
(* The engine's operations *)

\* What the engine's operations keep of a peer.
Served(p, q) ==
  /\ Shaped(q)
  /\ q.active = p.active /\ q.gen = p.gen /\ q.dedicated = p.dedicated
  /\ q.phase = p.phase /\ q.bridge = p.bridge
  /\ p.outbound # <<>> => q.outbound # <<>>
  /\ Closes(p) => Closes(q)
  /\ Hears(p) => Hears(q)
  /\ Keeps(p) => Keeps(q)

\* An upgrade whose answer is on its way, or a peer that is open.
Started(p) == p.phase # "NONE" /\ (p.phase = "HANDSHAKE" => p.outbound # <<>>)

\* Being served composes, and is at least doing nothing.
LEMMA ServedTrans == ASSUME NEW p, NEW q, NEW r, Served(p, q), Served(q, r) PROVE Served(p, r)
  BY DEF Served
\* A peer that is left alone is served.
LEMMA ServedSelf == ASSUME NEW p, Shaped(p) PROVE Served(p, p)
  BY DEF Served
\* A handshake under way stays under way, or is over.
LEMMA StartedKept == ASSUME NEW p, NEW q, Served(p, q), Started(p) PROVE Started(q)
  BY DEF Served, Started

\* A frame is written, or retained for whoever takes the output next.
LEMMA EngineWriteServes ==
  ASSUME NEW p, Shaped(p), Started(p), NEW f \in Frames
  PROVE  LET q == EngineWrite(p, f) IN Served(p, q) /\ Keeps(q)
<1> DEFINE r == [p EXCEPT !.outbound = <<f>>]
           s == [p EXCEPT !.out = <<f>>]
<1>1. p \in Peers /\ <<f>> \in AtMostOne(Frames) /\ <<f>> # <<>>
  BY DEF Shaped, AtMostOne
<1>2. CASE ~p.bridge /\ CanWrite(p)
  <2>1. Half(r) /\ r.outbound # <<>>
    BY <1>1, <1>2 DEF Half, Shaped, Wired, HalfWired, Bridged, Peers, CanWrite
  <2>2. Good(SendPending(r)) /\ Transported(r, SendPending(r))
    BY <2>1, SendPendingServes, ZenonT(60)
  <2>3. r.active = p.active /\ r.gen = p.gen /\ r.dedicated = p.dedicated
        /\ r.phase = p.phase /\ r.bridge = p.bridge
    BY <1>1 DEF Peers
  <2> HIDE DEF r
  <2>4. Served(p, SendPending(r)) /\ Keeps(SendPending(r))
    BY <2>1, <2>2, <2>3 DEF Served, Good, Transported
  <2> QED
    BY <1>2, <2>4 DEF EngineWrite, r
<1>3. CASE ~(~p.bridge /\ CanWrite(p))
  <2>1. Keeps(s)
    BY <1>1, <1>3 DEF Peers, Shaped, Wired, HalfWired, Bridged, Keeps, Started, CanWrite
  <2>2. Served(p, s)
    BY <1>1, <2>1, ZenonT(60) DEF Peers, Served, Shaped, Wired, HalfWired, Bridged, Closes, Hears, Terminal
  <2> QED
    BY <1>3, <2>1, <2>2 DEF EngineWrite
<1> QED
  BY <1>2, <1>3

\* A send that was accepted.
LEMMA ApplyServes ==
  ASSUME NEW p, Shaped(p), Started(p), ~Terminal(p), NEW f \in Frames
  PROVE  LET q == Apply(p, f) IN Served(p, q) /\ Keeps(q)
<1> DEFINE op == IF p.dedicated /\ p.phase = "HANDSHAKE" THEN <<f>> ELSE p.opening
           st == IF f.kind = "close" THEN "CLOSING" ELSE p.state
           r == [p EXCEPT !.state = st, !.opening = op, !.tag = p.bridge /\ f.kind # "close"]
<1>1. p \in Peers /\ <<f>> \in AtMostOne(Frames)
  BY DEF Shaped, AtMostOne
<1>2. op \in AtMostOne(Frames) /\ st \in {"OPEN", "CLOSING"}
  BY <1>1 DEF Peers, Terminal
<1>3. (p.bridge /\ f.kind # "close") \in BOOLEAN
  OBVIOUS
<1>4. r \in Peers
  <2> HIDE DEF op, st
  <2> QED BY <1>1, <1>2, <1>3, ZenonT(60) DEF Peers
<1>5. Shaped(r) /\ Started(r)
  BY <1>1, <1>4 DEF Peers, Shaped, Wired, HalfWired, Bridged, Started
<1>6. Served(p, r)
  BY <1>1, <1>5 DEF Peers, Served, Closes, Hears, Keeps, Terminal
<1>7. Apply(p, f) = EngineWrite(r, f)
  BY DEF Apply
<1> HIDE DEF r
<1>8. Served(r, EngineWrite(r, f)) /\ Keeps(EngineWrite(r, f))
  BY <1>5, EngineWriteServes
<1> QED
  BY <1>6, <1>7, <1>8, ServedTrans

\* One message of the client, answered by the engine or by the route.
LEMMA FeedServes ==
  ASSUME NEW p, Shaped(p), Started(p), NEW m \in {"message", "echo", "ping", "close"}
  PROVE  Served(p, Feed(p, m))
<1> DEFINE r == [p EXCEPT !.state = "CLOSED"]
<1>1. p \in Peers /\ Served(p, p)
  BY ServedSelf DEF Shaped
<1>2. WsFrame(0, "pong") \in Frames /\ WsFrame(0, "close") \in Frames /\ WsFrame(0, "text") \in Frames
  BY DEF WsFrame, Frames
<1>3. Shaped(r) /\ Started(r) /\ Served(p, r)
  <2>1. Shaped(r) /\ Started(r)
    BY <1>1 DEF Peers, Shaped, Wired, HalfWired, Bridged, Started
  <2>2. Served(p, r)
    BY <1>1, <2>1 DEF Peers, Served, Closes, Hears, Keeps, Terminal
  <2> QED BY <2>1, <2>2
<1>4. CASE m = "ping"
  <2>1. Served(p, EngineWrite(p, WsFrame(0, "pong")))
    BY <1>2, EngineWriteServes
  <2> QED
    BY <1>1, <1>4, <2>1 DEF Feed
<1>5. CASE m = "close"
  <2> HIDE DEF r
  <2>1. Served(r, EngineWrite(r, WsFrame(0, "close")))
    BY <1>2, <1>3, EngineWriteServes
  <2>2. Served(p, EngineWrite(r, WsFrame(0, "close")))
    BY <1>3, <2>1, ServedTrans
  <2> QED
    BY <1>3, <1>5, <2>2 DEF Feed, r
<1>6. CASE m = "echo"
  <2>1. ApplyStatus(p) = "OK" => ~Terminal(p)
    BY DEF ApplyStatus, Terminal
  <2>2. ApplyStatus(p) = "OK" => Served(p, Apply(p, WsFrame(0, "text")))
    BY <1>2, <2>1, ApplyServes
  <2> QED
    BY <1>1, <1>6, <2>2 DEF Feed
<1>7. CASE m = "message"
  BY <1>1, <1>7 DEF Feed
<1> QED
  BY <1>4, <1>5, <1>6, <1>7

\* Retained output goes to the transport when it is free.
LEMMA FlushOutServes ==
  ASSUME NEW p, Shaped(p), p.phase = "OPEN", ~p.bridge
  PROVE  LET q == FlushOut(p) IN Served(p, q) /\ (CanWrite(p) => q.out = <<>>)
<1> DEFINE r == [p EXCEPT !.outbound = p.out, !.out = <<>>]
<1>1. p \in Peers /\ Served(p, p)
  BY ServedSelf DEF Shaped
<1>2. CASE p.out # <<>> /\ CanWrite(p)
  <2>1. r \in Peers
    BY <1>1, ZenonT(60) DEF Peers, AtMostOne
  <2>2. Half(r) /\ r.outbound # <<>> /\ r.out = <<>>
    BY <1>1, <1>2, <2>1 DEF Half, Shaped, Wired, HalfWired, Bridged, Peers, CanWrite
  <2>3. Good(SendPending(r)) /\ Transported(r, SendPending(r))
    BY <2>2, SendPendingServes, ZenonT(60)
  <2>4. r.active = p.active /\ r.gen = p.gen /\ r.dedicated = p.dedicated
        /\ r.phase = p.phase /\ r.bridge = p.bridge
    BY <1>1 DEF Peers
  <2> HIDE DEF r
  <2>5. Served(p, SendPending(r)) /\ SendPending(r).out = <<>>
    BY <2>2, <2>3, <2>4 DEF Served, Good, Transported
  <2> QED
    BY <1>2, <2>5 DEF FlushOut, r
<1>3. CASE ~(p.out # <<>> /\ CanWrite(p))
  BY <1>1, <1>3 DEF FlushOut
<1> QED
  BY <1>2, <1>3

\* Stored input is taken up.
LEMMA FeedStoredServes ==
  ASSUME NEW p, Shaped(p), Started(p), wsPlan \in WsPlans
  PROVE  LET q == FeedStored(p) IN Served(p, q) /\ (p.out = <<>> => Keeps(q))
<1> DEFINE r == [p EXCEPT !.input = <<>>]
<1>1. p \in Peers /\ Served(p, p)
  BY ServedSelf DEF Shaped
<1>2. CASE p.input = <<>>
  BY <1>1, <1>2 DEF FeedStored, Keeps
<1>3. CASE p.input # <<>>
  <2>1. p.input[1] \in {"message", "echo", "ping", "close"}
    <3>1. p.input \in AtMostOne(wsPlan.messages)
      BY <1>1 DEF Peers
    <3>2. PICK m \in wsPlan.messages : p.input = <<m>>
      BY <1>3, <3>1 DEF AtMostOne
    <3> QED
      BY <3>2, WsPlanTypes
  <2>2. r \in Peers
    BY <1>1, SMTT(60) DEF Peers, AtMostOne
  <2>3. Shaped(r) /\ Started(r)
    BY <1>1, <2>2 DEF Peers, Shaped, Wired, HalfWired, Bridged, Started
  <2>4. Served(p, r) /\ (p.out = <<>> => Keeps(r))
    BY <1>1, <2>3 DEF Peers, Served, Closes, Hears, Keeps, Terminal
  <2> HIDE DEF r
  <2>5. Served(r, Feed(r, p.input[1]))
    BY <2>1, <2>3, FeedServes, SMTT(60)
  <2>6. Served(p, Feed(r, p.input[1])) /\ (p.out = <<>> => Keeps(Feed(r, p.input[1])))
    BY <2>4, <2>5, ServedTrans, SMTT(60) DEF Served
  <2> QED
    BY <1>3, <2>6 DEF FeedStored, r
<1> QED
  BY <1>2, <1>3

\* The bridge takes over.
LEMMA BindPeerBinds ==
  ASSUME NEW p, Shaped(p), p.dedicated, p.phase = "HANDSHAKE", ~p.writing, p.outbound = <<>>
  PROVE  LET q == BindPeer(p)
         IN  Shaped(q) /\ q.active /\ q.bridge /\ q.phase = "OPEN" /\ q.gen = p.gen /\ q.dedicated
<1> DEFINE r == [p EXCEPT !.bridge = TRUE, !.phase = "OPEN", !.state = "OPEN", !.out = <<>>,
                          !.opening = <<>>]
<1>1. p \in Peers
  BY DEF Shaped
<1>2. r \in Peers
  BY <1>1, ZenonT(60) DEF Peers, AtMostOne
<1>3. Shaped(r) /\ Started(r) /\ ~Terminal(r)
  BY <1>1, <1>2 DEF Peers, Shaped, Wired, HalfWired, Bridged, Started, Terminal
<1>4. r.active /\ r.bridge /\ r.phase = "OPEN" /\ r.gen = p.gen /\ r.dedicated
  BY <1>1 DEF Peers, Shaped, Bridged
<1>5. p.opening # <<>> => p.opening[1] \in Frames
  BY <1>1 DEF Peers, AtMostOne
<1>6. BindPeer(p) = IF p.opening = <<>> THEN r ELSE Apply(r, p.opening[1])
  BY DEF BindPeer
<1> HIDE DEF r
<1>7. p.opening # <<>> => Served(r, Apply(r, p.opening[1]))
  BY <1>3, <1>5, ApplyServes, SMTT(60)
<1> QED
  BY <1>3, <1>4, <1>6, <1>7, ZenonT(60) DEF Served

\* A peer that is being closed is served.
LEMMA CloseConnServes == ASSUME NEW p, Shaped(p) PROVE Served(p, CloseConn(p))
  BY CloseConnCloses DEF Served, Transported, Good

\* A bridge that has nothing left to write ends its connection or reads on.
LEMMA ResumeTransportServes ==
  ASSUME NEW p, Shaped(p), p.bridge
  PROVE  Served(p, ResumeTransport(p))
<1> DEFINE r == [p EXCEPT !.paused = FALSE]
<1>1. p \in Peers /\ Served(p, p) /\ Served(p, CloseConn(p))
  BY ServedSelf, CloseConnServes, SMTT(60) DEF Shaped
<1>2. ~p.closing => Served(p, SendPending(r))
  <2> SUFFICES ASSUME ~p.closing PROVE Served(p, SendPending(r))
    OBVIOUS
  <2>1. r \in Peers
    BY <1>1, ZenonT(60) DEF Peers
  <2>2. Half(r) /\ Closes(r) /\ Keeps(r) /\ Served(r, r)
    BY <1>1, <2>1 DEF Half, Shaped, Wired, HalfWired, Bridged, Peers, Closes, Keeps, Served
  <2>3. Good(SendPending(r)) /\ Transported(r, SendPending(r))
    BY <2>2, SendPendingServes
  <2>4. r.active = p.active /\ r.gen = p.gen /\ r.dedicated = p.dedicated
        /\ r.phase = p.phase /\ r.bridge = p.bridge /\ r.outbound = p.outbound
    BY <1>1, ZenonT(60) DEF Peers
  <2> HIDE DEF r
  <2> QED
    BY <2>3, <2>4 DEF Served, Good, Transported
<1> HIDE DEF r
<1> QED
  BY <1>1, <1>2 DEF ResumeTransport, r

\* What the bridge's progress does to a peer.
LEMMA WsProgressServes ==
  ASSUME NEW p, Shaped(p), Started(p), wsPlan \in WsPlans
  PROVE  Served(p, WsProgress(p))
<1> DEFINE r == Advanced(p)
<1>1. p \in Peers /\ Served(p, p)
  BY ServedSelf DEF Shaped
<1>2. CASE ~p.bridge
  BY <1>1, <1>2 DEF WsProgress
<1>3. CASE p.bridge
  <2>1. r \in Peers
    BY <1>1, ZenonT(60) DEF Peers, Advanced
  <2>2. Shaped(r) /\ Started(r) /\ r.bridge
    BY <1>1, <1>3, <2>1 DEF Peers, Advanced, Shaped, Wired, HalfWired, Bridged, Started
  <2>3. Served(p, r)
    BY <1>1, <2>2 DEF Peers, Advanced, Served, Closes, Hears, Keeps, Terminal
  <2> HIDE DEF r
  <2>4. Served(r, FeedStored(r))
    BY <2>2, FeedStoredServes
  <2>5. Shaped(FeedStored(r)) /\ FeedStored(r).bridge
    BY <2>2, <2>4 DEF Served
  <2>6. Served(FeedStored(r), ResumeTransport(FeedStored(r)))
    BY <2>5, ResumeTransportServes
  <2>7. Served(p, ResumeTransport(FeedStored(r)))
    BY <2>3, <2>4, <2>6, ServedTrans
  <2> QED
    BY <1>3, <2>3, <2>7 DEF WsProgress, AfterAdvance, r
<1> QED
  BY <1>2, <1>3

\* When a send of an upgraded connection completes, nothing it held back is forgotten.
LEMMA SendCompleteKeeps ==
  ASSUME NEW p, Shaped(p), p.phase # "NONE", p.phase = "HANDSHAKE" \/ ~p.dedicated,
         ~p.writing, p.outbound = <<>>, wsPlan \in WsPlans
  PROVE  LET q == SendComplete(p)
         IN  Shaped(q) /\ Keeps(q) /\ q.phase = "OPEN" /\ q.active /\ q.gen = p.gen
<1> DEFINE r == [p EXCEPT !.phase = "OPEN"]
<1>1. p \in Peers
  BY DEF Shaped
<1>2. CASE p.dedicated
  <2> DEFINE b == BindPeer(p)
  <2>1. Shaped(b) /\ b.active /\ b.bridge /\ b.phase = "OPEN" /\ b.gen = p.gen
    BY <1>2, BindPeerBinds
  <2> HIDE DEF b
  <2>2. Served(b, WsProgress(b))
    BY <2>1, WsProgressServes DEF Started
  <2>3. Shaped(WsProgress(b)) /\ WsProgress(b).bridge /\ WsProgress(b).phase = "OPEN"
        /\ WsProgress(b).gen = p.gen /\ WsProgress(b).active
    BY <2>1, <2>2 DEF Served
  <2>4. Keeps(WsProgress(b))
    BY <2>3 DEF Keeps
  <2> QED
    BY <1>2, <2>3, <2>4 DEF SendComplete, b
<1>3. CASE ~p.dedicated
  <2>1. r \in Peers
    BY <1>1 DEF Peers
  <2>2. Shaped(r) /\ r.phase = "OPEN" /\ ~r.bridge /\ CanWrite(r) /\ r.gen = p.gen /\ r.active
    BY <1>1, <1>3, <2>1 DEF Peers, Shaped, Wired, HalfWired, Bridged, CanWrite
  <2> HIDE DEF r
  <2> DEFINE s == FlushOut(r)
             t == FeedStored(s)
             u == CloseIfTerminal(t)
  <2>3. Served(r, s) /\ s.out = <<>>
    BY <2>2, FlushOutServes
  <2>4. Shaped(s) /\ Started(s)
    BY <2>2, <2>3 DEF Served, Started
  <2> HIDE DEF s
  <2>5. Served(s, t) /\ Keeps(t)
    BY <2>3, <2>4, FeedStoredServes, SMTT(60)
  <2> HIDE DEF t
  <2>6. Served(t, CloseConn(t)) /\ Served(t, t)
    BY <2>5, CloseConnServes, ServedSelf DEF Served
  <2>7. Served(t, u)
    BY <2>6, SMTT(60) DEF CloseIfTerminal
  <2>8. Served(r, u) /\ Keeps(u)
    BY <2>3, <2>5, <2>7, ServedTrans DEF Served
  <2> HIDE DEF u
  <2>9. Shaped(u) /\ Keeps(u) /\ u.phase = "OPEN" /\ u.active /\ u.gen = p.gen
    BY <2>2, <2>8 DEF Served
  <2> QED
    BY <1>3, <2>9 DEF SendComplete, r, s, t, u
<1> QED
  BY <1>2, <1>3

\* The completion of a send ends in the next send, in a receive or in the close.
LEMMA AfterSendServes ==
  ASSUME NEW p, Shaped(p), Keeps(p)
  PROVE  LET q == AfterSend(p) IN Good(q) /\ Transported(p, q)
<1>1. Half(p)
  BY DEF Half, Shaped, Wired
<1>2. p.closing => Good(CloseConn(p)) /\ Transported(p, CloseConn(p))
  BY CloseConnCloses
<1>3. p.outbound # <<>> \/ ~p.closing => Good(SendPending(p)) /\ Transported(p, SendPending(p))
  BY <1>1, SendPendingServes DEF Closes
<1> QED
  BY <1>2, <1>3 DEF AfterSend
-----------------------------------------------------------------------------
(* The peer's invariant, event by event *)

\* A handshake has its answer to send; before it there is nothing to keep.
Begun(p) ==
  /\ p.phase = "HANDSHAKE" => p.outbound # <<>>
  /\ p.phase = "NONE" => p.out = <<>> /\ p.input = <<>>
PeerInv(p) == p \in Peers /\ p.gen \in 1..wsPlan.gens /\ (p.active => Good(p) /\ Begun(p))

\* A peer the transport served, of a connection that has begun.
LEMMA TransportedInv ==
  ASSUME NEW p, NEW q, Good(q), Transported(p, q), Begun(p), p.gen \in 1..wsPlan.gens
  PROVE  PeerInv(q)
  BY DEF PeerInv, Good, Shaped, Transported, Begun

\* The upgrade: its 101, or its refusal, is on the way, with what was sent or stored.
LEMMA UpgradeInv == PeerInv(peer) /\ Upgrade => PeerInv(peer')
<1> SUFFICES ASSUME PeerInv(peer), Upgrade PROVE PeerInv(peer')
  BY SMTT(60)
<1>1. PICK accept, sends \in BOOLEAN, more \in {<<>>} \cup {<<m>> : m \in wsPlan.messages} :
        LET q == [peer EXCEPT !.credit = 0, !.phase = "HANDSHAKE", !.input = more]
            r == IF sends THEN Apply(q, WsFrame(0, "text")) ELSE q
        IN  peer' = SendPending(IF accept THEN [r EXCEPT !.outbound = <<WsFrame(0, "101")>>]
                                ELSE [peer EXCEPT !.credit = 0, !.closing = TRUE,
                                                  !.outbound = <<WsFrame(0, "reply")>>])
  BY ZenonT(60) DEF Upgrade
<1> DEFINE f == WsFrame(0, "text")
           q == [peer EXCEPT !.credit = 0, !.phase = "HANDSHAKE", !.input = more]
           op == IF q.dedicated THEN <<f>> ELSE q.opening
           a == [q EXCEPT !.opening = op, !.tag = FALSE, !.out = <<f>>]
           x == [q EXCEPT !.outbound = <<WsFrame(0, "101")>>]
           y == [a EXCEPT !.outbound = <<WsFrame(0, "101")>>]
           z == [peer EXCEPT !.credit = 0, !.closing = TRUE, !.outbound = <<WsFrame(0, "reply")>>]
<1>2. peer \in Peers /\ peer.active /\ Good(peer) /\ Begun(peer) /\ peer.phase = "NONE"
      /\ peer.gen \in 1..wsPlan.gens
  BY DEF PeerInv, Upgrade
<1>3. /\ f \in Frames /\ f.kind = "text"
      /\ <<f>> \in AtMostOne(Frames) /\ <<WsFrame(0, "101")>> \in AtMostOne(Frames)
      /\ <<WsFrame(0, "reply")>> \in AtMostOne(Frames)
  BY ZenonT(60) DEF Frames, WsFrame, AtMostOne
<1>4. more \in AtMostOne(wsPlan.messages)
  BY DEF AtMostOne
<1>5. q \in Peers /\ q.phase = "HANDSHAKE" /\ q.gen = peer.gen /\ q.bridge = FALSE
  BY <1>2, <1>4, ZenonT(60) DEF Peers, Good, Shaped, Bridged
<1> HIDE DEF f
<1>6. Apply(q, f) = a
  <2>1. [q EXCEPT !.state = IF f.kind = "close" THEN "CLOSING" ELSE @,
                  !.opening = IF q.dedicated /\ q.phase = "HANDSHAKE" THEN <<f>> ELSE @,
                  !.tag = q.bridge /\ f.kind # "close"]
        = [q EXCEPT !.opening = op, !.tag = FALSE]
    BY <1>3, <1>5, ZenonT(60) DEF Peers
  <2> QED
    BY <1>3, <1>5, <2>1, ZenonT(60) DEF Apply, EngineWrite, CanWrite, Peers
<1>7. Half(x) /\ x.outbound # <<>> /\ Begun(x) /\ x.gen = peer.gen
  <2>1. x \in Peers
    BY <1>3, <1>5, ZenonT(60) DEF Peers
  <2> QED
    BY <1>2, <1>3, <2>1 DEF Peers, Half, Good, Shaped, Wired, HalfWired, Bridged, Begun
<1>8. Half(y) /\ y.outbound # <<>> /\ Begun(y) /\ y.gen = peer.gen
  <2>1. op \in AtMostOne(Frames)
    BY <1>3, <1>5, ZenonT(60) DEF Peers
  <2>2. y \in Peers
    BY <1>3, <1>5, <2>1, ZenonT(60) DEF Peers
  <2> QED
    BY <1>2, <1>3, <2>2 DEF Peers, Half, Good, Shaped, Wired, HalfWired, Bridged, Begun
<1>9. Half(z) /\ z.outbound # <<>> /\ Begun(z) /\ z.gen = peer.gen
  <2>1. z \in Peers
    BY <1>2, <1>3, ZenonT(60) DEF Peers
  <2> QED
    BY <1>2, <1>3, <2>1 DEF Peers, Half, Good, Shaped, Wired, HalfWired, Bridged, Begun
<1>10. peer' \in {SendPending(x), SendPending(y), SendPending(z)}
  BY <1>1, <1>6, ZenonT(60) DEF f
<1> HIDE DEF x, y, z
<1>11. PeerInv(SendPending(x)) /\ PeerInv(SendPending(y)) /\ PeerInv(SendPending(z))
  BY <1>2, <1>7, <1>8, <1>9, SendPendingServes, TransportedInv
<1> QED
  BY <1>10, <1>11

\* A send completion goes on with what was held back (on_send).
LEMMA OnSendInv == wsPlan \in WsPlans /\ PeerInv(peer) /\ OnSend => PeerInv(peer')
<1> SUFFICES ASSUME wsPlan \in WsPlans, PeerInv(peer), OnSend PROVE PeerInv(peer')
  OBVIOUS
<1> DEFINE q == [peer EXCEPT !.writing = FALSE, !.outbound = <<>>]
           r == SendComplete(q)
<1>1. peer \in Peers /\ peer.active /\ Good(peer) /\ Begun(peer) /\ peer.writing
      /\ peer.gen \in 1..wsPlan.gens
  BY DEF PeerInv, OnSend
<1>2. q \in Peers
  BY <1>1, ZenonT(60) DEF Peers, AtMostOne
<1>3. Shaped(q) /\ ~q.writing /\ q.outbound = <<>> /\ q.gen = peer.gen /\ q.phase = peer.phase
  BY <1>1, <1>2 DEF Peers, Good, Shaped, Wired, HalfWired, Bridged
<1>4. (q.phase = "NONE" => Keeps(q) /\ Begun(q)) /\ (q.phase = "HANDSHAKE" \/ q.phase = "NONE" \/ ~q.dedicated)
  BY <1>1 DEF Peers, Good, Shaped, Bridged, Begun, Keeps
<1>5. peer' = AfterSend(IF q.phase = "NONE" THEN q ELSE r)
  BY DEF OnSend
<1> HIDE DEF q
<1>6. q.phase # "NONE" => Shaped(r) /\ Keeps(r) /\ Begun(r) /\ r.gen = peer.gen
  BY <1>3, <1>4, SendCompleteKeeps DEF Begun
<1> HIDE DEF r
<1>7. q.phase = "NONE" => PeerInv(AfterSend(q))
  BY <1>1, <1>3, <1>4, AfterSendServes, TransportedInv
<1>8. q.phase # "NONE" => PeerInv(AfterSend(r))
  BY <1>1, <1>6, AfterSendServes, TransportedInv
<1> QED
  BY <1>5, <1>7, <1>8
\* A message is fed, stored behind unsent output, or ends the connection (on_receive).
LEMMA OnReceiveInv ==
  ASSUME wsPlan \in WsPlans, PeerInv(peer), NEW m \in wsPlan.messages, OnReceive(m)
  PROVE  PeerInv(peer')
<1> DEFINE q == [peer EXCEPT !.credit = @ - 1]
           c == [q EXCEPT !.closing = TRUE]
           k == [q EXCEPT !.input = <<m>>]
           r == IF q.out # <<>> THEN k ELSE Feed(q, m)
<1>1. peer \in Peers /\ peer.active /\ Good(peer) /\ peer.phase = "OPEN" /\ peer.credit > 0
      /\ ~peer.shut /\ peer.gen \in 1..wsPlan.gens
  BY DEF PeerInv, OnReceive
<1>2. m \in {"message", "echo", "ping", "close"} /\ <<m>> \in AtMostOne(wsPlan.messages)
  BY WsPlanTypes DEF AtMostOne
<1>3. q \in Peers /\ q.gen = peer.gen /\ q.phase = "OPEN"
  BY <1>1 DEF Peers
<1>4. Shaped(q) /\ Closes(q) /\ Keeps(q) /\ Started(q) /\ Begun(q) /\ (q.closing => Hears(q))
  BY <1>1, <1>3 DEF Peers, Good, Shaped, Wired, HalfWired, Bridged, Closes, Hears, Keeps, Started, Begun
<1>5. peer' = IF q.closing THEN q
              ELSE IF q.out # <<>> /\ q.input # <<>>
                   THEN IF q.writing \/ q.outbound # <<>> THEN c ELSE CloseConn(q)
              ELSE IF r.writing \/ r.outbound # <<>> THEN r ELSE SendPending(r)
  BY DEF OnReceive
<1>6. q.closing => PeerInv(q)
  BY <1>1, <1>3, <1>4 DEF PeerInv, Good
<1>7. q.writing \/ q.outbound # <<>> => PeerInv(c)
  <2>1. c \in Peers /\ c.gen = peer.gen /\ c.phase = "OPEN"
    BY <1>1, <1>3, ZenonT(60) DEF Peers
  <2>2. q.writing \/ q.outbound # <<>> => Shaped(c) /\ Closes(c) /\ Hears(c) /\ Keeps(c) /\ Begun(c)
    BY <1>1, <1>3, <1>4, <2>1 DEF Peers, Shaped, Wired, HalfWired, Bridged, Closes, Hears, Keeps, Begun
  <2> QED
    BY <1>1, <2>1, <2>2 DEF PeerInv, Good
<1>8. Shaped(k) /\ Closes(k) /\ k.gen = peer.gen /\ k.phase = "OPEN" /\ (q.out # <<>> => Keeps(k))
  <2>1. k \in Peers
    BY <1>2, <1>3, ZenonT(60) DEF Peers
  <2> QED
    BY <1>2, <1>3, <1>4, <2>1 DEF Peers, Shaped, Wired, HalfWired, Bridged, Closes, Keeps
<1> HIDE DEF q, k, c
<1>9. PeerInv(CloseConn(q))
  BY <1>1, <1>3, <1>4, CloseConnCloses, TransportedInv
<1>10. Served(q, Feed(q, m))
  BY <1>2, <1>4, FeedServes
<1>11. Shaped(r) /\ Closes(r) /\ Keeps(r) /\ r.gen = peer.gen /\ r.phase = "OPEN"
  <2>1. CASE q.out # <<>>
    BY <1>8, <2>1, SMTT(60)
  <2>2. CASE q.out = <<>>
    BY <1>3, <1>4, <1>10, <2>2, SMTT(60) DEF Served
  <2> QED
    BY <2>1, <2>2, SMTT(60)
<1> HIDE DEF r
<1>12. Half(r) /\ Begun(r)
  BY <1>11 DEF Half, Shaped, Wired, Begun
<1>13. PeerInv(SendPending(r))
  BY <1>1, <1>11, <1>12, SendPendingServes, TransportedInv, SMTT(60)
<1>14. r.writing \/ r.outbound # <<>> => PeerInv(r)
  <2>1. r \in Peers /\ (r.writing \/ r.outbound # <<>> => Hears(r))
    BY <1>11 DEF Shaped, Wired, HalfWired, Hears
  <2> QED
    BY <1>1, <1>11, <1>12, <2>1 DEF PeerInv, Good
<1> QED
  BY <1>5, <1>6, <1>7, <1>9, <1>13, <1>14

\* The bridge wrote its frame, or failed.
LEMMA NativeWriteInv == PeerInv(peer) /\ NativeWrite => PeerInv(peer')
<1> SUFFICES ASSUME PeerInv(peer), NativeWrite PROVE PeerInv(peer')
  OBVIOUS
<1> DEFINE q == [peer EXCEPT !.out = <<>>]
           r == [peer EXCEPT !.out = <<>>, !.tag = FALSE, !.state = "CLOSED"]
<1>1. peer \in Peers /\ peer.active /\ Good(peer) /\ peer.bridge /\ peer.gen \in 1..wsPlan.gens
  BY DEF PeerInv, NativeWrite
<1>2. q \in Peers /\ r \in Peers
  BY <1>1, ZenonT(60) DEF Peers, AtMostOne
<1>3. Shaped(q) /\ Closes(q) /\ Hears(q) /\ Keeps(q) /\ Begun(q) /\ q.gen = peer.gen
  BY <1>1, <1>2 DEF Peers, Good, Shaped, Wired, HalfWired, Bridged, Closes, Hears, Keeps, Terminal, Begun
<1>4. Shaped(r) /\ Begun(r) /\ r.gen = peer.gen
  BY <1>1, <1>2 DEF Peers, Good, Shaped, Wired, HalfWired, Bridged, Begun
<1>5. peer' \in {q, CloseConn(r)}
  BY DEF NativeWrite
<1> HIDE DEF q, r
<1>6. PeerInv(q)
  BY <1>1, <1>2, <1>3 DEF PeerInv, Good
<1>7. PeerInv(CloseConn(r))
  BY <1>1, <1>4, CloseConnCloses, TransportedInv
<1> QED
  BY <1>5, <1>6, <1>7

\* One slot of retry_pending: the bridge progresses and the deferred action is tried.
LEMMA RetryPendingInv == wsPlan \in WsPlans /\ PeerInv(peer) /\ RetryPending => PeerInv(peer')
<1> SUFFICES ASSUME wsPlan \in WsPlans, PeerInv(peer), RetryPending PROVE PeerInv(peer')
  OBVIOUS
<1>1. peer \in Peers /\ peer.gen \in 1..wsPlan.gens /\ (peer.active => Good(peer) /\ Begun(peer))
  BY DEF PeerInv
<1>2. CASE peer.active
  <2> DEFINE q == WsProgress(peer)
  <2>1. Shaped(peer) /\ Served(peer, peer)
    BY <1>1, <1>2, ServedSelf DEF Good
  <2>2. Served(peer, q) /\ Begun(q)
    <3>1. CASE peer.phase = "NONE"
      BY <1>1, <1>2, <2>1, <3>1 DEF WsProgress, Shaped, Bridged
    <3>2. CASE peer.phase # "NONE"
      <4>1. Started(peer)
        BY <1>1, <1>2, <3>2 DEF Started, Begun
      <4>2. Served(peer, q)
        BY <2>1, <4>1, WsProgressServes
      <4> QED
        BY <4>1, <4>2, <3>2 DEF Begun, Served, Started
    <3> QED
      BY <3>1, <3>2
  <2> HIDE DEF q
  <2>3. Good(q) /\ q.gen = peer.gen /\ q \in Peers /\ q.active /\ HalfWired(q)
    BY <1>1, <1>2, <2>2, SMTT(60) DEF Served, Good, Shaped, Wired
  <2>4. Retried(q, Retry(q))
    BY <2>3, RetryRetries, SMTT(60)
  <2>5. Good(Retry(q)) /\ Transported(q, Retry(q))
    BY <2>3, <2>4, SMTT(60) DEF Retried, Transported, Good, Shaped
  <2>6. PeerInv(Retry(q))
    BY <1>1, <2>2, <2>3, <2>5, TransportedInv, SMTT(60)
  <2> QED
    BY <1>2, <2>6 DEF RetryPending, q
<1>3. CASE ~peer.active
  <2> DEFINE r == [peer EXCEPT !.bridge = FALSE]
  <2>1. r \in Peers /\ r.gen = peer.gen /\ ~r.active
    BY <1>1, <1>3, ZenonT(60) DEF Peers
  <2>2. peer' = r
    BY <1>3 DEF RetryPending
  <2> QED
    BY <1>1, <2>1, <2>2, SMTT(60) DEF PeerInv
<1> QED
  BY <1>2, <1>3

\* The slot of a connection that was just accepted, or of none (generation 0).
LEMMA FreshPeerShape ==
  ASSUME NEW g \in Nat, NEW d \in BOOLEAN
  PROVE  LET q == FreshPeer(g, d)
         IN  /\ q \in Peers /\ q.gen = g /\ q.dedicated = d /\ (q.active <=> g > 0)
             /\ g > 0 => q.credit > 0
             /\ q.phase = "NONE" /\ ~q.bridge /\ ~q.tag /\ ~q.paused /\ ~q.writing /\ ~q.closing
             /\ q.pend = "NONE" /\ q.out = <<>> /\ q.input = <<>> /\ q.outbound = <<>> /\ q.opening = <<>>
<1> DEFINE a == g > 0
           c == IF g > 0 THEN 1 ELSE 0
<1>1. a \in BOOLEAN /\ c \in Nat /\ (g > 0 => c > 0)
  OBVIOUS
<1>2. FreshPeer(g, d) =
        [active |-> a, gen |-> g, dedicated |-> d, phase |-> "NONE", bridge |-> FALSE,
         state |-> "OPEN", out |-> <<>>, tag |-> FALSE, opening |-> <<>>, input |-> <<>>,
         outbound |-> <<>>, writing |-> FALSE, pend |-> "NONE", closing |-> FALSE, shut |-> FALSE,
         credit |-> c, paused |-> FALSE, blocked |-> FALSE]
  BY DEF FreshPeer
<1>3. a <=> g > 0
  OBVIOUS
<1> HIDE DEF a, c
<1>4. <<>> \in AtMostOne(Frames) /\ <<>> \in AtMostOne(wsPlan.messages)
  BY DEF AtMostOne
<1>5. FreshPeer(g, d) \in Peers
  BY <1>1, <1>2, <1>4 DEF Peers
<1> QED
  BY <1>1, <1>2, <1>3, <1>5

\* An accepted connection has its first receive armed.
LEMMA FreshPeerInv ==
  ASSUME NEW g \in Nat \ {0}, g \in 1..wsPlan.gens, NEW d \in BOOLEAN
  PROVE  PeerInv(FreshPeer(g, d))
<1> DEFINE q == FreshPeer(g, d)
<1>1. q \in Peers /\ q.gen = g /\ q.active /\ q.credit > 0
      /\ q.phase = "NONE" /\ ~q.bridge /\ ~q.tag /\ ~q.paused /\ ~q.writing /\ ~q.closing
      /\ q.pend = "NONE" /\ q.out = <<>> /\ q.input = <<>> /\ q.outbound = <<>> /\ q.opening = <<>>
  BY FreshPeerShape, SMTT(60)
<1> HIDE DEF q
<1>2. Good(q) /\ Begun(q)
  BY <1>1 DEF Good, Shaped, Wired, HalfWired, Bridged, Closes, Hears, Keeps, Begun
<1> QED
  BY <1>1, <1>2, SMTT(60) DEF PeerInv, q

\* The end of a connection, and the next one on its slot.
LEMMA ReconnectInv == wsPlan \in WsPlans /\ PeerInv(peer) /\ (TransportClosed \/ Accept) => PeerInv(peer')
<1> SUFFICES ASSUME wsPlan \in WsPlans, PeerInv(peer), TransportClosed \/ Accept PROVE PeerInv(peer')
  OBVIOUS
<1>1. peer \in Peers /\ peer.gen \in 1..wsPlan.gens /\ wsPlan.gens \in Nat /\ peer.dedicated \in BOOLEAN
      /\ peer.bridge \in BOOLEAN
  BY WsPlanTypes DEF PeerInv, Peers
<1>2. CASE TransportClosed
  <2>1. PICK lingers \in BOOLEAN :
          peer' = [FreshPeer(0, peer.dedicated) EXCEPT !.gen = peer.gen, !.bridge = lingers]
    BY <1>1, <1>2, ZenonT(60) DEF TransportClosed
  <2>2. FreshPeer(0, peer.dedicated) \in Peers /\ ~FreshPeer(0, peer.dedicated).active
    BY <1>1, FreshPeerShape
  <2>3. peer' \in Peers /\ ~peer'.active /\ peer'.gen = peer.gen
    BY <1>1, <2>1, <2>2, ZenonT(60) DEF Peers
  <2> QED
    BY <1>1, <2>3, SMTT(60) DEF PeerInv
<1>3. CASE Accept
  <2> DEFINE q == FreshPeer(peer.gen + 1, peer.dedicated)
  <2>1. peer' = q /\ peer.gen + 1 \in 1..wsPlan.gens
    BY <1>1, <1>3 DEF Accept
  <2>2. PeerInv(q)
    BY <1>1, <2>1, FreshPeerInv
  <2> QED
    BY <2>1, <2>2
<1> QED
  BY <1>2, <1>3

\* A command's frame is applied only to a peer that can take it.
LEMMA AcceptedInv ==
  ASSUME PeerInv(peer), NEW cmd, WsFrame(cmd.t, cmd.kind) \in Frames, Accepted(cmd)
  PROVE  PeerInv(peer')
<1> DEFINE f == WsFrame(cmd.t, cmd.kind)
<1>1. peer.active /\ peer.phase # "NONE" /\ ApplyStatus(peer) = "OK" /\ peer' = Apply(peer, f)
  BY SMTT(60) DEF Accepted, CommandStatus, HasPeer
<1>2. ~Terminal(peer)
  BY <1>1, SMTT(60) DEF ApplyStatus, Terminal
<1>3. Good(peer) /\ Begun(peer) /\ Shaped(peer) /\ Started(peer) /\ peer.gen \in 1..wsPlan.gens
  BY <1>1, SMTT(60) DEF PeerInv, Good, Begun, Started
<1> HIDE DEF f
<1>4. Served(peer, Apply(peer, f))
  BY <1>2, <1>3, ApplyServes, SMTT(60) DEF f
<1>5. Begun(Apply(peer, f)) /\ Good(Apply(peer, f)) /\ Apply(peer, f).gen = peer.gen
  BY <1>1, <1>3, <1>4 DEF Served, Begun, Good
<1> QED
  BY <1>1, <1>3, <1>5 DEF PeerInv, Good, Shaped

\* A pass marks a peer as blocked, or not, and touches nothing else of it.
LEMMA BlockedInv ==
  ASSUME PeerInv(peer), NEW b \in BOOLEAN
  PROVE  PeerInv([peer EXCEPT !.blocked = b])
<1> DEFINE q == [peer EXCEPT !.blocked = b]
<1>1. peer \in Peers /\ q \in Peers /\ q.gen = peer.gen /\ q.active = peer.active
  BY DEF PeerInv, Peers
<1>2. Good(peer) /\ Begun(peer) => Good(q) /\ Begun(q)
  BY <1>1 DEF Peers, Good, Shaped, Wired, HalfWired, Bridged, Closes, Hears, Keeps, Terminal, Begun
<1> HIDE DEF q
<1>3. PeerInv(q)
  BY <1>1, <1>2, SMTT(60) DEF PeerInv
<1> QED
  BY <1>3 DEF q

-----------------------------------------------------------------------------
(* NeverDeaf *)

Asks == [gen : 1..wsPlan.gens, kind : wsPlan.kinds]
Commands == [t : Nat, gen : 1..wsPlan.gens, kind : wsPlan.kinds]
Marks == [1..wsPlan.gens -> Nat]

WsTypes ==
  /\ wsPlan \in WsPlans /\ PeerInv(peer)
  /\ queue \in Seq(Commands) /\ pending \in Seq(Commands) /\ todo \in Seq(Commands)
  /\ prod \in [Producers -> AtMostOne(Asks)]
  /\ held \in Nat /\ claims \in Int /\ inPass \in BOOLEAN /\ tickets \in Nat /\ settled \in Nat
  /\ wsStop \in {"running", "stopping", "closing", "destroyed"}
  /\ lastAccepted \in Marks

\* The plan never changes, so what holds of the next peer holds next.
LEMMA PlanFixed == ASSUME wsPlan' = wsPlan, PeerInv(peer') PROVE PeerInv(peer)'
<1>1. Frames' = Frames
  BY DEF Frames
<1>2. Peers' = Peers
  BY <1>1, SMTT(60) DEF Peers
<1>3. Good(peer)' = Good(peer') /\ Begun(peer)' = Begun(peer')
  BY <1>2, SMTT(60) DEF Good, Shaped, Wired, HalfWired, Bridged, Closes, Hears, Keeps, Terminal, Begun
<1> QED
  BY <1>2, <1>3, SMTT(60) DEF PeerInv

\* The invariant holds of a started lane ...
LEMMA WsTypesInit == WsInit => WsTypes
<1> SUFFICES ASSUME WsInit PROVE WsTypes
  OBVIOUS
<1>1. PICK d \in BOOLEAN : peer = FreshPeer(1, d)
  BY DEF WsInit
<1>2. 1 \in 1..wsPlan.gens
  BY WsPlanTypes DEF WsInit
<1>3. PeerInv(peer)
  BY <1>1, <1>2, FreshPeerInv, SMTT(60)
<1>4. lastAccepted \in Marks
  BY DEF WsInit, Marks
<1>5. prod \in [Producers -> AtMostOne(Asks)]
  BY DEF WsInit, AtMostOne
<1>6. queue \in Seq(Commands) /\ pending \in Seq(Commands) /\ todo \in Seq(Commands)
  BY DEF WsInit
<1>7. wsPlan \in WsPlans /\ held \in Nat /\ claims \in Int /\ tickets \in Nat /\ settled \in Nat
  BY DEF WsInit
<1>8. inPass \in BOOLEAN
  BY ZenonT(60) DEF WsInit
<1>9. wsStop \in {"running", "stopping", "closing", "destroyed"}
  BY DEF WsInit
<1> QED
  BY <1>3, <1>4, <1>5, <1>6, <1>7, <1>8, <1>9, SMTT(60) DEF WsTypes

\* ... and every step keeps it.
LEMMA WsTypesNext == WsTypes /\ [WsNext]_wsVars => WsTypes'
<1> SUFFICES ASSUME WsTypes, [WsNext]_wsVars PROVE WsTypes'
  BY SMTT(60)
<1>1. wsPlan' = wsPlan /\ wsPlan \in WsPlans /\ PeerInv(peer)
  BY ZenonT(60) DEF WsTypes, WsNext, wsVars, Upgrade, OnSend, NativeWrite, RetryPending, TransportClosed, Accept,
     Pressure, OnReceive, PublishCommand, Claim, Snapshot, RunCommand, FinishPass, RequestStop,
     BeginShutdown, DestroyServer, Unchanged
<1>2. Commands' = Commands /\ Asks' = Asks /\ Marks' = Marks
  BY <1>1, SMTT(60) DEF Commands, Asks, Marks
<1> DEFINE Rest ==
      /\ queue' \in Seq(Commands) /\ pending' \in Seq(Commands) /\ todo' \in Seq(Commands)
      /\ prod' \in [Producers -> AtMostOne(Asks)]
      /\ held' \in Nat /\ claims' \in Int /\ inPass' \in BOOLEAN /\ tickets' \in Nat /\ settled' \in Nat
      /\ wsStop' \in {"running", "stopping", "closing", "destroyed"}
      /\ lastAccepted' \in Marks
<1>3. SUFFICES PeerInv(peer') /\ Rest
  <2>1. AtMostOne(Asks)' = AtMostOne(Asks)
    BY <1>2 DEF AtMostOne
  <2> QED
    BY <1>1, <1>2, <2>1, PlanFixed, SMTT(60) DEF WsTypes
<1>4. ASSUME Unchanged PROVE Rest
  BY <1>4, SMTT(60) DEF WsTypes, Unchanged
<1>5. CASE Upgrade
  BY <1>1, <1>4, <1>5, UpgradeInv, ZenonT(60) DEF Upgrade
<1>6. CASE OnSend
  BY <1>1, <1>4, <1>6, OnSendInv, SMTT(60) DEF OnSend
<1>7. CASE NativeWrite
  BY <1>1, <1>4, <1>7, NativeWriteInv, SMTT(60) DEF NativeWrite
<1>8. CASE RetryPending
  BY <1>1, <1>4, <1>8, RetryPendingInv, SMTT(60) DEF RetryPending
<1>9. CASE TransportClosed \/ Accept
  BY <1>1, <1>4, <1>9, ReconnectInv, SMTT(60) DEF TransportClosed, Accept
<1>10. ASSUME NEW m \in wsPlan.messages, OnReceive(m) PROVE PeerInv(peer') /\ Rest
  BY <1>1, <1>4, <1>10, OnReceiveInv, ZenonT(60) DEF OnReceive
<1>11. CASE Pressure \/ RequestStop \/ FinishPass \/ UNCHANGED wsVars
  <2>1. CASE Pressure
    BY <1>1, <2>1, SMTT(60) DEF WsTypes, Pressure
  <2>2. CASE RequestStop
    BY <1>1, <2>2, SMTT(60) DEF WsTypes, RequestStop
  <2>3. CASE FinishPass
    <3>1. Len(pending) \in Nat
      BY DEF WsTypes
    <3> QED
      BY <1>1, <2>3, <3>1, ZenonT(60) DEF WsTypes, FinishPass
  <2>4. CASE UNCHANGED wsVars
    BY <1>1, <2>4 DEF WsTypes, wsVars
  <2> QED
    BY <1>11, <2>1, <2>2, <2>3, <2>4, SMTT(60)
<1>12. ASSUME NEW q \in wsPlan.producers, PublishCommand(q) PROVE PeerInv(peer') /\ Rest
  <2>1. q \in Producers
    BY <1>1, <1>12, WsPlanTypes, SMTT(60)
  <2>2. prod[q] # <<>> /\ prod[q] \in AtMostOne(Asks)
    BY <1>12, <2>1, SMTT(60) DEF PublishCommand, WsTypes
  <2>3. prod[q][1] \in Asks
    BY <2>2, SMTT(60) DEF AtMostOne
  <2>4. [t |-> tickets + 1, gen |-> prod[q][1].gen, kind |-> prod[q][1].kind] \in Commands
    BY <2>3, SMTT(60) DEF Commands, Asks, WsTypes
  <2>5. queue' \in Seq(Commands) /\ tickets' \in Nat
    <3>1. Append(queue, [t |-> tickets + 1, gen |-> prod[q][1].gen, kind |-> prod[q][1].kind]) \in Seq(Commands)
      BY <2>4 DEF WsTypes
    <3>2. queue \in Seq(Commands) /\ tickets \in Nat /\ tickets + 1 \in Nat
      BY DEF WsTypes
    <3> QED
      BY <1>12, <3>1, <3>2, ZenonT(60) DEF PublishCommand
  <2>6. prod' \in [Producers -> AtMostOne(Asks)]
    BY <1>12, ZenonT(60) DEF PublishCommand, WsTypes, AtMostOne
  <2> QED
    BY <1>1, <1>12, <2>5, <2>6 DEF PublishCommand, WsTypes
<1>13. ASSUME NEW q \in wsPlan.producers, NEW kind \in wsPlan.kinds, Claim(q, kind) PROVE PeerInv(peer') /\ Rest
  <2>1. PICK gen \in 1..peer.gen : prod' = [prod EXCEPT ![q] = <<[gen |-> gen, kind |-> kind]>>]
    BY <1>13, ZenonT(60) DEF Claim
  <2>2. gen \in 1..wsPlan.gens
    BY <1>1, <2>1, WsPlanTypes DEF PeerInv
  <2>3. <<[gen |-> gen, kind |-> kind]>> \in AtMostOne(Asks)
    BY <2>2, ZenonT(60) DEF AtMostOne, Asks
  <2>4. prod' \in [Producers -> AtMostOne(Asks)]
    BY <2>1, <2>3, ZenonT(60) DEF WsTypes
  <2> QED
    BY <1>1, <1>13, <2>4 DEF Claim, WsTypes
<1>14. CASE Snapshot
  <2>1. PeerInv(peer')
    BY <1>1, <1>14, BlockedInv, ZenonT(60) DEF Snapshot
  <2>2. pending \o queue \in Seq(Commands) /\ Len(pending) + Len(queue) \in Nat
    BY DEF WsTypes
  <2> QED
    BY <1>14, <2>1, <2>2 DEF Snapshot, WsTypes
<1>15. CASE RunCommand
  <2> DEFINE cmd == Head(todo)
  <2>1. cmd \in Commands /\ Tail(todo) \in Seq(Commands)
    BY <1>15, SMTT(60) DEF RunCommand, WsTypes
  <2>2. cmd.t \in Nat /\ cmd.gen \in 1..wsPlan.gens /\ WsFrame(cmd.t, cmd.kind) \in Frames
    BY <2>1, SMTT(60) DEF Commands, Frames, WsFrame
  <2>3. /\ queue' = queue /\ todo' = Tail(todo) /\ UNCHANGED <<held, claims, prod, inPass, wsStop, tickets>>
        /\ Accepted(cmd) \/ Kept(cmd) \/ GivenUp(cmd)
    BY <1>15, SMTT(60) DEF RunCommand
  <2> HIDE DEF cmd
  <2>4. CASE Accepted(cmd)
    <3>1. PeerInv(peer')
      BY <1>1, <2>2, <2>4, AcceptedInv, SMTT(60)
    <3>2. lastAccepted' \in Marks /\ settled' \in Nat /\ pending' = pending
      BY <2>2, <2>4, SMTT(60) DEF Accepted, WsTypes, Marks
    <3> QED
      BY <2>1, <2>3, <3>1, <3>2, SMTT(60) DEF WsTypes
  <2>5. CASE Kept(cmd)
    <3>1. PeerInv(peer')
      BY <1>1, <2>5, BlockedInv, ZenonT(60) DEF Kept
    <3>2. pending' \in Seq(Commands) /\ UNCHANGED <<lastAccepted, settled>>
      BY <2>1, <2>5 DEF Kept, WsTypes
    <3> QED
      BY <2>1, <2>3, <3>1, <3>2, SMTT(60) DEF WsTypes
  <2>6. CASE GivenUp(cmd)
    BY <1>1, <2>1, <2>3, <2>6 DEF GivenUp, WsTypes
  <2> QED
    BY <2>3, <2>4, <2>5, <2>6
<1>16. CASE BeginShutdown
  <2>1. peer.active => PeerInv(CloseConn(peer))
    BY <1>1, CloseConnCloses, TransportedInv DEF PeerInv, Good
  <2>2. PeerInv(peer')
    BY <1>1, <1>16, <2>1, SMTT(60) DEF BeginShutdown
  <2> QED
    BY <1>16, <2>2 DEF BeginShutdown, WsTypes
<1>17. CASE DestroyServer
  BY <1>1, <1>17 DEF DestroyServer, WsTypes
<1> QED
  BY <1>5, <1>6, <1>7, <1>8, <1>9, <1>10, <1>11, <1>12, <1>13, <1>14, <1>15, <1>16, <1>17 DEF WsNext

\* An open WebSocket connection is never left deaf or mute, whatever is sent,
\* received, retried or commanded (connection_retry, receive, send_complete).
THEOREM NeverLeftDeaf == WsSpec => []NeverDeaf
<1>1. WsInit => WsTypes
  BY WsTypesInit
<1>2. WsTypes /\ [WsNext]_wsVars => WsTypes'
  BY WsTypesNext, SMTT(60)
<1>3. WsTypes => NeverDeaf
  BY DEF WsTypes, PeerInv, Good, Shaped, Bridged, Hears, Keeps, NeverDeaf
<1> QED
  BY <1>1, <1>2, <1>3, PTL DEF WsSpec
-----------------------------------------------------------------------------
(* CommandsOrdered *)

Waiting == pending \o todo \o queue
Ascending(w) == \A i, j \in 1..Len(w) : i < j => w[i].t < w[j].t
Above(w, last) == \A i \in 1..Len(w) : w[i].t > last[w[i].gen]
Upto(w, t) == \A i \in 1..Len(w) : w[i].t <= t

\* A pass moves commands from one array to the next without changing their order,
LEMMA SnapshotOrder ==
  ASSUME NEW S, NEW a \in Seq(S), NEW c \in Seq(S)
  PROVE  <<>> \o (a \o c) \o <<>> = a \o <<>> \o c
  OBVIOUS

\* also when one is kept for the next pass,
LEMMA KeptOrder ==
  ASSUME NEW S, NEW a \in Seq(S), NEW b \in Seq(S), b # <<>>, NEW c \in Seq(S)
  PROVE  Append(a, Head(b)) \o Tail(b) \o c = a \o b \o c
<1> DEFINE v == Append(a, Head(b)) \o Tail(b) \o c
           w == a \o b \o c
<1>1. v \in Seq(S) /\ w \in Seq(S) /\ Len(v) = Len(w)
  OBVIOUS
<1>2. ASSUME NEW i \in 1..Len(w) PROVE v[i] = w[i]
  BY SMTT(60)
<1> HIDE DEF v, w
<1>3. v = w
  BY <1>1, <1>2, SMTT(60)
<1> QED
  BY <1>3, SMTT(60) DEF v, w

\* a new command goes behind all,
LEMMA PublishOrder ==
  ASSUME NEW S, NEW a \in Seq(S), NEW b \in Seq(S), NEW c \in Seq(S), NEW x \in S
  PROVE  a \o b \o Append(c, x) = Append(a \o b \o c, x)
<1> DEFINE v == a \o b \o Append(c, x)
           w == Append(a \o b \o c, x)
<1>1. v \in Seq(S) /\ w \in Seq(S) /\ Len(v) = Len(w)
  OBVIOUS
<1>2. ASSUME NEW i \in 1..Len(w) PROVE v[i] = w[i]
  OBVIOUS
<1> HIDE DEF v, w
<1>3. v = w
  BY <1>1, <1>2, SMTT(60)
<1> QED
  BY <1>3 DEF v, w

\* and one that is settled leaves the others as they are.
LEMMA SettledOrder ==
  ASSUME NEW S, NEW a \in Seq(S), NEW b \in Seq(S), b # <<>>, NEW c \in Seq(S)
  PROVE  LET v == a \o Tail(b) \o c
             w == a \o b \o c
             k == Len(a) + 1
         IN  /\ v \in Seq(S) /\ w \in Seq(S) /\ Len(w) = Len(v) + 1 /\ k \in 1..Len(w) /\ w[k] = Head(b)
             /\ \A i \in 1..Len(v) : v[i] = IF i < k THEN w[i] ELSE w[i + 1]
  OBVIOUS

\* Every command has its place in the order, above what its peer accepted.
InOrder(w, last, t) == Ascending(w) /\ Above(w, last) /\ Upto(w, t)

\* What waits is a command.
LEMMA WaitingTyped ==
  ASSUME NEW w \in Seq(Commands), NEW i \in 1..Len(w)
  PROVE  w[i] \in Commands /\ w[i].t \in Nat /\ w[i].gen \in 1..wsPlan.gens
<1>1. w[i] \in Commands
  OBVIOUS
<1> QED
  BY <1>1 DEF Commands

\* A ticket is above all that were given out before.
LEMMA PublishKeepsOrder ==
  ASSUME NEW w \in Seq(Commands), NEW last \in Marks, NEW t \in Nat, InOrder(w, last, t),
         \A g \in 1..wsPlan.gens : last[g] <= t,
         NEW x \in Commands, x.t = t + 1
  PROVE  InOrder(Append(w, x), last, t + 1)
<1> DEFINE v == Append(w, x)
<1>1. /\ v \in Seq(Commands) /\ Len(v) = Len(w) + 1 /\ v[Len(v)] = x
      /\ \A i \in 1..Len(w) : v[i] = w[i]
  BY SMTT(60)
<1>2. last[x.gen] \in Nat /\ last[x.gen] <= t
  BY SMTT(60) DEF Commands, Marks
<1> HIDE DEF v
<1>3. \A i \in 1..Len(v) : i \in 1..Len(w) \/ (i = Len(v) /\ v[i] = x)
  BY <1>1, SMTT(60)
<1>4. \A i \in 1..Len(w) : w[i].t \in Nat
  BY WaitingTyped, SMTT(60)
<1>5. Ascending(v)
  <2> SUFFICES ASSUME NEW i \in 1..Len(v), NEW j \in 1..Len(v), i < j PROVE v[i].t < v[j].t
    BY SMTT(60) DEF Ascending
  <2>1. i \in 1..Len(w) /\ v[i] = w[i] /\ v[i].t \in Nat /\ v[i].t <= t
    BY <1>1, <1>4, SMTT(60) DEF InOrder, Upto
  <2>2. CASE j \in 1..Len(w)
    BY <1>1, <2>1, <2>2, SMTT(60) DEF InOrder, Ascending
  <2>3. CASE v[j] = x
    BY <2>1, <2>3, SMTT(60)
  <2> QED
    BY <1>3, <2>2, <2>3, SMTT(60)
<1>6. Above(v, last)
  BY <1>1, <1>2, <1>3, SMTT(60) DEF Above, InOrder
<1>7. Upto(v, t + 1)
  BY <1>1, <1>3, <1>4 DEF Upto, InOrder
<1> QED
  BY <1>5, <1>6, <1>7 DEF InOrder, v

\* One that is settled may be any that waits; one that is accepted is the first.
LEMMA SettleKeepsOrder ==
  ASSUME NEW v \in Seq(Commands), NEW w \in Seq(Commands), NEW k \in 1..Len(w), Len(w) = Len(v) + 1,
         \A i \in 1..Len(v) : v[i] = IF i < k THEN w[i] ELSE w[i + 1],
         NEW last \in Marks, NEW t \in Nat, InOrder(w, last, t)
  PROVE  InOrder(v, last, t) /\ (k = 1 => InOrder(v, [last EXCEPT ![w[k].gen] = w[k].t], t))
<1> DEFINE at(i) == IF i < k THEN i ELSE i + 1
           next == [last EXCEPT ![w[k].gen] = w[k].t]
<1>1. \A i \in 1..Len(v) : at(i) \in 1..Len(w) /\ v[i] = w[at(i)] /\ (k = 1 => at(i) > k)
  BY SMTT(60)
<1>2. \A i, j \in 1..Len(v) : i < j => at(i) < at(j)
  BY SMTT(60)
<1> HIDE DEF at
<1>3. Ascending(v) /\ Upto(v, t) /\ Above(v, last)
  BY <1>1, <1>2, SMTT(60) DEF InOrder, Ascending, Upto, Above
<1>4. k = 1 => Above(v, next)
  <2> SUFFICES ASSUME k = 1, NEW i \in 1..Len(v) PROVE v[i].t > next[v[i].gen]
    BY SMTT(60) DEF Above
  <2>1. v[i].gen \in 1..wsPlan.gens /\ v[i].t > last[v[i].gen]
    BY <1>3, WaitingTyped, SMTT(60) DEF Above
  <2>2. v[i].t > w[k].t
    <3>1. at(i) \in 1..Len(w) /\ k < at(i) /\ v[i] = w[at(i)] /\ k \in 1..Len(w)
      BY <1>1, SMTT(60)
    <3>2. w[k].t < w[at(i)].t
      BY <3>1, SMTT(60) DEF InOrder, Ascending
    <3>3. w[k].t \in Nat /\ w[at(i)].t \in Nat
      BY <3>1, WaitingTyped, SMTT(60)
    <3> QED
      BY <3>1, <3>2, <3>3, SMTT(60)
  <2> QED
    BY <2>1, <2>2, SMTT(60) DEF Marks
<1> QED
  BY <1>3, <1>4, SMTT(60) DEF InOrder
Copying == {q \in Producers : prod[q] # <<>>}

\* What makes CommandsOrdered inductive: outside a pass nothing is left to reach
\* and held counts what is pending; inside one, a command is pending only behind
\* a blocked peer, so that one that is accepted is the first that waits.
OrderInv ==
  /\ InOrder(Waiting, lastAccepted, tickets) /\ \A g \in 1..wsPlan.gens : lastAccepted[g] <= tickets
  /\ ~inPass => todo = <<>> /\ held = Len(pending)
  /\ inPass => wsStop \in {"running", "stopping"} /\ (pending # <<>> => peer.blocked)
  /\ claims + Len(queue) + held <= CommandCap /\ Len(pending) + Len(todo) <= held
  /\ claims = Cardinality(Copying)
  /\ IF wsStop = "destroyed" THEN claims = 0 ELSE Len(pending) + Len(todo) + Len(queue) + settled = tickets

\* Of the producers' part: a claim is one more producer that copies, a publication one less.
LEMMA ClaimsCounted ==
  ASSUME NEW q \in Producers, NEW x
  PROVE  LET d == [prod EXCEPT ![q] = x]
             C == {r \in Producers : d[r] # <<>>}
         IN  prod \in [Producers -> AtMostOne(Asks)] =>
             /\ IsFiniteSet(Copying) /\ Cardinality(Copying) \in Nat
             /\ prod[q] = <<>> /\ x # <<>> => Cardinality(C) = Cardinality(Copying) + 1
             /\ prod[q] # <<>> /\ x = <<>> => Cardinality(C) = Cardinality(Copying) - 1 /\ Cardinality(Copying) > 0
<1> SUFFICES ASSUME prod \in [Producers -> AtMostOne(Asks)]
             PROVE  LET d == [prod EXCEPT ![q] = x]
                        C == {r \in Producers : d[r] # <<>>}
                    IN  /\ IsFiniteSet(Copying) /\ Cardinality(Copying) \in Nat
                        /\ prod[q] = <<>> /\ x # <<>> => Cardinality(C) = Cardinality(Copying) + 1
                        /\ prod[q] # <<>> /\ x = <<>> => Cardinality(C) = Cardinality(Copying) - 1 /\ Cardinality(Copying) > 0
  OBVIOUS
<1> DEFINE d == [prod EXCEPT ![q] = x]
           C == {r \in Producers : d[r] # <<>>}
<1>1. IsFiniteSet(Copying)
  BY WsConstants, FS_Subset, SMTT(60) DEF Copying
<1>2. Cardinality(Copying) \in Nat
  BY <1>1, FS_CardinalityType, SMTT(60)
<1>3. prod[q] = <<>> /\ x # <<>> => C = Copying \cup {q} /\ q \notin Copying
  BY DEF Copying
<1>4. prod[q] # <<>> /\ x = <<>> => C = Copying \ {q} /\ q \in Copying
  BY DEF Copying
<1>5. q \in Copying => Cardinality(Copying \ {q}) = Cardinality(Copying) - 1 /\ IsFiniteSet(Copying \ {q})
  BY <1>1, FS_RemoveElement, SMTT(60)
<1>6. q \in Copying => Cardinality(Copying \ {q}) \in Nat
  BY <1>5, FS_CardinalityType, SMTT(60)
<1>7. q \notin Copying => Cardinality(Copying \cup {q}) = Cardinality(Copying) + 1
  BY <1>1, FS_AddElement, ZenonT(60)
<1> HIDE DEF C
<1>8. prod[q] # <<>> /\ x = <<>> => Cardinality(C) = Cardinality(Copying) - 1 /\ Cardinality(Copying) > 0
  <2>1. q \in Copying => Cardinality(Copying) > 0
    <3> DEFINE n == Cardinality(Copying)
               m == Cardinality(Copying \ {q})
    <3>1. q \in Copying => m = n - 1 /\ m \in Nat /\ n \in Nat
      BY <1>2, <1>5, <1>6, SMTT(60)
    <3> HIDE DEF n, m
    <3>2. q \in Copying => n > 0
      BY <3>1, SMTT(60)
    <3> QED
      BY <3>2 DEF n
  <2> QED
    BY <1>4, <1>5, <2>1, ZenonT(60)
<1>9. prod[q] = <<>> /\ x # <<>> => Cardinality(C) = Cardinality(Copying) + 1
  BY <1>3, <1>7, ZenonT(60)
<1> QED
  BY <1>1, <1>2, <1>8, <1>9, SMTT(60) DEF C

\* The order holds in the beginning ...
LEMMA OrderInit == WsInit => OrderInv
<1> SUFFICES ASSUME WsInit PROVE OrderInv
  OBVIOUS
<1>1. /\ Waiting = <<>> /\ Len(pending) = 0 /\ Len(todo) = 0 /\ Len(queue) = 0 /\ held = 0 /\ claims = 0
      /\ settled = 0 /\ tickets = 0 /\ todo = <<>> /\ pending = <<>>
  BY DEF WsInit, Waiting
<1>2. inPass = FALSE /\ wsStop = "running"
  BY DEF WsInit
<1>3. Copying = {}
  BY DEF WsInit, Copying
<1>4. Cardinality(Copying) = 0
  BY <1>3, FS_EmptySet
<1>5. \A g \in 1..wsPlan.gens : lastAccepted[g] <= 0
  BY DEF WsInit
<1>6. InOrder(Waiting, lastAccepted, tickets)
  BY <1>1, SMTT(60) DEF InOrder, Ascending, Above, Upto
<1> QED
  BY <1>1, <1>2, <1>4, <1>5, <1>6, WsConstants DEF OrderInv
\* ... and every step keeps it.
LEMMA OrderNext == WsTypes /\ OrderInv /\ [WsNext]_wsVars => OrderInv'
<1> SUFFICES ASSUME WsTypes, WsTypes', OrderInv, [WsNext]_wsVars PROVE OrderInv'
  BY WsTypesNext, SMTT(60)
<1>1. wsPlan' = wsPlan
  BY ZenonT(60) DEF WsNext, wsVars, Upgrade, OnSend, NativeWrite, RetryPending, TransportClosed, Accept,
     Pressure, OnReceive, PublishCommand, Claim, Snapshot, RunCommand, FinishPass, RequestStop,
     BeginShutdown, DestroyServer, Unchanged
<1>2. /\ queue \in Seq(Commands) /\ pending \in Seq(Commands) /\ todo \in Seq(Commands)
      /\ Len(queue) \in Nat /\ Len(pending) \in Nat /\ Len(todo) \in Nat
      /\ held \in Nat /\ claims \in Int /\ tickets \in Nat /\ settled \in Nat /\ CommandCap \in Nat
      /\ inPass \in BOOLEAN /\ lastAccepted \in Marks
  BY WsConstants, SMTT(60) DEF WsTypes
<1>3. Waiting \in Seq(Commands)
  BY <1>2 DEF Waiting
<1>a. /\ claims + Len(queue) + held <= CommandCap /\ Len(pending) + Len(todo) <= held
      /\ wsStop # "destroyed" => Len(pending) + Len(todo) + Len(queue) + settled = tickets
  BY SMTT(60) DEF OrderInv
\* outside a pass the peer is free to change
<1>4. ASSUME ~inPass, UNCHANGED <<queue, pending, todo, held, claims, prod, inPass, tickets, lastAccepted, settled>>,
             wsStop' = "destroyed" <=> wsStop = "destroyed"
      PROVE  OrderInv'
  BY <1>1, <1>4, SMTT(60) DEF OrderInv, Waiting, InOrder, Ascending, Above, Upto, Copying
<1>5. CASE Upgrade \/ OnSend \/ NativeWrite \/ RetryPending \/ TransportClosed \/ Accept
  BY <1>4, <1>5, ZenonT(60) DEF Upgrade, OnSend, NativeWrite, RetryPending, TransportClosed, Accept, Owner, Unchanged
<1>6. ASSUME NEW m \in wsPlan.messages, OnReceive(m) PROVE OrderInv'
  BY <1>4, <1>6, SMTT(60) DEF OnReceive, Owner, Unchanged
<1>7. CASE BeginShutdown
  BY <1>4, <1>7, SMTT(60) DEF BeginShutdown
<1>8. CASE Pressure \/ RequestStop \/ UNCHANGED wsVars
  <2>1. /\ UNCHANGED <<peer, queue, pending, todo, held, claims, prod, inPass, tickets, lastAccepted, settled>>
        /\ wsStop' = wsStop \/ (wsStop = "running" /\ wsStop' = "stopping")
    BY <1>8 DEF Pressure, RequestStop, wsVars
  <2> QED
    BY <1>1, <2>1, SMTT(60) DEF OrderInv, Waiting, InOrder, Ascending, Above, Upto, Copying
<1>9. ASSUME InOrder(Waiting', lastAccepted', tickets'),
             \A g \in 1..wsPlan.gens : lastAccepted'[g] <= tickets',
             ~inPass' => todo' = <<>> /\ held' = Len(pending'),
             inPass' => wsStop' \in {"running", "stopping"} /\ (pending' # <<>> => peer'.blocked),
             claims' + Len(queue') + held' <= CommandCap, Len(pending') + Len(todo') <= held',
             claims' = Cardinality(Copying'),
             IF wsStop' = "destroyed" THEN claims' = 0
             ELSE Len(pending') + Len(todo') + Len(queue') + settled' = tickets'
      PROVE  OrderInv'
  BY <1>1, <1>9, ZenonT(60) DEF OrderInv, Waiting, InOrder, Ascending, Above, Upto, Copying
<1>10. ASSUME NEW q \in wsPlan.producers, NEW kind \in wsPlan.kinds, Claim(q, kind) PROVE OrderInv'
  <2>1. PICK gen \in 1..peer.gen : prod' = [prod EXCEPT ![q] = <<[gen |-> gen, kind |-> kind]>>]
    BY <1>10, ZenonT(60) DEF Claim
  <2>2. prod \in [Producers -> AtMostOne(Asks)] /\ q \in Producers /\ prod[q] = <<>>
    BY <1>10, WsPlanTypes DEF WsTypes, Claim
  <2>3. Cardinality(Copying') = Cardinality(Copying) + 1
    <3>1. <<[gen |-> gen, kind |-> kind]>> # <<>>
      OBVIOUS
    <3>2. Copying' = {r \in Producers : [prod EXCEPT ![q] = <<[gen |-> gen, kind |-> kind]>>][r] # <<>>}
      BY <2>1 DEF Copying
    <3> QED
      BY <2>2, <3>1, <3>2, ClaimsCounted, ZenonT(60)
  <2>4. /\ UNCHANGED <<peer, queue, pending, todo, held, inPass, wsStop, tickets, lastAccepted, settled>>
        /\ wsStop = "running" /\ claims < CommandCap - Len(queue) - held /\ claims' = claims + 1
    BY <1>10 DEF Claim
  <2>5. Waiting' = Waiting
    BY <2>4, SMTT(60) DEF Waiting
  <2> QED
    BY <1>2, <1>9, <2>3, <2>4, <2>5, SMTT(60) DEF OrderInv
<1>11. ASSUME NEW q \in wsPlan.producers, PublishCommand(q) PROVE OrderInv'
  <2> DEFINE x == [t |-> tickets + 1, gen |-> prod[q][1].gen, kind |-> prod[q][1].kind]
  <2>1. prod \in [Producers -> AtMostOne(Asks)] /\ q \in Producers /\ prod[q] # <<>>
        /\ prod' = [prod EXCEPT ![q] = <<>>]
    BY <1>11, WsPlanTypes, SMTT(60) DEF WsTypes, PublishCommand
  <2>2. Cardinality(Copying') = Cardinality(Copying) - 1 /\ Cardinality(Copying) > 0
    BY <2>1, ClaimsCounted, ZenonT(60) DEF Copying
  <2>3. UNCHANGED <<peer, pending, todo, held, inPass, wsStop, lastAccepted, settled>> /\ claims' = claims - 1
    BY <1>11 DEF PublishCommand
  <2>4. wsStop # "destroyed"
    BY <2>2 DEF OrderInv
  <2>5. CASE UNCHANGED <<tickets, queue>>
    <3>1. Waiting' = Waiting
      BY <2>3, <2>5, SMTT(60) DEF Waiting
    <3>2. claims' + Len(queue') + held' <= CommandCap /\ claims' = Cardinality(Copying')
      BY <1>2, <2>2, <2>3, <2>5, SMTT(60) DEF OrderInv
    <3> QED
      BY <1>9, <2>3, <2>4, <2>5, <3>1, <3>2 DEF OrderInv
  <2>6. CASE tickets' = tickets + 1 /\ queue' = Append(queue, x)
    <3>1. prod[q] \in AtMostOne(Asks)
      BY <2>1, SMTT(60)
    <3>2. prod[q][1] \in Asks
      BY <2>1, <3>1, SMTT(60) DEF AtMostOne
    <3>3. x \in Commands /\ x.t = tickets + 1
      BY <1>2, <3>2, SMTT(60) DEF Commands, Asks
    <3> HIDE DEF x
    <3>4. Waiting' = Append(Waiting, x) /\ Len(queue') = Len(queue) + 1
      BY <1>2, <2>3, <2>6, <3>3, PublishOrder, SMTT(60) DEF Waiting
    <3>5. InOrder(Waiting', lastAccepted', tickets')
      BY <1>2, <1>3, <2>3, <2>6, <3>3, <3>4, PublishKeepsOrder, ZenonT(60) DEF OrderInv
    <3>6. ASSUME NEW g \in 1..wsPlan.gens PROVE lastAccepted'[g] <= tickets'
      <4>1. lastAccepted[g] \in Nat /\ lastAccepted[g] <= tickets
        BY <1>2, ZenonT(60) DEF OrderInv, Marks
      <4> QED
        BY <1>2, <2>3, <2>6, <4>1, SMTT(60)
    <3>7. claims' + Len(queue') + held' <= CommandCap /\ claims' = Cardinality(Copying')
      BY <1>2, <2>2, <2>3, <3>4 DEF OrderInv
    <3>8. Len(pending') + Len(todo') + Len(queue') + settled' = tickets'
      <4>1. /\ Len(pending') = Len(pending) /\ Len(todo') = Len(todo) /\ Len(queue') = Len(queue) + 1
            /\ settled' = settled /\ tickets' = tickets + 1
        BY <2>3, <2>6, <3>4, SMTT(60)
      <4> QED
        BY <1>2, <1>a, <2>4, <4>1, SMTT(60)
    <3> QED
      BY <1>9, <2>3, <2>4, <3>5, <3>6, <3>7, <3>8, SMTT(60) DEF OrderInv
  <2> QED
    BY <1>11, <2>5, <2>6, SMTT(60) DEF PublishCommand
<1>12. CASE Snapshot
  <2>1. /\ ~inPass /\ todo = <<>> /\ held = Len(pending) /\ wsStop \in {"running", "stopping"}
        /\ todo' = pending \o queue /\ held' = Len(pending) + Len(queue)
        /\ pending' = <<>> /\ queue' = <<>> /\ inPass' = TRUE
        /\ UNCHANGED <<claims, prod, wsStop, tickets, lastAccepted, settled>>
    BY <1>12 DEF Snapshot, Owner, OrderInv
  <2>2. Waiting' = Waiting
    BY <1>2, <2>1, SnapshotOrder DEF Waiting
  <2>3. Len(todo') = Len(pending) + Len(queue) /\ Len(pending') = 0 /\ Len(queue') = 0 /\ Len(todo) = 0
    BY <1>2, <2>1, SMTT(60)
  <2>4. Copying' = Copying
    BY <2>1, SMTT(60) DEF Copying
  <2> QED
    BY <1>2, <1>9, <2>1, <2>2, <2>3, <2>4, SMTT(60) DEF OrderInv
<1>13. CASE FinishPass
  <2>1. /\ inPass /\ todo = <<>> /\ held' = Len(pending) /\ inPass' = FALSE
        /\ UNCHANGED <<peer, queue, pending, todo, claims, prod, wsStop, tickets, lastAccepted, settled>>
    BY <1>13 DEF FinishPass
  <2>2. Waiting' = Waiting /\ Copying' = Copying /\ Len(todo) = 0
    BY <2>1, SMTT(60) DEF Waiting, Copying
  <2> QED
    BY <1>2, <1>9, <2>1, <2>2, SMTT(60) DEF OrderInv
<1>14. CASE DestroyServer
  <2>1. /\ wsStop = "closing" /\ claims = 0 /\ wsStop' = "destroyed" /\ queue' = <<>> /\ pending' = <<>> /\ held' = 0
        /\ UNCHANGED <<todo, claims, prod, inPass, tickets, lastAccepted, settled>>
    BY <1>14 DEF DestroyServer
  <2>2. ~inPass /\ todo = <<>>
    BY <2>1 DEF OrderInv
  <2>3. Waiting' = <<>> /\ Copying' = Copying /\ Len(todo') = 0 /\ Len(queue') = 0 /\ Len(pending') = 0
    BY <2>1, <2>2 DEF Waiting, Copying
  <2>4. InOrder(Waiting', lastAccepted', tickets')
    BY <2>3, SMTT(60) DEF InOrder, Ascending, Above, Upto
  <2>5. claims' + Len(queue') + held' <= CommandCap /\ Len(pending') + Len(todo') <= held'
    BY <1>2, <2>1, <2>3, SMTT(60)
  <2> QED
    BY <1>9, <2>1, <2>2, <2>3, <2>4, <2>5, ZenonT(60) DEF OrderInv
<1>15. CASE RunCommand
  <2> DEFINE cmd == Head(todo)
  <2>1. /\ inPass /\ todo # <<>>
        /\ Accepted(cmd) \/ Kept(cmd) \/ GivenUp(cmd)
        /\ todo' = Tail(todo) /\ UNCHANGED <<queue, held, claims, prod, inPass, wsStop, tickets>>
    BY <1>15, SMTT(60) DEF RunCommand
  <2>2. Len(todo') = Len(todo) - 1 /\ cmd \in Commands /\ cmd.t \in Nat /\ cmd.gen \in 1..wsPlan.gens
    <3>1. Len(Tail(todo)) = Len(todo) - 1 /\ Head(todo) \in Commands
      BY <1>2, <2>1, SMTT(60)
    <3>2. Head(todo).t \in Nat /\ Head(todo).gen \in 1..wsPlan.gens
      BY <3>1, SMTT(60) DEF Commands
    <3> QED
      BY <2>1, <3>1, <3>2, SMTT(60)
  <2>3. Copying' = Copying
    BY <2>1, SMTT(60) DEF Copying
  <2>4. wsStop \in {"running", "stopping"} /\ (pending # <<>> => peer.blocked)
    BY <2>1, SMTT(60) DEF OrderInv
  <2> HIDE DEF cmd
  <2>5. CASE Kept(cmd)
    <3>1. pending' = Append(pending, cmd) /\ peer' = [peer EXCEPT !.blocked = TRUE] /\ UNCHANGED <<lastAccepted, settled>>
      BY <2>5, SMTT(60) DEF Kept
    <3>2. Len(pending') = Len(pending) + 1 /\ peer'.blocked
      BY <1>2, <2>2, <3>1, SMTT(60) DEF WsTypes, PeerInv, Peers
    <3>3. Waiting' = Waiting
      <4>1. Waiting' = Append(pending, Head(todo)) \o Tail(todo) \o queue
        BY <2>1, <3>1 DEF Waiting, cmd
      <4>2. Append(pending, Head(todo)) \o Tail(todo) \o queue = pending \o todo \o queue
        BY <1>2, <2>1, KeptOrder
      <4> QED
        BY <4>1, <4>2, ZenonT(60) DEF Waiting
    <3>4. /\ Len(pending') + Len(todo') <= held'
          /\ Len(pending') + Len(todo') + Len(queue') + settled' = tickets'
      BY <1>2, <1>a, <2>1, <2>2, <2>4, <3>1, <3>2, SMTT(60)
    <3> QED
      BY <1>9, <2>1, <2>3, <2>4, <3>1, <3>2, <3>3, <3>4, SMTT(60) DEF OrderInv
  <2>6. CASE GivenUp(cmd) \/ Accepted(cmd)
    <3> DEFINE k == Len(pending) + 1
    <3>1. pending' = pending /\ settled' = settled + 1
      BY <2>6, SMTT(60) DEF GivenUp, Accepted
    <3>2. /\ Waiting' \in Seq(Commands) /\ Len(Waiting) = Len(Waiting') + 1 /\ k \in 1..Len(Waiting)
          /\ Waiting[k] = cmd
          /\ \A i \in 1..Len(Waiting') : Waiting'[i] = IF i < k THEN Waiting[i] ELSE Waiting[i + 1]
      <4>1. Waiting' = pending \o Tail(todo) \o queue
        BY <2>1, <3>1 DEF Waiting
      <4>2. Waiting = pending \o todo \o queue /\ cmd = Head(todo)
        BY DEF Waiting, cmd
      <4> DEFINE v == pending \o Tail(todo) \o queue
                 w == pending \o todo \o queue
      <4>3. queue \in Seq(Commands) /\ pending \in Seq(Commands) /\ todo \in Seq(Commands) /\ todo # <<>>
        BY <1>2, <2>1
      <4>4. /\ v \in Seq(Commands) /\ Len(w) = Len(v) + 1 /\ k \in 1..Len(w) /\ w[k] = Head(todo)
            /\ \A i \in 1..Len(v) : v[i] = IF i < k THEN w[i] ELSE w[i + 1]
        BY ONLY <4>3, SettledOrder, SMTT(60)
      <4> HIDE DEF v, w, k
      <4> QED
        BY <4>1, <4>2, <4>4, SMTT(60) DEF v, w
    <3>3. /\ InOrder(Waiting', lastAccepted, tickets)
          /\ k = 1 => InOrder(Waiting', [lastAccepted EXCEPT ![cmd.gen] = cmd.t], tickets)
      <4> HIDE DEF k
      <4> QED
        BY <1>2, <1>3, <3>2, SettleKeepsOrder, ZenonT(60) DEF OrderInv
    <3>4. /\ InOrder(Waiting', lastAccepted', tickets')
          /\ \A g \in 1..wsPlan.gens : lastAccepted'[g] <= tickets'
          /\ pending' # <<>> => peer'.blocked
      <4>1. CASE GivenUp(cmd)
        BY <2>1, <2>4, <3>1, <3>3, <4>1 DEF GivenUp, OrderInv
      <4>2. CASE Accepted(cmd)
        <5>1. ~peer.blocked /\ lastAccepted' = [lastAccepted EXCEPT ![cmd.gen] = cmd.t]
          BY <4>2 DEF Accepted, CommandStatus
        <5>2. pending = <<>> /\ k = 1
          BY <2>4, <5>1, SMTT(60)
        <5>3. cmd.t <= tickets
          BY <3>2, SMTT(60) DEF OrderInv, InOrder, Upto
        <5>4. \A g \in 1..wsPlan.gens : lastAccepted'[g] <= tickets
          BY <1>2, <2>2, <5>1, <5>3, SMTT(60) DEF OrderInv, Marks
        <5> QED
          BY <2>1, <3>1, <3>3, <5>1, <5>2, <5>4
      <4> QED
        BY <2>6, <4>1, <4>2
    <3>5. /\ Len(pending') + Len(todo') <= held'
          /\ Len(pending') + Len(todo') + Len(queue') + settled' = tickets'
      <4>1. /\ Len(pending') = Len(pending) /\ Len(todo') = Len(todo) - 1 /\ Len(queue') = Len(queue)
            /\ settled' = settled + 1 /\ tickets' = tickets /\ held' = held /\ wsStop # "destroyed"
        BY <2>1, <2>2, <2>4, <3>1, SMTT(60)
      <4> QED
        BY <1>2, <1>a, <4>1, SMTT(60)
    <3>6. /\ claims' + Len(queue') + held' <= CommandCap /\ claims' = Cardinality(Copying')
          /\ inPass' = TRUE /\ wsStop' \in {"running", "stopping"} /\ wsStop' # "destroyed"
      BY <1>a, <2>1, <2>3, <2>4, SMTT(60) DEF OrderInv
    <3> HIDE DEF k
    <3> QED
      BY <1>9, <3>4, <3>5, <3>6
  <2> QED
    BY <2>1, <2>5, <2>6, SMTT(60)
<1> QED
  BY <1>5, <1>6, <1>7, <1>8, <1>10, <1>11, <1>12, <1>13, <1>14, <1>15, SMTT(60) DEF WsNext

\* The lane's arrays never overflow, no producer outlives its lane, no published
\* command is lost, and a peer accepts the commands of its session in the order
\* they were published (command_submit, commands_progress).
THEOREM CommandsStayOrdered == WsSpec => []CommandsOrdered
<1>1. WsInit => WsTypes /\ OrderInv
  BY WsTypesInit, OrderInit, SMTT(60)
<1>2. WsTypes /\ OrderInv /\ [WsNext]_wsVars => (WsTypes /\ OrderInv)'
  BY WsTypesNext, OrderNext, SMTT(60)
<1>3. WsTypes /\ OrderInv => CommandsOrdered
  <2> SUFFICES ASSUME WsTypes, OrderInv PROVE CommandsOrdered
    OBVIOUS
  <2>1. Len(pending \o todo \o queue) = Len(pending) + Len(todo) + Len(queue)
    BY DEF WsTypes
  <2> QED
    BY <2>1, SMTT(60) DEF CommandsOrdered, OrderInv, InOrder, Ascending, Above, Waiting, Copying
<1> QED
  BY <1>1, <1>2, <1>3, PTL DEF WsSpec
=============================================================================
