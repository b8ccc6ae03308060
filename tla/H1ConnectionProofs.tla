------------------------- MODULE H1ConnectionProofs -------------------------
(***************************************************************************)
(* Proofs about H1Connection, for any number of requests, any length of a  *)
(* streamed body, any pipelining and any budget: a connection never waits  *)
(* for nothing, a receive is demanded only between exchanges, and a body   *)
(* source is owned until its one terminal callback.                        *)
(*                                                                         *)
(* The inductive invariant says, for each of the connection's Booleans,    *)
(* which other state it excludes or promises.  Every handler ends in       *)
(* connection_retry, so its three outcomes are a lemma of their own.       *)
(***************************************************************************)
EXTENDS H1Connection, TLAPS

\* The state has its type, and the requests parsed, unread and kept are within
\* the bound.
TypeOK ==
    /\ pc \in {"idle", "parse"} /\ unread \in Nat /\ stash \in Nat
    /\ next \in Nat \ {0} /\ next + unread + stash <= MaxRequests + 1
    /\ pending \in {"none", "send", "receive", "close"}
    /\ outbound \in Seq(Items) /\ wire \in Seq(Items)
    /\ retained \in 0 .. MaxRequests /\ source \in 0 .. MaxRequests
    /\ transferred \in Nat
    /\ cleanup \in [Requests -> {"none", "open"} \cup Terminal]
    /\ token \in {"idle", "pending", "ready", "canceled"}
    /\ net \in {"new", "open", "closed"}

\* The source the builder owns is the one that is open, and belongs to a
\* request that has been parsed.
Cleanups ==
    /\ source < next
    /\ \A r \in Requests : cleanup[r] = "open" <=> r = source
    /\ \A r \in Requests : r >= next => cleanup[r] = "none"

\* A source is read for the response being streamed, and excludes every other
\* reason to hold the connection back.
Streams ==
    source # 0 =>
      /\ "response_streaming" \in flags
      /\ "paused" \notin flags /\ "headers_stopped" \notin flags
      /\ "retained_paused" \notin flags /\ "deferred_writing" \notin flags
      /\ retained = 0 /\ stash = 0 /\ token = "idle" /\ net = "open"

\* Before the connection opens and after it is gone nothing is left of it.
Quiet ==
    net # "open" =>
      /\ pc = "idle" /\ flags \subseteq {"shutdown"} /\ pending = "none"
      /\ outbound = <<>> /\ retained = 0 /\ stash = 0 /\ source = 0
      /\ net = "new" => token = "idle"

\* The parser runs between exchanges: nothing is submitted or kept, and what a
\* request of the segment has caused so far is in outbound.
ParserAlone ==
    pc = "parse" =>
      /\ net = "open" /\ pending = "none" /\ stash = 0
      /\ "writing" \notin flags /\ "receiving" \notin flags
      /\ "deferred_writing" \notin flags
      /\ "paused" \notin flags =>
           token = "idle" /\ retained = 0 /\ "retained_paused" \notin flags
      /\ \/ "response_streaming" \in flags \/ "close_after_write" \in flags
         \/ "retained_paused" \in flags
         => outbound # <<>>

\* An idle connection has nothing left to parse.
ParserDone == pc = "idle" => unread = 0 /\ "resumed" \notin flags

\* A receive that is demanded or is to be demanded finds the exchange over.
ReceiveClear ==
    "receiving" \in flags \/ pending = "receive" =>
      /\ pc = "idle" /\ outbound = <<>> /\ stash = 0 /\ token = "idle"
      /\ retained = 0 /\ "writing" \notin flags /\ "paused" \notin flags
      /\ "response_streaming" \notin flags
      /\ "deferred_writing" \notin flags /\ "retained_paused" \notin flags

\* The one pending action and what CNet has accepted do not compete.
Submissions ==
    /\ "receiving" \in flags => pending = "none" \/ pending = "close"
    /\ "writing" \in flags => pending = "none" \/ pending = "close"
    /\ "writing" \in flags /\ "close_after_write" \in flags =>
         "closing" \in flags \/ pending = "close"
    /\ pending = "close" => "close_after_write" \in flags
    /\ pending = "receive" => "close_after_write" \notin flags

\* A paused parser has a reason that ends: a deferred token, a write that
\* resumes it, or the close of the connection.
Pauses ==
    /\ token # "idle" =>
         /\ "writing" \notin flags /\ pending # "send"
         /\ "deferred_writing" \notin flags /\ "retained_paused" \notin flags
         /\ net = "open" => "paused" \in flags \/ "close_after_write" \in flags
    /\ "deferred_writing" \in flags => "paused" \in flags \/ "close_after_write" \in flags
    /\ "headers_stopped" \in flags => "close_after_write" \in flags
    /\ "retained_paused" \in flags => "paused" \in flags
    /\ retained # 0 => "retained_paused" \in flags
    /\ stash # 0 => "paused" \in flags \/ "close_after_write" \in flags
    /\ "paused" \in flags /\ token = "idle" =>
         \/ "deferred_writing" \in flags \/ "retained_paused" \in flags
         \/ "close_after_write" \in flags

\* What calls an open connection back; a connection that is to close waits
\* neither for its peer nor for a file.
Wakes ==
    ~tight /\ net = "open" /\ pc = "idle" =>
      \/ "writing" \in flags \/ "closing" \in flags
      \/ pending # "none" \/ token # "idle"
      \/ /\ "close_after_write" \notin flags
         /\ \/ "receiving" \in flags
            \/ "response_streaming" \in flags /\ source # 0

\* The heads of a response whose body is streamed.
Heads == {"head_chunked", "head_sized", "head_eof"}

\* The inductive invariant.
H1Inv ==
    /\ TypeOK /\ Cleanups /\ Streams /\ Quiet /\ ParserAlone /\ ParserDone
    /\ ReceiveClear /\ Submissions /\ Pauses /\ Wakes

-----------------------------------------------------------------------------
(* What connection_retry and builder_close_source can come back with.      *)

\* connection_retry leaves the action pending or hands it to CNet, and in
\* either case changes no flag but CNet's own.
LEMMA RetryCases ==
    ASSUME NEW a \in {"send", "receive", "close"}, NEW f, Retry(a, f)
    PROVE  \/ pending' = a /\ flags' = f
           \/ /\ "writing" \notin f /\ pending' = "none"
              /\ \/ /\ a = "send" /\ "close_after_write" \notin f
                    /\ flags' = f \cup {"writing"}
                 \/ /\ a = "send" /\ "close_after_write" \in f
                    /\ flags' = f \cup {"writing", "closing"}
                 \/ a = "receive" /\ flags' = f \cup {"receiving"}
                 \/ a = "close" /\ flags' = f \cup {"closing"}
<1>1. CASE a = "send"
  BY <1>1, Zenon DEF Retry, Accepted
<1>2. CASE a = "receive"
  BY <1>2, Zenon DEF Retry, Accepted
<1>3. CASE a = "close"
  BY <1>3, Zenon DEF Retry, Accepted
<1> QED BY <1>1, <1>2, <1>3, Zenon

\* connection_close submits a close, or the send that is pending, marked.
LEMMA CloseCases ==
    ASSUME NEW p, NEW f, Close(p, f)
    PROVE  \/ p = "send" /\ Retry("send", f \cup {"close_after_write"})
           \/ p # "send" /\ Retry("close", f \cup {"close_after_write"})
BY Zenon DEF Close

\* send_pending sends what there is, or else demands a receive, unless a
\* deferred response, a write or the close of the connection is awaited.
LEMMA SendPendingCases ==
    ASSUME NEW f, NEW out, NEW t, SendPending(f, out, t)
    PROVE  \/ /\ t = "idle" /\ "writing" \notin f /\ out # <<>>
              /\ Retry("send", f)
           \/ /\ t = "idle" /\ "writing" \notin f /\ out = <<>>
              /\ "close_after_write" \notin f /\ Retry("receive", f)
           \/ /\ flags' = f /\ pending' = pending
              /\ \/ t # "idle" \/ "writing" \in f
                 \/ out = <<>> /\ "close_after_write" \in f
BY Zenon DEF SendPending, Receive

\* on_send closes a marked connection that has nothing more to send, and
\* leaves one that streams to its file.
LEMMA AfterSendCases ==
    ASSUME NEW f, NEW out, AfterSend(f, out)
    PROVE  \/ /\ token = "idle" /\ "writing" \notin f /\ out # <<>>
              /\ Retry("send", f)
           \/ /\ token = "idle" /\ "writing" \notin f /\ out = <<>>
              /\ "close_after_write" \notin f /\ "response_streaming" \notin f
              /\ Retry("receive", f)
           \/ /\ flags' = f /\ pending' = pending
              /\ \/ token # "idle" /\ (out = <<>> => "close_after_write" \notin f)
                 \/ "writing" \in f
                 \/ /\ out = <<>> /\ "close_after_write" \notin f
                    /\ "response_streaming" \in f
           \/ /\ out = <<>> /\ "close_after_write" \in f
              /\ Close(pending, f)
BY SendPendingCases, Zenon DEF AfterSend

\* An item of a numbered request, or of none, is an item.
LEMMA ItemTyped ==
    ASSUME NEW r \in 0 .. MaxRequests, NEW p \in Parts
    PROVE  Item(r, p) \in Items
BY Zenon DEF Item, Items

\* The parts a response is written in.
LEMMA PartsTyped ==
    /\ "full" \in Parts /\ "head_chunked" \in Parts /\ "head_sized" \in Parts
    /\ "head_eof" \in Parts /\ "head_retained" \in Parts /\ "chunk" \in Parts
    /\ "final" \in Parts /\ "body" \in Parts /\ "error" \in Parts
BY Zenon DEF Parts

\* What on_send accounts for is made of items.
LEMMA WrittenTyped ==
    ASSUME TypeOK
    PROVE  Written \in Seq(Items)
<1>1. CASE retained = 0
  BY <1>1 DEF TypeOK, Written
<1>2. CASE retained # 0
  <2>1. Item(retained, "body") \in Items
    BY ItemTyped, PartsTyped, Zenon DEF TypeOK
  <2> QED BY <1>2, <2>1 DEF TypeOK, Written
<1> QED BY <1>1, <1>2, Zenon

\* What stream_next serialises is made of items.
LEMMA StreamNextTyped ==
    ASSUME TypeOK, NEW result, NEW f, StreamNext(result, f)
    PROVE  outbound' \in Seq(Items)
<1>1. Item(source, "chunk") \in Items /\ Item(source, "final") \in Items
  BY ItemTyped, PartsTyped, Zenon DEF TypeOK
<1> DEFINE c == Item(source, "chunk")
           e == Item(source, "final")
<1>2. <<c>> \in Seq(Items) /\ <<e>> \in Seq(Items) /\ <<>> \in Seq(Items)
  <2> HIDE DEF c, e
  <2>1. c \in Items /\ e \in Items
    BY <1>1, Zenon DEF c, e
  <2> QED BY <2>1
<1> QED BY <1>2, Zenon DEF StreamNext

\* builder_close_source leaves no source open and touches no later request.
LEMMA SourceClosed ==
    ASSUME TypeOK, Cleanups, NEW status \in Terminal, NEW c,
           c = IF source = 0 THEN cleanup ELSE [cleanup EXCEPT ![source] = status]
    PROVE  /\ c \in [Requests -> {"none", "open"} \cup Terminal]
           /\ \A r \in Requests : c[r] # "open"
           /\ \A r \in Requests : r >= next => c[r] = "none"
<1>1. CASE source = 0
  BY <1>1 DEF TypeOK, Cleanups, Requests
<1>2. CASE source # 0
  BY <1>2, Zenon DEF TypeOK, Cleanups, Requests, Terminal
<1> QED BY <1>1, <1>2, Zenon

-----------------------------------------------------------------------------
(* on_send by what it finds to do next.                                    *)

SentFlags == flags \ {"writing", "deferred_writing", "retained_paused"}

Sent ==
    /\ net = "open" /\ pc = "idle" /\ "writing" \in flags
    /\ wire' = Written /\ retained' = 0
    /\ UNCHANGED <<next, token, net>>

SentStream(result) ==
    /\ Sent /\ "response_streaming" \in flags
    /\ StreamNext(result, SentFlags)
    /\ UNCHANGED <<pc, unread, stash>>

SentWaits ==
    /\ Sent /\ "response_streaming" \in flags
    /\ source # 0 /\ outbound' = <<>> /\ flags' = SentFlags
    /\ UNCHANGED <<pc, unread, stash, source, transferred, cleanup, pending>>

SentResumes ==
    /\ Sent /\ "response_streaming" \notin flags
    /\ "deferred_writing" \in flags \/ "retained_paused" \in flags
    /\ "close_after_write" \notin flags
    /\ pc' = "parse" /\ unread' = stash /\ stash' = 0 /\ outbound' = <<>>
    /\ flags' = (SentFlags \ {"paused"}) \cup {"resumed"}
    /\ UNCHANGED <<pending, source, transferred, cleanup>>

SentPlain ==
    /\ Sent /\ "response_streaming" \notin flags
    /\ \/ "close_after_write" \in flags
       \/ "deferred_writing" \notin flags /\ "retained_paused" \notin flags
    /\ outbound' = <<>> /\ AfterSend(SentFlags, <<>>)
    /\ UNCHANGED <<pc, unread, stash, source, transferred, cleanup>>

\* Every completed write streams on, waits for a file, resumes the parser or
\* chooses the next action.
LEMMA OnSendCases ==
    ASSUME OnSend
    PROVE  \/ \E result \in StreamResults : SentStream(result)
           \/ SentWaits \/ SentResumes \/ SentPlain
<1> DEFINE f == flags \ {"writing", "deferred_writing", "retained_paused"}
<1>1. CASE "response_streaming" \in flags
  <2>1. ASSUME NEW result \in StreamResults, StreamNext(result, f),
               UNCHANGED <<pc, unread, stash>>
        PROVE  SentStream(result)
    BY <1>1, <2>1, Zenon DEF OnSend, Sent, SentStream, SentFlags
  <2> QED BY <1>1, <2>1, Zenon DEF OnSend, Sent, SentWaits, SentFlags
<1>2. CASE "response_streaming" \notin flags
  BY <1>2, Zenon DEF OnSend, Sent, SentResumes, SentPlain, SentFlags
<1> QED BY <1>1, <1>2, Zenon

-----------------------------------------------------------------------------
(* The invariant, action by action: first what the action comes down to,   *)
(* then the conjuncts it can disturb.                                      *)

\* The first receive finds a new connection.
LEMMA ConnectedStep ==
    ASSUME H1Inv, Connected, Fixed
    PROVE  H1Inv'
<1>1. /\ net = "new" /\ net' = "open"
      /\ UNCHANGED <<pc, unread, stash, next, outbound, retained, wire, source,
                     transferred, cleanup, token>>
  BY Zenon DEF Connected
<1>2. /\ pc = "idle" /\ outbound = <<>> /\ retained = 0 /\ stash = 0
      /\ source = 0 /\ token = "idle" /\ flags \subseteq {"shutdown"}
  BY <1>1, Zenon DEF H1Inv, Quiet
<1>3. Retry("receive", flags)
  <2>1. "close_after_write" \notin flags
    BY <1>2, Zenon
  <2> QED BY <2>1, Zenon DEF Connected, Receive
<1>4. TypeOK' /\ Cleanups'
  <2>1. pending' \in {"none", "send", "receive", "close"}
    BY <1>3, RetryCases, Zenon
  <2> QED BY <1>1, <2>1, Zenon DEF H1Inv, TypeOK, Cleanups
<1>5. Streams' /\ Quiet' /\ ParserAlone' /\ ParserDone'
  BY <1>1, <1>2, <1>3, RetryCases
     DEF H1Inv, Streams, Quiet, ParserAlone, ParserDone
<1>6. ReceiveClear' /\ Submissions' /\ Pauses' /\ Wakes'
  BY <1>1, <1>2, <1>3, RetryCases
     DEF ReceiveClear, Submissions, Pauses, Wakes
<1> QED BY <1>4, <1>5, <1>6, Zenon DEF H1Inv

\* A connection that is gone is quiet; its source has been canceled.
LEMMA ConnectionClosedStep ==
    ASSUME H1Inv, ConnectionClosed, Fixed
    PROVE  H1Inv'
<1>1. /\ net' = "closed" /\ pc = "idle" /\ flags' = flags \cap {"shutdown"}
      /\ pending' = "none" /\ outbound' = <<>> /\ retained' = 0 /\ stash' = 0
      /\ UNCHANGED <<pc, unread, next, wire, transferred, token>>
  BY Zenon DEF ConnectionClosed
<1>2. source' = 0 /\ cleanup' = CanceledSource
  BY Zenon DEF ConnectionClosed, CloseSource, CanceledSource, H1Inv, Streams
<1>3. TypeOK' /\ Cleanups'
  <2>1. /\ cleanup' \in [Requests -> {"none", "open"} \cup Terminal]
        /\ \A r \in Requests : cleanup'[r] # "open"
        /\ \A r \in Requests : r >= next => cleanup'[r] = "none"
    BY <1>2, SourceClosed, Zenon DEF H1Inv, CanceledSource, Terminal
  <2> QED
    BY <1>1, <1>2, <2>1, RequestsAssumption DEF H1Inv, TypeOK, Cleanups, Requests
<1>4. Streams' /\ Quiet' /\ ParserAlone' /\ ParserDone'
  BY <1>1, <1>2, Zenon DEF H1Inv, Streams, Quiet, ParserAlone, ParserDone
<1>5. ReceiveClear' /\ Submissions' /\ Pauses' /\ Wakes'
  BY <1>1, <1>2, Zenon DEF ReceiveClear, Submissions, Pauses, Wakes
<1> QED BY <1>3, <1>4, <1>5, Zenon DEF H1Inv

\* A retry changes what is pending and CNet's flags.
LEMMA RetryPendingStep ==
    ASSUME H1Inv, RetryPending, Fixed
    PROVE  H1Inv'
<1>1. /\ net = "open" /\ pc = "idle" /\ pending # "none"
      /\ Retry(pending, flags)
      /\ UNCHANGED <<pc, unread, stash, next, outbound, retained, wire, source,
                     transferred, cleanup, token, net>>
  BY Zenon DEF RetryPending
<1>2. pending \in {"send", "receive", "close"}
  BY <1>1, Zenon DEF H1Inv, TypeOK
<1>3. TypeOK' /\ Cleanups'
  BY <1>1, <1>2, RetryCases, Zenon DEF H1Inv, TypeOK, Cleanups
<1>4. Streams' /\ Quiet' /\ ParserAlone' /\ ParserDone'
  BY <1>1, <1>2, RetryCases DEF H1Inv, Streams, Quiet, ParserAlone, ParserDone
<1>5. ReceiveClear' /\ Submissions'
  BY <1>1, <1>2, RetryCases DEF H1Inv, ReceiveClear, Submissions
<1>6. Pauses' /\ Wakes'
  BY <1>1, <1>2, RetryCases DEF H1Inv, ReceiveClear, Submissions, Pauses, Wakes, Fixed
<1> QED BY <1>3, <1>4, <1>5, <1>6, Zenon DEF H1Inv

\* A segment arrives between exchanges.
LEMMA OnReceiveStep ==
    ASSUME H1Inv, NEW n \in 0 .. MaxRequests, OnReceive(n), Fixed
    PROVE  H1Inv'
<1>1. /\ net = "open" /\ pc = "idle" /\ "receiving" \in flags
      /\ next + n <= MaxRequests + 1 /\ flags' = flags \ {"receiving"}
      /\ \/ "close_after_write" \in flags /\ UNCHANGED <<pc, unread>>
         \/ "close_after_write" \notin flags /\ pc' = "parse" /\ unread' = n
      /\ UNCHANGED <<stash, next, pending, outbound, retained, wire, source,
                     transferred, cleanup, token, net>>
  BY Zenon DEF OnReceive
<1>2. /\ stash = 0 /\ retained = 0 /\ token = "idle" /\ source = 0
      /\ "writing" \notin flags /\ "deferred_writing" \notin flags
      /\ "retained_paused" \notin flags /\ "response_streaming" \notin flags
      /\ pending = "none" \/ pending = "close"
  BY <1>1, Zenon DEF H1Inv, ReceiveClear, Streams, Submissions
<1>3. TypeOK' /\ Cleanups'
  BY <1>1, <1>2, RequestsAssumption DEF H1Inv, TypeOK, Cleanups
<1>4. Streams' /\ Quiet' /\ ParserAlone' /\ ParserDone'
  BY <1>1, <1>2
    , Zenon DEF H1Inv, Streams, Quiet, ParserAlone, ParserDone, Submissions
<1>5. ReceiveClear' /\ Submissions'
  BY <1>1, <1>2, Zenon DEF H1Inv, ReceiveClear, Submissions
<1>6. Pauses' /\ Wakes'
  BY <1>1, <1>2, Zenon DEF H1Inv, Pauses, Wakes, Fixed
<1> QED BY <1>3, <1>4, <1>5, <1>6, Zenon DEF H1Inv

\* What the parser finds when it consumes one more request.
LEMMA ParsingFacts ==
    ASSUME H1Inv, Parsing
    PROVE  /\ pc = "parse" /\ net = "open" /\ pending = "none" /\ stash = 0
           /\ token = "idle" /\ retained = 0
           /\ "writing" \notin flags /\ "receiving" \notin flags
           /\ "deferred_writing" \notin flags /\ "retained_paused" \notin flags
           /\ "paused" \notin flags /\ "headers_stopped" \notin flags
           /\ next \in Requests /\ next + 1 \in Nat \ {0} /\ unread - 1 \in Nat
           /\ (next + 1) + (unread - 1) + stash <= MaxRequests + 1
<1>1. pc = "parse" /\ "paused" \notin flags /\ "headers_stopped" \notin flags
  BY Zenon DEF Parsing
<1>2. /\ next \in Requests /\ next + 1 \in Nat \ {0} /\ unread - 1 \in Nat
      /\ (next + 1) + (unread - 1) + stash <= MaxRequests + 1
  BY RequestsAssumption DEF H1Inv, TypeOK, Parsing, Requests
<1> QED BY <1>1, <1>2, Zenon DEF H1Inv, ParserAlone

\* A response that is serialised whole and pauses nothing: the parser goes on.
LEMMA WholeReply ==
    ASSUME H1Inv, Fixed, NextRequest,
           outbound' = Append(outbound, Item(next, "full")),
           NEW X \in SUBSET {"close_after_write", "last", "headers_stopped"},
           flags' = Renewed \cup X,
           "headers_stopped" \in X => "close_after_write" \in X,
           cleanup' \in [Requests -> {"none", "open"} \cup Terminal],
           \A r \in Requests : cleanup'[r] # "open",
           \A r \in Requests : r > next => cleanup'[r] = "none",
           source' = 0, UNCHANGED <<retained, transferred>>
    PROVE  H1Inv'
<1>1. /\ Parsing /\ unread' = unread - 1 /\ next' = next + 1
      /\ UNCHANGED <<pc, stash, pending, wire, token, net>>
  BY Zenon DEF NextRequest
<1>2. outbound' \in Seq(Items) /\ outbound' # <<>>
  <2>1. Item(next, "full") \in Items
    BY <1>1, ParsingFacts, ItemTyped, PartsTyped DEF Requests
  <2> QED BY <2>1 DEF H1Inv, TypeOK
<1>3. TypeOK' /\ Cleanups'
  BY <1>1, <1>2, ParsingFacts, RequestsAssumption DEF H1Inv, TypeOK, Cleanups, Requests
<1>4. Streams' /\ Quiet' /\ ParserAlone' /\ ParserDone'
  BY <1>1, <1>2, ParsingFacts
    , Zenon DEF Streams, Quiet, ParserAlone, ParserDone, Renewed
<1>5. ReceiveClear' /\ Submissions' /\ Pauses' /\ Wakes'
  BY <1>1, ParsingFacts
    , Zenon DEF ReceiveClear, Submissions, Pauses, Wakes, Renewed, H1Inv
<1> QED BY <1>3, <1>4, <1>5, Zenon DEF H1Inv

\* A buffered response is serialised whole.
LEMMA ReplyBufferedStep ==
    ASSUME H1Inv, NEW keep \in BOOLEAN, ReplyBuffered(keep), Fixed
    PROVE  H1Inv'
<1> DEFINE X == IF keep THEN {} ELSE {"close_after_write", "last"}
<1>1. /\ X \in SUBSET {"close_after_write", "last", "headers_stopped"}
      /\ "headers_stopped" \notin X
  BY Zenon
<1>2. /\ NextRequest /\ outbound' = Append(outbound, Item(next, "full"))
      /\ flags' = Renewed \cup X /\ cleanup' = CanceledSource /\ source' = 0
      /\ UNCHANGED <<retained, transferred>>
  BY Zenon DEF ReplyBuffered
<1>3. /\ cleanup' \in [Requests -> {"none", "open"} \cup Terminal]
      /\ \A r \in Requests : cleanup'[r] # "open"
      /\ \A r \in Requests : r > next => cleanup'[r] = "none"
  <2>1. \A r \in Requests : r >= next => cleanup'[r] = "none"
    BY <1>2, SourceClosed, Zenon DEF H1Inv, CanceledSource, Terminal
  <2>2. \A r \in Requests : r > next => r >= next
    BY DEF H1Inv, TypeOK, Requests
  <2> QED BY <1>2, <2>1, <2>2, SourceClosed, Zenon DEF H1Inv, CanceledSource, Terminal
<1> HIDE DEF X
<1> QED BY <1>1, <1>2, <1>3, WholeReply, Zenon

\* The budget of an admission that is refused is spent on one last response.
LEMMA RejectAdmissionStep ==
    ASSUME H1Inv, RejectAdmission, Fixed
    PROVE  H1Inv'
<1> DEFINE X == {"close_after_write", "headers_stopped"}
<1>1. /\ X \in SUBSET {"close_after_write", "last", "headers_stopped"}
      /\ "close_after_write" \in X
  BY Zenon
<1>2. /\ NextRequest /\ outbound' = Append(outbound, Item(next, "full"))
      /\ flags' = Renewed \cup X /\ cleanup' = CanceledSource /\ source' = 0
      /\ UNCHANGED <<retained, transferred>>
  BY Zenon DEF RejectAdmission
<1>3. /\ cleanup' \in [Requests -> {"none", "open"} \cup Terminal]
      /\ \A r \in Requests : cleanup'[r] # "open"
      /\ \A r \in Requests : r > next => cleanup'[r] = "none"
  <2>1. \A r \in Requests : r >= next => cleanup'[r] = "none"
    BY <1>2, SourceClosed, Zenon DEF H1Inv, CanceledSource, Terminal
  <2>2. \A r \in Requests : r > next => r >= next
    BY DEF H1Inv, TypeOK, Requests
  <2> QED BY <1>2, <2>1, <2>2, SourceClosed DEF H1Inv, CanceledSource, Terminal
<1> HIDE DEF X
<1> QED BY <1>1, <1>2, <1>3, WholeReply, Zenon

\* HEAD tells the source it never reads that all is well.
LEMMA ReplyHeadStep ==
    ASSUME H1Inv, NEW keep \in BOOLEAN, ReplyHead(keep), Fixed
    PROVE  H1Inv'
<1> DEFINE X == IF keep THEN {} ELSE {"close_after_write", "last"}
<1>1. /\ X \in SUBSET {"close_after_write", "last", "headers_stopped"}
      /\ "headers_stopped" \notin X
  BY Zenon
<1>2. /\ NextRequest /\ outbound' = Append(outbound, Item(next, "full"))
      /\ flags' = Renewed \cup X /\ source' = 0
      /\ cleanup' = [CanceledSource EXCEPT ![next] = "ok"]
      /\ UNCHANGED <<retained, transferred>>
  BY Zenon DEF ReplyHead
<1>3. /\ cleanup' \in [Requests -> {"none", "open"} \cup Terminal]
      /\ \A r \in Requests : cleanup'[r] # "open"
      /\ \A r \in Requests : r > next => cleanup'[r] = "none"
  <2>1. /\ CanceledSource \in [Requests -> {"none", "open"} \cup Terminal]
        /\ \A r \in Requests : CanceledSource[r] # "open"
        /\ \A r \in Requests : r >= next => CanceledSource[r] = "none"
    BY SourceClosed, Zenon DEF H1Inv, CanceledSource, Terminal
  <2>2. \A r \in Requests : r > next => r >= next /\ r # next
    BY DEF H1Inv, TypeOK, Requests
  <2> HIDE DEF CanceledSource
  <2> QED BY <1>2, <2>1, <2>2, Zenon DEF Terminal
<1> HIDE DEF X
<1> QED BY <1>1, <1>2, <1>3, WholeReply, Zenon

\* A retained body pauses the parser until head and body are written.
LEMMA ReplyRetainedStep ==
    ASSUME H1Inv, NEW keep \in BOOLEAN, ReplyRetained(keep), Fixed
    PROVE  H1Inv'
<1>1. /\ Parsing /\ unread' = unread - 1 /\ next' = next + 1
      /\ \/ outbound' = Append(outbound, Item(next, "head_retained"))
         \/ outbound' = Append(outbound, Item(next, "full"))
      /\ retained' = next \/ retained' = retained
      /\ cleanup' = CanceledSource /\ source' = 0
      /\ UNCHANGED <<pc, stash, pending, wire, token, net, transferred>>
  BY Zenon DEF ReplyRetained, NextRequest
<1>2. /\ "retained_paused" \in flags' /\ "paused" \in flags'
      /\ "writing" \in flags' <=> "writing" \in flags
      /\ "receiving" \in flags' <=> "receiving" \in flags
      /\ "deferred_writing" \in flags' <=> "deferred_writing" \in flags
      /\ "headers_stopped" \in flags' <=> "headers_stopped" \in flags
  BY Zenon DEF ReplyRetained, Renewed
<1>3. outbound' \in Seq(Items) /\ outbound' # <<>>
  <2>1. Item(next, "head_retained") \in Items /\ Item(next, "full") \in Items
    BY <1>1, ParsingFacts, ItemTyped, PartsTyped DEF Requests
  <2>2. PICK x \in Items : outbound' = Append(outbound, x)
    BY <1>1, <2>1, Zenon
  <2> QED BY <2>2 DEF H1Inv, TypeOK
<1>4. TypeOK' /\ Cleanups'
  <2>1. /\ cleanup' \in [Requests -> {"none", "open"} \cup Terminal]
        /\ \A r \in Requests : cleanup'[r] # "open"
        /\ \A r \in Requests : r >= next => cleanup'[r] = "none"
    BY <1>1, SourceClosed, Zenon DEF H1Inv, CanceledSource, Terminal
  <2> QED
    BY <1>1, <1>3, <2>1, ParsingFacts, RequestsAssumption
       DEF H1Inv, TypeOK, Cleanups, Requests
<1>5. Streams' /\ Quiet' /\ ParserAlone' /\ ParserDone'
  BY <1>1, <1>2, <1>3, ParsingFacts, Zenon DEF Streams, Quiet, ParserAlone, ParserDone
<1>6. ReceiveClear' /\ Submissions' /\ Pauses' /\ Wakes'
  BY <1>1, <1>2, ParsingFacts, Zenon DEF ReceiveClear, Submissions, Pauses, Wakes
<1> QED BY <1>4, <1>5, <1>6, Zenon DEF H1Inv

\* A streamed response takes the builder's source; nothing is paused.
LEMMA ReplySourceStep ==
    ASSUME H1Inv, NEW kind \in SourceKinds, NEW keep \in BOOLEAN,
           ReplySource(kind, keep), Fixed
    PROVE  H1Inv'
<1>1. /\ Parsing /\ unread' = unread - 1 /\ next' = next + 1
      /\ \E p \in Heads : outbound' = Append(outbound, Item(next, p))
      /\ cleanup' = [CanceledSource EXCEPT ![next] = "open"]
      /\ source' = next /\ transferred' = 0
      /\ UNCHANGED <<pc, stash, pending, wire, token, net, retained>>
  BY Zenon DEF ReplySource, NextRequest, SourceKinds, Heads
<1>2. /\ "response_streaming" \in flags'
      /\ "paused" \in flags' <=> "paused" \in flags
      /\ "retained_paused" \in flags' <=> "retained_paused" \in flags
      /\ "writing" \in flags' <=> "writing" \in flags
      /\ "receiving" \in flags' <=> "receiving" \in flags
      /\ "deferred_writing" \in flags' <=> "deferred_writing" \in flags
      /\ "headers_stopped" \in flags' <=> "headers_stopped" \in flags
  BY Zenon DEF ReplySource, Renewed, SourceKinds
<1>3. outbound' \in Seq(Items) /\ outbound' # <<>>
  <2>1. PICK p \in Heads : outbound' = Append(outbound, Item(next, p))
    BY <1>1, Zenon
  <2>2. Item(next, p) \in Items
    BY <1>1, ParsingFacts, ItemTyped DEF Requests, Heads, Parts
  <2> QED BY <2>1, <2>2 DEF H1Inv, TypeOK
<1>4. TypeOK' /\ Cleanups'
  <2>1. /\ CanceledSource \in [Requests -> {"none", "open"} \cup Terminal]
        /\ \A r \in Requests : CanceledSource[r] # "open"
        /\ \A r \in Requests : r >= next => CanceledSource[r] = "none"
    BY SourceClosed, Zenon DEF H1Inv, CanceledSource, Terminal
  <2> HIDE DEF CanceledSource
  <2>2. /\ cleanup' \in [Requests -> {"none", "open"} \cup Terminal]
        /\ \A r \in Requests : cleanup'[r] = "open" <=> r = next
        /\ \A r \in Requests : r # next => cleanup'[r] = CanceledSource[r]
    BY <1>1, <2>1, ParsingFacts, Zenon
  <2>3. TypeOK'
    BY <1>1, <1>3, <2>2, ParsingFacts, RequestsAssumption DEF H1Inv, TypeOK, Requests
  <2>4. Cleanups'
    BY <1>1, <2>1, <2>2, ParsingFacts DEF H1Inv, TypeOK, Cleanups, Requests
  <2> QED BY <2>3, <2>4, Zenon
<1>5. Streams' /\ Quiet' /\ ParserAlone' /\ ParserDone'
  BY <1>1, <1>2, <1>3, ParsingFacts, Zenon DEF Streams, Quiet, ParserAlone, ParserDone
<1>6. ReceiveClear' /\ Submissions' /\ Pauses' /\ Wakes'
  BY <1>1, <1>2, ParsingFacts, Zenon DEF ReceiveClear, Submissions, Pauses, Wakes
<1> QED BY <1>4, <1>5, <1>6, Zenon DEF H1Inv

\* A deferred request pauses the parser and leaves the connection its token.
LEMMA DeferStep ==
    ASSUME H1Inv, NEW keep \in BOOLEAN, Defer(keep), Fixed
    PROVE  H1Inv'
<1>1. /\ Parsing /\ unread' = unread - 1 /\ next' = next + 1
      /\ token' = "pending" /\ cleanup' = CanceledSource /\ source' = 0
      /\ UNCHANGED <<pc, stash, pending, outbound, retained, wire, transferred, net>>
  BY Zenon DEF Defer
<1>2. /\ "paused" \in flags'
      /\ "retained_paused" \in flags' <=> "retained_paused" \in flags
      /\ "writing" \in flags' <=> "writing" \in flags
      /\ "receiving" \in flags' <=> "receiving" \in flags
      /\ "deferred_writing" \in flags' <=> "deferred_writing" \in flags
      /\ "headers_stopped" \in flags' <=> "headers_stopped" \in flags
      /\ "response_streaming" \in flags' <=> "response_streaming" \in flags
      /\ "close_after_write" \in flags' <=> "close_after_write" \in flags
  BY Zenon DEF Defer, Renewed
<1>3. TypeOK' /\ Cleanups'
  <2>1. /\ cleanup' \in [Requests -> {"none", "open"} \cup Terminal]
        /\ \A r \in Requests : cleanup'[r] # "open"
        /\ \A r \in Requests : r >= next => cleanup'[r] = "none"
    BY <1>1, SourceClosed, Zenon DEF H1Inv, CanceledSource, Terminal
  <2> QED
    BY <1>1, <2>1, ParsingFacts, RequestsAssumption
       DEF H1Inv, TypeOK, Cleanups, Requests
<1>4. Streams' /\ Quiet' /\ ParserAlone' /\ ParserDone'
  BY <1>1, <1>2, ParsingFacts, Zenon DEF H1Inv, Streams, Quiet, ParserAlone, ParserDone
<1>5. ReceiveClear' /\ Submissions' /\ Pauses' /\ Wakes'
  BY <1>1, <1>2, ParsingFacts, Zenon DEF ReceiveClear, Submissions, Pauses, Wakes
<1> QED BY <1>3, <1>4, <1>5, Zenon DEF H1Inv

\* The error response of h1_input is one more item.
LEMMA ErrorAppended ==
    ASSUME TypeOK
    PROVE  /\ Append(outbound, Item(0, "error")) \in Seq(Items)
           /\ Append(outbound, Item(0, "error")) # <<>>
<1> DEFINE x == Item(0, "error")
<1>1. x \in Items
  BY ItemTyped, PartsTyped, RequestsAssumption
<1> HIDE DEF x
<1>2. Append(outbound, x) \in Seq(Items) /\ Append(outbound, x) # <<>>
  BY <1>1 DEF TypeOK
<1> QED BY <1>2, Zenon DEF x

\* The end of the input with an error closes the connection, sends what there
\* is with the close behind it, or, without the budget for an error response or
\* with a deferred response to come, does no more than mark it.
LEMMA InputFailedCases ==
    ASSUME H1Inv, pc = "parse", NEW f, f = flags \/ f = Renewed, InputFailed(f)
    PROVE  \E g :
             /\ g = (f \ {"resumed"}) \cup {"close_after_write"}
             /\ \/ Retry("close", g) /\ outbound' = outbound
                \/ /\ Retry("send", g) /\ token = "idle" /\ outbound' # <<>>
                   /\ outbound' = outbound \/ outbound' = Append(outbound, Item(0, "error"))
                \/ /\ flags' = g /\ pending' = pending /\ (tight \/ token # "idle")
                   /\ outbound' = outbound \/ outbound' = Append(outbound, Item(0, "error"))
<1> DEFINE g == (f \ {"resumed"}) \cup {"close_after_write"}
           e == Append(outbound, Item(0, "error"))
<1>1. pending = "none" /\ "writing" \notin flags
  BY Zenon DEF H1Inv, ParserAlone
<1>2. "writing" \notin g /\ "close_after_write" \in g
  BY <1>1, Zenon DEF Renewed
<1>3. ("resumed" \notin f) => f \cup {"close_after_write"} = g
  BY Zenon
<1>4. e # <<>>
  BY ErrorAppended, Zenon DEF H1Inv
<1> HIDE DEF g, e
<1>5. \/ Close(pending, f \ {"resumed"}) /\ outbound' = outbound
      \/ Close("close", f) /\ "resumed" \notin f /\ outbound' = outbound
      \/ /\ SendPending(f \cup {"close_after_write"}, outbound', token)
         /\ "resumed" \notin f /\ (outbound' = e \/ (tight /\ outbound' = outbound))
  BY Zenon DEF InputFailed, e
<1>6. CASE Close(pending, f \ {"resumed"}) /\ outbound' = outbound
  <2>1. Retry("close", g)
    BY <1>1, <1>6, CloseCases, Zenon DEF g
  <2> QED BY <1>6, <2>1, Zenon DEF g
<1>7. CASE Close("close", f) /\ "resumed" \notin f /\ outbound' = outbound
  <2>1. Retry("close", g)
    <3>1. Retry("close", f \cup {"close_after_write"})
      BY <1>7, Zenon DEF Close
    <3> QED BY <1>3, <1>7, <3>1, Zenon
  <2> QED BY <1>7, <2>1, Zenon DEF g
<1>8. CASE /\ SendPending(f \cup {"close_after_write"}, outbound', token)
           /\ "resumed" \notin f /\ (outbound' = e \/ (tight /\ outbound' = outbound))
  <2>1. SendPending(g, outbound', token)
    BY <1>3, <1>8, Zenon
  <2>2. \/ token = "idle" /\ outbound' # <<>> /\ Retry("send", g)
        \/ /\ flags' = g /\ pending' = pending
           /\ token # "idle" \/ outbound' = <<>>
    BY <1>2, <2>1, Zenon DEF SendPending, Receive
  <2> QED BY <1>4, <1>8, <2>2, Zenon DEF g, e
<1> QED BY <1>5, <1>6, <1>7, <1>8, Zenon

\* Input that fails leaves a connection that is to close.
LEMMA InputFailedStep ==
    ASSUME H1Inv, Fixed, pc = "parse", NEW f, f = flags \/ f = Renewed,
           InputFailed(f), UNCHANGED <<stash, next, retained, wire, transferred, token, net>>,
           \/ cleanup' = cleanup /\ source' = source
           \/ cleanup' = CanceledSource /\ source' = 0
    PROVE  H1Inv'
<1>1. PICK g :
        /\ g = (f \ {"resumed"}) \cup {"close_after_write"}
        /\ \/ Retry("close", g) /\ outbound' = outbound
           \/ /\ Retry("send", g) /\ token = "idle" /\ outbound' # <<>>
              /\ outbound' = outbound \/ outbound' = Append(outbound, Item(0, "error"))
           \/ /\ flags' = g /\ pending' = pending /\ (tight \/ token # "idle")
              /\ outbound' = outbound \/ outbound' = Append(outbound, Item(0, "error"))
  BY InputFailedCases, Zenon
<1>2. /\ "resumed" \notin g /\ "close_after_write" \in g
      /\ "paused" \in g <=> "paused" \in flags
      /\ "retained_paused" \in g <=> "retained_paused" \in flags
      /\ "writing" \in g <=> "writing" \in flags
      /\ "receiving" \in g <=> "receiving" \in flags
      /\ "deferred_writing" \in g <=> "deferred_writing" \in flags
      /\ "headers_stopped" \in g <=> "headers_stopped" \in flags
      /\ "response_streaming" \in g <=> "response_streaming" \in flags
  BY <1>1, Zenon DEF Renewed
<1>3. /\ pending = "none" /\ "writing" \notin flags /\ "receiving" \notin flags
      /\ "deferred_writing" \notin flags /\ net = "open"
  BY Zenon DEF H1Inv, ParserAlone
<1>4. pc' = "idle" /\ unread' = 0
  BY Zenon DEF InputFailed
<1>5. TypeOK'
  <2>1. outbound' \in Seq(Items)
    <3>1. outbound' = outbound \/ outbound' = Append(outbound, Item(0, "error"))
      BY <1>1, Zenon
    <3> QED BY <3>1, ErrorAppended, Zenon DEF H1Inv, TypeOK
  <2>2. pending' \in {"none", "send", "receive", "close"}
    BY <1>1, <1>3, RetryCases, Zenon
  <2>3. CanceledSource \in [Requests -> {"none", "open"} \cup Terminal]
    BY SourceClosed, Zenon DEF H1Inv, CanceledSource, Terminal
  <2> HIDE DEF CanceledSource
  <2> QED BY <1>4, <2>1, <2>2, <2>3, RequestsAssumption DEF H1Inv, TypeOK
<1>6. Cleanups'
  <2>1. /\ \A r \in Requests : CanceledSource[r] # "open"
        /\ \A r \in Requests : r >= next => CanceledSource[r] = "none"
    BY SourceClosed, Zenon DEF H1Inv, CanceledSource, Terminal
  <2> HIDE DEF CanceledSource
  <2>2. CASE cleanup' = cleanup /\ source' = source
    BY <2>2, Zenon DEF H1Inv, Cleanups
  <2>3. CASE cleanup' = CanceledSource /\ source' = 0
    BY <2>1, <2>3, RequestsAssumption DEF H1Inv, TypeOK, Cleanups, Requests
  <2> QED BY <2>2, <2>3, Zenon
<1>7. Streams' /\ Quiet' /\ ParserAlone' /\ ParserDone'
  BY <1>1, <1>2, <1>3, <1>4, RetryCases
     DEF H1Inv, Streams, Quiet, ParserAlone, ParserDone
<1>8. ReceiveClear' /\ Submissions'
  BY <1>1, <1>2, <1>3, <1>4, RetryCases DEF ReceiveClear, Submissions
<1>9. Pauses'
  BY <1>1, <1>2, <1>3, <1>4, RetryCases DEF H1Inv, Pauses
<1>10. Wakes'
  BY <1>1, <1>2, <1>3, <1>4, RetryCases, Zenon DEF Wakes, Fixed
<1> QED BY <1>5, <1>6, <1>7, <1>8, <1>9, <1>10, Zenon DEF H1Inv

\* A malformed head fails before the request is begun.
LEMMA HeadFailsStep ==
    ASSUME H1Inv, HeadFails, Fixed
    PROVE  H1Inv'
BY InputFailedStep, Zenon DEF HeadFails

\* A request that fails behind its head gives up the source it replaces.
LEMMA RequestFailsStep ==
    ASSUME H1Inv, RequestFails, Fixed
    PROVE  H1Inv'
<1>1. pc = "parse"
  BY Zenon DEF RequestFails, Parsing
<1>2. next' = next
  BY Zenon DEF RequestFails
<1> QED BY <1>1, <1>2, InputFailedStep, Zenon DEF RequestFails

\* No budget for what a paused parser left over.
LEMMA StashFailsStep ==
    ASSUME H1Inv, StashFails, Fixed
    PROVE  H1Inv'
BY InputFailedStep, Zenon DEF StashFails

\* A chain that fails behind a deferral closes; the token is still live.
LEMMA DeferThenFailStep ==
    ASSUME H1Inv, DeferThenFail, Fixed
    PROVE  H1Inv'
<1> DEFINE f == (flags \ {"resumed", "partial"}) \cup {"builder_deferred"}
           g == f \cup {"close_after_write"}
<1>1. /\ Parsing /\ next' = next + 1 /\ token' = "pending"
      /\ cleanup' = CanceledSource /\ source' = 0 /\ pc' = "idle" /\ unread' = 0
      /\ UNCHANGED <<stash, outbound, retained, wire, transferred, net>>
  BY Zenon DEF DeferThenFail
<1>2. Retry("close", g)
  <2>1. pending # "send"
    BY <1>1, ParsingFacts, Zenon
  <2> QED BY <2>1, Zenon DEF DeferThenFail, Close
<1>3. /\ "resumed" \notin g /\ "close_after_write" \in g
      /\ "retained_paused" \in g <=> "retained_paused" \in flags
      /\ "writing" \in g <=> "writing" \in flags
      /\ "receiving" \in g <=> "receiving" \in flags
      /\ "deferred_writing" \in g <=> "deferred_writing" \in flags
      /\ "response_streaming" \in g <=> "response_streaming" \in flags
  BY Zenon
<1> HIDE DEF f, g
<1>4. TypeOK' /\ Cleanups'
  <2>1. /\ cleanup' \in [Requests -> {"none", "open"} \cup Terminal]
        /\ \A r \in Requests : cleanup'[r] # "open"
        /\ \A r \in Requests : r >= next => cleanup'[r] = "none"
    BY <1>1, SourceClosed, Zenon DEF H1Inv, CanceledSource, Terminal
  <2>2. pending' \in {"none", "send", "receive", "close"}
    BY <1>2, RetryCases, Zenon
  <2> QED
    BY <1>1, <2>1, <2>2, ParsingFacts, RequestsAssumption
       DEF H1Inv, TypeOK, Cleanups, Requests
<1>5. Streams' /\ Quiet' /\ ParserAlone' /\ ParserDone'
  BY <1>1, <1>2, <1>3, ParsingFacts, RetryCases
     DEF Streams, Quiet, ParserAlone, ParserDone
<1>6. ReceiveClear' /\ Submissions' /\ Pauses' /\ Wakes'
  BY <1>1, <1>2, <1>3, ParsingFacts, RetryCases
     DEF ReceiveClear, Submissions, Pauses, Wakes
<1> QED BY <1>4, <1>5, <1>6, Zenon DEF H1Inv

\* The end of the input without an error.
LEMMA InputConsumedStep ==
    ASSUME H1Inv, NEW more \in BOOLEAN, InputConsumed(more), Fixed
    PROVE  H1Inv'
<1> DEFINE f == (flags \ {"resumed"}) \cup (IF more THEN {"partial"} ELSE {})
<1>1. /\ pc = "parse" /\ pc' = "idle" /\ unread' = 0
      /\ unread = 0 \/ "paused" \in flags \/ "headers_stopped" \in flags
      /\ stash' = IF "close_after_write" \in flags THEN stash ELSE unread
      /\ UNCHANGED <<next, outbound, retained, wire, source, transferred,
                     cleanup, token, net>>
  BY Zenon DEF InputConsumed
<1>2. AfterSend(f, outbound) \/ SendPending(f, outbound, token)
  BY Zenon DEF InputConsumed
<1>3. /\ "resumed" \notin f
      /\ "paused" \in f <=> "paused" \in flags
      /\ "retained_paused" \in f <=> "retained_paused" \in flags
      /\ "writing" \in f <=> "writing" \in flags
      /\ "receiving" \in f <=> "receiving" \in flags
      /\ "deferred_writing" \in f <=> "deferred_writing" \in flags
      /\ "headers_stopped" \in f <=> "headers_stopped" \in flags
      /\ "response_streaming" \in f <=> "response_streaming" \in flags
      /\ "close_after_write" \in f <=> "close_after_write" \in flags
  BY Zenon
<1> HIDE DEF f
<1>4. /\ pending = "none" /\ stash = 0 /\ net = "open"
      /\ "writing" \notin flags /\ "receiving" \notin flags
      /\ "deferred_writing" \notin flags
      /\ "response_streaming" \in flags \/ "close_after_write" \in flags
           \/ "retained_paused" \in flags => outbound # <<>>
  BY <1>1, Zenon DEF H1Inv, ParserAlone
<1>5. \/ token = "idle" /\ outbound # <<>> /\ Retry("send", f)
      \/ /\ token = "idle" /\ outbound = <<>> /\ "close_after_write" \notin f
         /\ Retry("receive", f)
      \/ token # "idle" /\ flags' = f /\ pending' = pending
  BY <1>2, <1>3, <1>4, Zenon DEF AfterSend, SendPending, Receive
<1>6. TypeOK' /\ Cleanups'
  <2>1. pending' \in {"none", "send", "receive", "close"}
    BY <1>4, <1>5, RetryCases, Zenon
  <2>2. stash' \in Nat /\ next + 0 + stash' <= MaxRequests + 1
    BY <1>1, <1>4, RequestsAssumption DEF H1Inv, TypeOK
  <2> QED BY <1>1, <2>1, <2>2, Zenon DEF H1Inv, TypeOK, Cleanups
<1>7. stash' # 0 => "paused" \in flags /\ "close_after_write" \notin flags
  BY <1>1, <1>4, Zenon DEF H1Inv, Pauses
<1>8. Streams' /\ Quiet' /\ ParserAlone' /\ ParserDone'
  BY <1>1, <1>3, <1>4, <1>5, <1>7, RetryCases
     DEF H1Inv, Streams, Quiet, ParserAlone, ParserDone
<1>9. ReceiveClear' /\ Submissions'
  <2>1. outbound = <<>> /\ token = "idle" =>
          "paused" \notin flags /\ retained = 0 /\ "retained_paused" \notin flags
    BY <1>1, <1>4, Zenon DEF H1Inv, Pauses
  <2> QED
    BY <1>1, <1>3, <1>4, <1>5, <1>7, <2>1, RetryCases DEF ReceiveClear, Submissions
<1>10. Pauses'
  BY <1>1, <1>3, <1>4, <1>5, <1>7, RetryCases DEF H1Inv, Pauses
<1>11. Wakes'
  BY <1>1, <1>3, <1>4, <1>5, RetryCases DEF Wakes
<1> QED BY <1>6, <1>8, <1>9, <1>10, <1>11, Zenon DEF H1Inv

-----------------------------------------------------------------------------
(* The streamed response: on_send and h1_file_ready.                       *)

\* Where stream_next is called: in the owner's callback, with no write in
\* flight, for a connection that streams.
Streaming(f) ==
    /\ net = "open" /\ pc = "idle" /\ token = "idle" /\ "response_streaming" \in flags
    /\ f = SentFlags \/ (f = flags /\ "writing" \notin flags /\ source # 0)
    /\ retained' = 0 /\ wire' \in Seq(Items)
    /\ UNCHANGED <<next, token, net, pc, unread, stash>>

\* What the flags of such a connection are like.
LEMMA StreamingFacts ==
    ASSUME H1Inv, NEW f, Streaming(f)
    PROVE  /\ "writing" \notin f /\ "receiving" \notin f /\ "resumed" \notin f
           /\ "deferred_writing" \notin f /\ "retained_paused" \notin f
           /\ pending # "receive" /\ unread = 0
           /\ source # 0 => /\ stash = 0 /\ "paused" \notin f
                            /\ "headers_stopped" \notin f
<1>1. /\ "receiving" \notin flags /\ pending # "receive"
      /\ "resumed" \notin flags /\ unread = 0
  BY Zenon DEF H1Inv, Streaming, ReceiveClear, ParserDone
<1>2. source # 0 => /\ "paused" \notin flags /\ "headers_stopped" \notin flags
                    /\ "deferred_writing" \notin flags
                    /\ "retained_paused" \notin flags /\ stash = 0
  BY Zenon DEF H1Inv, Streams
<1>3. \A x \in f : x \in flags
  BY Zenon DEF Streaming, SentFlags
<1>4. "writing" \notin f
  BY Zenon DEF Streaming, SentFlags
<1>5. "deferred_writing" \notin f /\ "retained_paused" \notin f
  BY <1>2, Zenon DEF Streaming, SentFlags
<1> QED BY <1>1, <1>2, <1>3, <1>4, <1>5, Zenon

\* One more item of the body is sent.
LEMMA StreamChunk ==
    ASSUME H1Inv, Fixed, NEW f, Streaming(f), source # 0, StreamNext("chunk", f)
    PROVE  H1Inv'
<1>1. /\ outbound' # <<>> /\ transferred' = transferred + 1
      /\ cleanup' = cleanup /\ source' = source /\ AfterSend(f, outbound')
  BY DEF StreamNext
<1>2. Retry("send", f) /\ "response_streaming" \in f
  <2>1. "response_streaming" \in f
    BY Zenon DEF Streaming, SentFlags
  <2> QED BY <1>1, <2>1, StreamingFacts, Zenon DEF AfterSend, SendPending, Streaming
<1>3. TypeOK'
  <2>1. outbound' \in Seq(Items)
    BY StreamNextTyped, Zenon DEF H1Inv
  <2>2. pending' \in {"none", "send", "receive", "close"}
    BY <1>2, RetryCases, Zenon
  <2> QED BY <1>1, <2>1, <2>2, RequestsAssumption DEF H1Inv, TypeOK, Streaming
<1>4. Cleanups'
  BY <1>1, Zenon DEF H1Inv, Cleanups, Streaming
<1>5. Streams' /\ Quiet' /\ ParserAlone' /\ ParserDone'
  BY <1>1, <1>2, StreamingFacts, RetryCases
     DEF Streams, Quiet, ParserAlone, ParserDone, Streaming
<1>6. ReceiveClear' /\ Submissions' /\ Pauses' /\ Wakes'
  BY <1>1, <1>2, StreamingFacts, RetryCases
     DEF ReceiveClear, Submissions, Pauses, Wakes, Streaming
<1> QED BY <1>3, <1>4, <1>5, <1>6, Zenon DEF H1Inv

\* builder_close_source leaves the ownership of sources in order.
LEMMA CloseSourceOwned ==
    ASSUME H1Inv, NEW status \in Terminal, CloseSource(status), next' = next
    PROVE  /\ Cleanups'
           /\ cleanup' \in [Requests -> {"none", "open"} \cup Terminal]
           /\ source' = 0
<1>1. /\ cleanup' \in [Requests -> {"none", "open"} \cup Terminal]
      /\ \A r \in Requests : cleanup'[r] # "open"
      /\ \A r \in Requests : r >= next => cleanup'[r] = "none"
  BY SourceClosed, Zenon DEF H1Inv, CloseSource
<1>2. source' = 0
  BY Zenon DEF CloseSource
<1> QED BY <1>1, <1>2, RequestsAssumption DEF H1Inv, TypeOK, Cleanups, Requests

\* The body ends: its last item is sent, the next request is awaited, or the
\* connection closes because nothing else delimits the body.
LEMMA StreamEof ==
    ASSUME H1Inv, Fixed, NEW f, Streaming(f), source # 0, StreamNext("eof", f)
    PROVE  H1Inv'
<1> DEFINE k == f \ {"response_streaming", "close_after_write"}
           g == IF "close_after_stream" \in f THEN k \cup {"close_after_write"} ELSE k
<1>1. CloseSource("ok") /\ AfterSend(g, outbound') /\ transferred' = transferred
  BY Zenon DEF StreamNext
<1>2. /\ "writing" \notin g /\ "receiving" \notin g /\ "resumed" \notin g
      /\ "deferred_writing" \notin g /\ "retained_paused" \notin g
      /\ "paused" \notin g /\ "headers_stopped" \notin g /\ "response_streaming" \notin g
  BY StreamingFacts, Zenon
<1> HIDE DEF k, g
<1>3. \/ outbound' # <<>> /\ Retry("send", g)
      \/ "close_after_write" \in g /\ (Retry("send", g) \/ Retry("close", g))
      \/ outbound' = <<>> /\ "close_after_write" \notin g /\ Retry("receive", g)
  <2>1. "close_after_write" \in g => g \cup {"close_after_write"} = g
    BY Zenon
  <2>2. \/ outbound' # <<>> /\ Retry("send", g)
        \/ "close_after_write" \in g /\ Close(pending, g)
        \/ outbound' = <<>> /\ "close_after_write" \notin g /\ Retry("receive", g)
    BY <1>1, <1>2, Zenon DEF AfterSend, SendPending, Receive, Streaming
  <2>3. Close(pending, g) /\ "close_after_write" \in g => Retry("send", g) \/ Retry("close", g)
    BY <2>1, CloseCases, Zenon
  <2> QED BY <2>2, <2>3, Zenon
<1>4. Cleanups' /\ source' = 0 /\ cleanup' \in [Requests -> {"none", "open"} \cup Terminal]
  BY <1>1, CloseSourceOwned, Zenon DEF Terminal, Streaming
<1>5. TypeOK'
  <2>1. outbound' \in Seq(Items)
    BY StreamNextTyped, Zenon DEF H1Inv
  <2>2. pending' \in {"none", "send", "receive", "close"}
    BY <1>3, RetryCases, Zenon
  <2> QED BY <1>1, <1>4, <2>1, <2>2, RequestsAssumption DEF H1Inv, TypeOK, Streaming
<1>6. Streams' /\ Quiet' /\ ParserAlone' /\ ParserDone'
  BY <1>2, <1>3, <1>4, StreamingFacts, RetryCases
     DEF Streams, Quiet, ParserAlone, ParserDone, Streaming
<1>7. ReceiveClear' /\ Submissions'
  BY <1>2, <1>3, StreamingFacts, RetryCases DEF ReceiveClear, Submissions, Streaming
<1>8. Pauses' /\ Wakes'
  BY <1>2, <1>3, StreamingFacts, RetryCases DEF Pauses, Wakes, Streaming
<1> QED BY <1>4, <1>5, <1>6, <1>7, <1>8, Zenon DEF H1Inv

\* A source that fails, or that a later request took away, closes.
LEMMA StreamFailed ==
    ASSUME H1Inv, Fixed, NEW f, Streaming(f), StreamNext("failed", f)
    PROVE  H1Inv'
<1> DEFINE g == (f \ {"response_streaming"}) \cup {"close_after_write"}
<1>1. /\ CloseSource("failed") /\ outbound' = <<>> /\ transferred' = transferred
      /\ Close(pending, f \ {"response_streaming"})
  BY Zenon DEF StreamNext
<1>2. /\ "writing" \notin g /\ "receiving" \notin g /\ "resumed" \notin g
      /\ "deferred_writing" \notin g /\ "retained_paused" \notin g
      /\ "close_after_write" \in g
  BY StreamingFacts, Zenon
<1> HIDE DEF g
<1>3. Retry("send", g) \/ Retry("close", g)
  BY <1>1, CloseCases, Zenon DEF g
<1>4. Cleanups' /\ source' = 0 /\ cleanup' \in [Requests -> {"none", "open"} \cup Terminal]
  BY <1>1, CloseSourceOwned, Zenon DEF Terminal, Streaming
<1>5. TypeOK'
  <2>1. pending' \in {"none", "send", "receive", "close"}
    BY <1>3, RetryCases, Zenon
  <2> QED BY <1>1, <1>4, <2>1, RequestsAssumption DEF H1Inv, TypeOK, Streaming
<1>6. Streams' /\ Quiet' /\ ParserAlone' /\ ParserDone'
  BY <1>2, <1>3, <1>4, StreamingFacts, RetryCases
     DEF Streams, Quiet, ParserAlone, ParserDone, Streaming
<1>7. ReceiveClear' /\ Submissions'
  BY <1>2, <1>3, StreamingFacts, RetryCases DEF ReceiveClear, Submissions, Streaming
<1>8. Pauses' /\ Wakes'
  BY <1>2, <1>3, StreamingFacts, RetryCases DEF Pauses, Wakes, Streaming
<1> QED BY <1>4, <1>5, <1>6, <1>7, <1>8, Zenon DEF H1Inv

\* A completed write that streams on.
LEMMA SentStreamStep ==
    ASSUME H1Inv, Fixed, NEW result \in StreamResults, SentStream(result)
    PROVE  H1Inv'
<1>1. token = "idle"
  BY Zenon DEF H1Inv, Pauses, SentStream, Sent
<1>2. Streaming(SentFlags)
  BY <1>1, WrittenTyped, Zenon DEF H1Inv, Streaming, SentStream, Sent
<1>3. \/ result = "failed"
      \/ source # 0 /\ (result = "chunk" \/ result = "eof")
  BY Zenon DEF StreamResults
<1>4. StreamNext(result, SentFlags)
  BY Zenon DEF SentStream
<1> QED BY <1>2, <1>3, <1>4, StreamChunk, StreamEof, StreamFailed, Zenon

\* The file transfer a response waited for has data, an end or an error.
LEMMA FileReadyStep ==
    ASSUME H1Inv, FileReady, Fixed
    PROVE  H1Inv'
<1>1. PICK result \in StreamResults : StreamNext(result, flags)
  BY Zenon DEF FileReady
<1>2. source # 0 /\ retained = 0 /\ token = "idle" /\ wire \in Seq(Items)
  BY Zenon DEF H1Inv, TypeOK, Streams, FileReady
<1>3. Streaming(flags)
  BY <1>2, Zenon DEF FileReady, Streaming
<1>4. result = "failed" \/ result = "chunk" \/ result = "eof"
  BY Zenon DEF StreamResults
<1> QED BY <1>1, <1>2, <1>3, <1>4, StreamChunk, StreamEof, StreamFailed, Zenon

-----------------------------------------------------------------------------
(* on_send without a stream to continue.                                   *)

\* A response waits for its file: nothing is submitted, the source is owned.
LEMMA SentWaitsStep ==
    ASSUME H1Inv, SentWaits, Fixed
    PROVE  H1Inv'
<1>1. /\ net = "open" /\ pc = "idle" /\ "writing" \in flags /\ source # 0
      /\ "response_streaming" \in flags /\ retained' = 0 /\ wire' = Written
      /\ outbound' = <<>> /\ flags' = SentFlags
      /\ UNCHANGED <<next, token, net, pc, unread, stash, source, transferred,
                     cleanup, pending>>
  BY Zenon DEF SentWaits, Sent
<1>2. TypeOK' /\ Cleanups'
  BY <1>1, WrittenTyped, RequestsAssumption DEF H1Inv, TypeOK, Cleanups
<1>3. Streams' /\ Quiet' /\ ParserAlone' /\ ParserDone'
  BY <1>1, Zenon DEF H1Inv, Streams, Quiet, ParserAlone, ParserDone, SentFlags
<1>4. ReceiveClear' /\ Submissions'
  BY <1>1, Zenon DEF H1Inv, ReceiveClear, Submissions, SentFlags
<1>5. Pauses' /\ Wakes'
  BY <1>1, Zenon DEF H1Inv, Streams, Submissions, Pauses, Wakes, SentFlags
<1> QED BY <1>2, <1>3, <1>4, <1>5, Zenon DEF H1Inv

\* What the paused parser left over is parsed once the response is written.
LEMMA SentResumesStep ==
    ASSUME H1Inv, SentResumes, Fixed
    PROVE  H1Inv'
<1>1. /\ net = "open" /\ pc = "idle" /\ "writing" \in flags
      /\ "response_streaming" \notin flags /\ "close_after_write" \notin flags
      /\ retained' = 0 /\ wire' = Written /\ outbound' = <<>>
      /\ pc' = "parse" /\ unread' = stash /\ stash' = 0
      /\ UNCHANGED <<next, token, net, source, transferred, cleanup, pending>>
  BY Zenon DEF SentResumes, Sent
<1>2. /\ token = "idle" /\ pending = "none" /\ source = 0
      /\ "receiving" \notin flags /\ "headers_stopped" \notin flags /\ unread = 0
  BY <1>1, Zenon DEF H1Inv, Pauses, Submissions, Streams, ReceiveClear, ParserDone
<1>3. /\ "writing" \notin flags' /\ "receiving" \notin flags'
      /\ "deferred_writing" \notin flags' /\ "retained_paused" \notin flags'
      /\ "response_streaming" \notin flags' /\ "close_after_write" \notin flags'
      /\ "paused" \notin flags' /\ "headers_stopped" \notin flags'
  BY <1>1, <1>2, Zenon DEF SentResumes, SentFlags
<1>4. TypeOK' /\ Cleanups'
  BY <1>1, <1>2, WrittenTyped, RequestsAssumption DEF H1Inv, TypeOK, Cleanups
<1>5. Streams' /\ Quiet' /\ ParserAlone' /\ ParserDone'
  BY <1>1, <1>2, <1>3, Zenon DEF Streams, Quiet, ParserAlone, ParserDone
<1>6. ReceiveClear' /\ Submissions' /\ Pauses' /\ Wakes'
  BY <1>1, <1>2, <1>3, Zenon DEF ReceiveClear, Submissions, Pauses, Wakes
<1> QED BY <1>4, <1>5, <1>6, Zenon DEF H1Inv

\* The exchange is over: the connection closes or awaits the next request.
LEMMA SentPlainStep ==
    ASSUME H1Inv, SentPlain, Fixed
    PROVE  H1Inv'
<1>1. /\ net = "open" /\ pc = "idle" /\ "writing" \in flags
      /\ "response_streaming" \notin flags
      /\ \/ "close_after_write" \in flags
         \/ "deferred_writing" \notin flags /\ "retained_paused" \notin flags
      /\ retained' = 0 /\ wire' = Written /\ outbound' = <<>>
      /\ UNCHANGED <<pc, unread, stash, next, token, net, source, transferred, cleanup>>
  BY Zenon DEF SentPlain, Sent
<1>2. /\ token = "idle" /\ source = 0 /\ pending # "send" /\ "receiving" \notin flags
      /\ unread = 0 /\ "resumed" \notin flags
      /\ "close_after_write" \notin flags =>
           stash = 0 /\ "paused" \notin flags /\ "headers_stopped" \notin flags
  BY <1>1, Zenon DEF H1Inv, Pauses, Submissions, Streams, ReceiveClear, ParserDone
<1>3. /\ "writing" \notin SentFlags /\ "receiving" \notin SentFlags
      /\ "deferred_writing" \notin SentFlags /\ "retained_paused" \notin SentFlags
      /\ "response_streaming" \notin SentFlags /\ "resumed" \notin SentFlags
      /\ "close_after_write" \in SentFlags <=> "close_after_write" \in flags
      /\ "paused" \in SentFlags <=> "paused" \in flags
      /\ "headers_stopped" \in SentFlags <=> "headers_stopped" \in flags
  BY <1>1, <1>2, Zenon DEF SentFlags
<1>4. \/ "close_after_write" \in SentFlags /\ Retry("close", SentFlags)
      \/ "close_after_write" \notin SentFlags /\ Retry("receive", SentFlags)
  <2>1. "close_after_write" \in SentFlags =>
          SentFlags \cup {"close_after_write"} = SentFlags
    BY Zenon
  <2>2. \/ "close_after_write" \in SentFlags /\ Close(pending, SentFlags)
        \/ "close_after_write" \notin SentFlags /\ Retry("receive", SentFlags)
    BY <1>2, <1>3, AfterSendCases, Zenon DEF SentPlain
  <2> QED BY <1>2, <2>1, <2>2, CloseCases, Zenon
<1>5. TypeOK' /\ Cleanups'
  <2>1. pending' \in {"none", "send", "receive", "close"}
    BY <1>4, RetryCases, Zenon
  <2> QED BY <1>1, <2>1, WrittenTyped, RequestsAssumption DEF H1Inv, TypeOK, Cleanups
<1>6. Streams' /\ Quiet' /\ ParserAlone' /\ ParserDone'
  BY <1>1, <1>2, <1>3, <1>4, RetryCases DEF Streams, Quiet, ParserAlone, ParserDone
<1>7. ReceiveClear' /\ Submissions' /\ Pauses' /\ Wakes'
  BY <1>1, <1>2, <1>3, <1>4, RetryCases DEF ReceiveClear, Submissions, Pauses, Wakes
<1> QED BY <1>5, <1>6, <1>7, Zenon DEF H1Inv

-----------------------------------------------------------------------------
(* The deferred response, deadlines and shutdown.                          *)

\* A worker settles the token; the connection is not touched.
LEMMA WorkerSettlesStep ==
    ASSUME H1Inv, NEW state \in {"ready", "canceled"}, WorkerSettles(state), Fixed
    PROVE  H1Inv'
<1>1. /\ token = "pending" /\ token' # "idle"
      /\ token' \in {"idle", "pending", "ready", "canceled"}
      /\ UNCHANGED <<pc, unread, stash, next, flags, pending, outbound, retained,
                     wire, source, transferred, cleanup, net>>
  BY Zenon DEF WorkerSettles
<1>2. TypeOK' /\ Cleanups'
  BY <1>1, Zenon DEF H1Inv, TypeOK, Cleanups
<1>3. Streams' /\ Quiet' /\ ParserAlone' /\ ParserDone'
  BY <1>1, Zenon DEF H1Inv, Streams, Quiet, ParserAlone, ParserDone
<1>4. ReceiveClear' /\ Submissions' /\ Pauses' /\ Wakes'
  BY <1>1, Zenon DEF H1Inv, ReceiveClear, Submissions, Pauses, Wakes, Fixed
<1> QED BY <1>2, <1>3, <1>4, Zenon DEF H1Inv

\* What holds while a token is live.
LEMMA DeferredFacts ==
    ASSUME H1Inv, token # "idle", pc = "idle"
    PROVE  /\ source = 0 /\ unread = 0 /\ pending # "send" /\ pending # "receive"
           /\ "writing" \notin flags /\ "receiving" \notin flags
           /\ "deferred_writing" \notin flags /\ "retained_paused" \notin flags
           /\ "resumed" \notin flags /\ retained = 0
           /\ net = "open" => "paused" \in flags \/ "close_after_write" \in flags
BY Zenon DEF H1Inv, Streams, ParserDone, ReceiveClear, Pauses

\* A deferred response is sent, or the connection closes without it.
LEMMA DrainReadyStep ==
    ASSUME H1Inv, DrainReady, Fixed
    PROVE  H1Inv'
<1> DEFINE x == Item(next - 1, "full")
           f == flags \cup {"deferred_writing"}
                  \cup (IF "deferred_keep" \in flags THEN {} ELSE {"close_after_write"})
           g == (flags \ {"builder_deferred"}) \cup {"close_after_write"}
<1>1. /\ token = "ready" /\ net = "open" /\ pc = "idle" /\ token' = "idle"
      /\ UNCHANGED <<pc, unread, stash, next, retained, wire, source, transferred,
                     cleanup, net>>
  BY Zenon DEF DrainReady
<1>2. \/ outbound' = Append(outbound, x) /\ SendPending(f, outbound', "idle")
      \/ outbound' = outbound /\ Close(pending, flags \ {"builder_deferred"})
  BY Zenon DEF DrainReady
<1>3. Append(outbound, x) \in Seq(Items) /\ Append(outbound, x) # <<>>
  <2>1. x \in Items
    <3>1. next - 1 \in 0 .. MaxRequests
      BY RequestsAssumption DEF H1Inv, TypeOK
    <3> QED BY <3>1, ItemTyped, PartsTyped, Zenon
  <2> HIDE DEF x
  <2> QED BY <2>1 DEF H1Inv, TypeOK
<1>4. /\ "writing" \notin f /\ "receiving" \notin f /\ "retained_paused" \notin f
      /\ "resumed" \notin f /\ "deferred_writing" \in f
      /\ "paused" \in f \/ "close_after_write" \in f
      /\ "headers_stopped" \in f => "close_after_write" \in f
  BY <1>1, DeferredFacts, Zenon DEF H1Inv, Pauses
<1>5. /\ "writing" \notin g /\ "receiving" \notin g /\ "retained_paused" \notin g
      /\ "resumed" \notin g /\ "deferred_writing" \notin g /\ "close_after_write" \in g
  BY <1>1, DeferredFacts, Zenon
<1> HIDE DEF x, f, g
<1>6. \/ outbound' # <<>> /\ Retry("send", f)
      \/ outbound' = outbound /\ Retry("close", g)
  <2>1. CASE outbound' = Append(outbound, x) /\ SendPending(f, outbound', "idle")
    BY <1>3, <1>4, <2>1, Zenon DEF SendPending
  <2>2. CASE outbound' = outbound /\ Close(pending, flags \ {"builder_deferred"})
    BY <1>1, <2>2, DeferredFacts, CloseCases, Zenon DEF g
  <2> QED BY <1>2, <2>1, <2>2, Zenon
<1>7. TypeOK' /\ Cleanups'
  <2>1. pending' \in {"none", "send", "receive", "close"}
    BY <1>6, RetryCases, Zenon
  <2>2. outbound' \in Seq(Items)
    BY <1>2, <1>3, Zenon DEF H1Inv, TypeOK
  <2> QED BY <1>1, <2>1, <2>2, Zenon DEF H1Inv, TypeOK, Cleanups
<1>8. Streams' /\ Quiet' /\ ParserAlone' /\ ParserDone'
  BY <1>1, <1>4, <1>5, <1>6, DeferredFacts, RetryCases
     DEF Streams, Quiet, ParserAlone, ParserDone
<1>9. ReceiveClear' /\ Submissions' /\ Pauses' /\ Wakes'
  BY <1>1, <1>4, <1>5, <1>6, DeferredFacts, RetryCases
     DEF ReceiveClear, Submissions, Pauses, Wakes
<1> QED BY <1>7, <1>8, <1>9, Zenon DEF H1Inv

\* A canceled response closes the connection it was owed to, if there is one.
LEMMA DrainCanceledStep ==
    ASSUME H1Inv, DrainCanceled, Fixed
    PROVE  H1Inv'
<1> DEFINE g == (flags \ {"builder_deferred", "paused"}) \cup {"close_after_write"}
<1>1. /\ token # "idle" /\ pc = "idle" /\ token' = "idle"
      /\ UNCHANGED <<pc, unread, stash, next, outbound, retained, wire, source,
                     transferred, cleanup, net>>
  BY Zenon DEF DrainCanceled
<1>2. CASE net = "open"
  <2>1. /\ "writing" \notin g /\ "receiving" \notin g /\ "retained_paused" \notin g
        /\ "resumed" \notin g /\ "deferred_writing" \notin g /\ "close_after_write" \in g
    BY <1>1, DeferredFacts, Zenon
  <2> HIDE DEF g
  <2>2. Retry("close", g)
    BY <1>1, <1>2, DeferredFacts, CloseCases, Zenon DEF DrainCanceled, g
  <2>3. TypeOK' /\ Cleanups'
    <3>1. pending' \in {"none", "send", "receive", "close"}
      BY <2>2, RetryCases, Zenon
    <3> QED BY <1>1, <3>1, Zenon DEF H1Inv, TypeOK, Cleanups
  <2>4. Streams' /\ Quiet' /\ ParserAlone' /\ ParserDone'
    BY <1>1, <1>2, <2>1, <2>2, DeferredFacts, RetryCases
      , Zenon DEF Streams, Quiet, ParserAlone, ParserDone
  <2>5. ReceiveClear' /\ Submissions' /\ Pauses' /\ Wakes'
    BY <1>1, <2>1, <2>2, DeferredFacts, RetryCases
      , Zenon DEF ReceiveClear, Submissions, Pauses, Wakes
  <2> QED BY <2>3, <2>4, <2>5, Zenon DEF H1Inv
<1>3. CASE net # "open"
  <2>1. flags' = flags /\ pending' = pending
    BY <1>3, Zenon DEF DrainCanceled
  <2>2. /\ flags \subseteq {"shutdown"} /\ pending = "none" /\ outbound = <<>>
        /\ retained = 0 /\ stash = 0 /\ source = 0 /\ unread = 0
    BY <1>1, <1>3, DeferredFacts, Zenon DEF H1Inv, Quiet
  <2>3. TypeOK' /\ Cleanups'
    BY <1>1, <2>1, Zenon DEF H1Inv, TypeOK, Cleanups
  <2>4. Streams' /\ Quiet' /\ ParserAlone' /\ ParserDone'
    BY <1>1, <1>3, <2>1, <2>2, Zenon DEF Streams, Quiet, ParserAlone, ParserDone
  <2>5. ReceiveClear' /\ Submissions' /\ Pauses' /\ Wakes'
    BY <1>1, <1>3, <2>1, <2>2, Zenon DEF ReceiveClear, Submissions, Pauses, Wakes
  <2> QED BY <2>3, <2>4, <2>5, Zenon DEF H1Inv
<1> QED BY <1>2, <1>3, Zenon

\* A connection that is told to close between callbacks keeps everything but
\* its flags and its pending action, which becomes a close or a last send.
LEMMA ClosingStep ==
    ASSUME H1Inv, Fixed, net = "open", pc = "idle",
           NEW g, "close_after_write" \in g,
           Retry("close", g) \/ (pending = "send" /\ Retry("send", g)),
           \A x \in Flags \ {"close_after_write", "partial", "shutdown"} :
             x \in g <=> x \in flags,
           UNCHANGED <<pc, unread, stash, next, outbound, retained, wire, source,
                       transferred, cleanup, token, net>>
    PROVE  H1Inv'
<1>1. /\ "writing" \in g <=> "writing" \in flags
      /\ "receiving" \in g <=> "receiving" \in flags
      /\ "paused" \in g <=> "paused" \in flags
      /\ "resumed" \in g <=> "resumed" \in flags
      /\ "headers_stopped" \in g <=> "headers_stopped" \in flags
      /\ "retained_paused" \in g <=> "retained_paused" \in flags
      /\ "deferred_writing" \in g <=> "deferred_writing" \in flags
      /\ "response_streaming" \in g <=> "response_streaming" \in flags
  BY Zenon DEF Flags
<1>2. TypeOK' /\ Cleanups'
  <2>1. pending' \in {"none", "send", "receive", "close"}
    BY RetryCases, Zenon
  <2> QED BY <2>1, Zenon DEF H1Inv, TypeOK, Cleanups
<1>3. Streams' /\ Quiet' /\ ParserAlone' /\ ParserDone'
  BY <1>1, RetryCases DEF H1Inv, Streams, Quiet, ParserAlone, ParserDone
<1>4. ReceiveClear' /\ Submissions'
  BY <1>1, RetryCases DEF H1Inv, ReceiveClear, Submissions
<1>5. Pauses' /\ Wakes'
  BY <1>1, RetryCases DEF H1Inv, Pauses, Wakes
<1> QED BY <1>2, <1>3, <1>4, <1>5, Zenon DEF H1Inv

\* A request that took too long closes its connection.
LEMMA DeadlineExpiresStep ==
    ASSUME H1Inv, DeadlineExpires, Fixed
    PROVE  H1Inv'
<1> DEFINE g == (flags \ {"partial"}) \cup {"close_after_write"}
<1>1. /\ "close_after_write" \in g
      /\ \A x \in Flags \ {"close_after_write", "partial", "shutdown"} :
           x \in g <=> x \in flags
  BY Zenon
<1>2. Retry("close", g)
  BY CloseCases, Zenon DEF DeadlineExpires, Close
<1> HIDE DEF g
<1> QED BY <1>1, <1>2, ClosingStep, Zenon DEF DeadlineExpires

\* The shutdown of the server closes every connection.
LEMMA ShutdownStep ==
    ASSUME H1Inv, Shutdown, Fixed
    PROVE  H1Inv'
<1> DEFINE g == (flags \cup {"shutdown"}) \cup {"close_after_write"}
<1>1. /\ "close_after_write" \in g
      /\ \A x \in Flags \ {"close_after_write", "partial", "shutdown"} :
           x \in g <=> x \in flags
  BY Zenon
<1>2. Retry("close", g) \/ (pending = "send" /\ Retry("send", g))
  BY CloseCases, Zenon DEF Shutdown
<1> HIDE DEF g
<1> QED BY <1>1, <1>2, ClosingStep, Zenon DEF Shutdown

-----------------------------------------------------------------------------
(* The invariant and what follows from it.                                 *)

\* A connection starts in the invariant.
LEMMA H1Initial == Init => H1Inv
<1> SUFFICES ASSUME Init
             PROVE  H1Inv
  BY Zenon
<1>1. TypeOK
  BY RequestsAssumption DEF Init, TypeOK, Requests
<1>2. Cleanups
  BY DEF Init, Cleanups, Requests
<1>3. Streams /\ Quiet /\ ParserAlone /\ ParserDone
  BY Zenon DEF Init, Streams, Quiet, ParserAlone, ParserDone
<1>4. ReceiveClear /\ Submissions /\ Pauses /\ Wakes
  BY Zenon DEF Init, ReceiveClear, Submissions, Pauses, Wakes
<1> QED BY <1>1, <1>2, <1>3, <1>4, Zenon DEF H1Inv

\* A completed write keeps the invariant, whatever it finds to do next.
LEMMA OnSendStep ==
    ASSUME H1Inv, OnSend, Fixed
    PROVE  H1Inv'
BY OnSendCases, SentStreamStep, SentWaitsStep, SentResumesStep, SentPlainStep, Zenon

\* So does everything the parser does.
LEMMA ParseStep ==
    ASSUME H1Inv, Parse, Fixed
    PROVE  H1Inv'
BY ReplyBufferedStep, ReplyRetainedStep, ReplySourceStep, ReplyHeadStep,
   DeferStep, RejectAdmissionStep, HeadFailsStep, RequestFailsStep,
   DeferThenFailStep, InputConsumedStep, StashFailsStep, Zenon DEF Parse

\* Every step of the connection keeps the invariant.
LEMMA H1Step ==
    ASSUME H1Inv, [Next]_vars
    PROVE  H1Inv'
<1>1. CASE UNCHANGED vars
  BY <1>1, Zenon
     DEF vars, H1Inv, TypeOK, Cleanups, Streams, Quiet, ParserAlone, ParserDone,
         ReceiveClear, Submissions, Pauses, Wakes
<1>2. CASE Next
  <2>1. Fixed /\ Step
    BY <1>2, Zenon DEF Next
  <2>2. CASE Finished
    BY <1>1, <2>2, Zenon DEF Finished
  <2>3. CASE Drain
    BY <2>1, <2>3, DrainReadyStep, DrainCanceledStep, Zenon DEF Drain
  <2> QED
    BY <2>1, <2>2, <2>3, ConnectedStep, ConnectionClosedStep, RetryPendingStep,
       OnReceiveStep, ParseStep, OnSendStep, FileReadyStep, WorkerSettlesStep,
       DeadlineExpiresStep, ShutdownStep, Zenon DEF Step
<1> QED BY <1>1, <1>2, Zenon

\* The invariant holds throughout, for any number of requests and reads and
\* in any circumstances.
THEOREM H1Invariance == Spec => []H1Inv
<1>1. Init => H1Inv
  BY H1Initial, Zenon
<1>2. H1Inv /\ [Next]_vars => H1Inv'
  BY H1Step, Zenon
<1> QED BY <1>1, <1>2, PTL DEF Spec

\* An open connection always has something that calls it back, and a receive
\* is demanded only when the previous exchange is over (connection_retry,
\* connection_receive, send_pending, connection_close).
THEOREM ConnectionsNeverWedge == Spec => []NeverWedged
<1>1. H1Inv => NeverWedged
  <2> SUFFICES ASSUME H1Inv
               PROVE  NeverWedged
    BY Zenon
  <2>1. ~tight /\ net = "open" /\ pc = "idle" =>
          \/ flags \cap {"receiving", "writing", "closing"} # {}
          \/ pending # "none" \/ token # "idle"
          \/ "response_streaming" \in flags /\ source # 0
    BY Zenon DEF H1Inv, Wakes
  <2>2. "receiving" \in flags =>
          /\ outbound = <<>> /\ stash = 0 /\ token = "idle" /\ retained = 0
          /\ flags \cap {"writing", "paused", "response_streaming"} = {}
    BY Zenon DEF H1Inv, ReceiveClear
  <2> QED BY <2>1, <2>2, Zenon DEF NeverWedged
<1> QED BY <1>1, H1Invariance, PTL

\* A step tells a body source its end only while the builder owns it, so that
\* a status once told stands.
LEMMA ToldOnce ==
    ASSUME H1Inv, [Next]_vars, NEW r \in Requests, cleanup[r] \in Terminal
    PROVE  cleanup'[r] = cleanup[r]
<1>1. cleanup \in [Requests -> {"none", "open"} \cup Terminal]
  BY Zenon DEF H1Inv, TypeOK
<1>2. cleanup[r] # "open" /\ cleanup[r] # "none" /\ r # source
  BY Zenon DEF H1Inv, Cleanups, Terminal
<1>3. r # next
  BY <1>2 DEF H1Inv, Cleanups, TypeOK
<1>4. CanceledSource[r] = cleanup[r] /\ DOMAIN CanceledSource = Requests
  BY <1>1, <1>2, Zenon DEF CanceledSource
<1>5. ASSUME NEW status, CloseSource(status)
      PROVE  cleanup'[r] = cleanup[r]
  BY <1>1, <1>2, <1>5, Zenon DEF CloseSource
<1>6. ASSUME NEW result, NEW f, StreamNext(result, f)
      PROVE  cleanup'[r] = cleanup[r]
  BY <1>5, <1>6, Zenon DEF StreamNext
<1>7. \/ cleanup' = cleanup \/ cleanup' = CanceledSource
      \/ \E status : cleanup' = [CanceledSource EXCEPT ![next] = status]
      \/ \E status : CloseSource(status)
      \/ \E result, f : StreamNext(result, f)
  BY Zenon DEF Next, Step, vars, Connected, ConnectionClosed, RetryPending, OnReceive,
        Parse, ReplyBuffered, ReplyRetained, ReplySource, ReplyHead, Defer,
        RejectAdmission, HeadFails, RequestFails, DeferThenFail, InputConsumed,
        StashFails, OnSend, FileReady, WorkerSettles, Drain, DrainReady,
        DrainCanceled, DeadlineExpires, Shutdown, Finished
<1>8. ASSUME NEW status, cleanup' = [CanceledSource EXCEPT ![next] = status]
      PROVE  cleanup'[r] = cleanup[r]
  BY <1>3, <1>4, <1>8, Zenon
<1> QED BY <1>4, <1>5, <1>6, <1>7, <1>8, Zenon

\* The builder owns every source that has not been told its end, a connection
\* that is gone owns none, and no source is told its end twice
\* (builder_close_source; http_server/http.h, "one exactly-once terminal
\* callback").
THEOREM SourcesAreOwned == Spec => SourcesOwned
<1>1. H1Inv => \A r \in Requests : cleanup[r] = "open" <=> r = source
  BY Zenon DEF H1Inv, Cleanups
<1>2. H1Inv => (net = "closed" /\ token = "idle" => source = 0)
  BY Zenon DEF H1Inv, Quiet
<1>3. H1Inv /\ [Next]_vars =>
        [\A r \in Requests : cleanup[r] \in Terminal => cleanup'[r] = cleanup[r]]_vars
  BY ToldOnce, Zenon
<1> QED BY <1>1, <1>2, <1>3, H1Invariance, PTL DEF SourcesOwned, Spec

=============================================================================
