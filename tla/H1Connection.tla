---------------------------- MODULE H1Connection ----------------------------
(***************************************************************************)
(* One HTTP/1.1 server connection (src/http_server/src/chttp_server.c):    *)
(* the owner thread's callbacks on_state, on_receive and on_send, the      *)
(* incremental parser's pause and resume, the responses a handler can      *)
(* choose (buffered, retained buffer, streamed source, deferred), the one  *)
(* pending transport action with its retry, and every way to close.        *)
(*                                                                         *)
(* Requests are numbered in the order they are parsed.  A response is a    *)
(* sequence of items: the bytes outbound holds, and the bytes the peer     *)
(* has received (wire), are sequences of items.  Handler choices, what a   *)
(* source reads, transport pressure and the peer are nondeterministic.     *)
(***************************************************************************)
EXTENDS Naturals, Sequences, FiniteSets

CONSTANTS
    MaxRequests,          \* requests the peer sends on the connection
    MaxChunks,            \* reads a response body takes: content_length of a
                          \* sized source, source_capacity of the others
    Circumstances         \* the combinations to consider of: "behind", the
                          \* peer pipelines behind a streamed response, and
                          \* "tight", buffer_capacity_bytes can run out

ASSUME RequestsAssumption == MaxRequests \in Nat \ {0}
ASSUME ChunksAssumption == MaxChunks \in Nat \ {0}
ASSUME CircumstancesAssumption ==
    Circumstances # {} /\ Circumstances \subseteq SUBSET {"behind", "tight"}

Requests == 1 .. MaxRequests
SourceKinds == {"chunked", "sized", "eof"}
Terminal == {"ok", "canceled", "failed"}

VARIABLES
    pc,           \* "idle", or "parse": inside execute_consumed
    unread,       \* requests of the received segment not parsed yet
    stash,        \* requests kept in websocket_upgrade_input
    next,         \* number of the next request to be parsed
    flags,        \* the connection's, the builder's and CNet's Booleans
    pending,      \* pending_action
    outbound,     \* items serialised and not yet written
    retained,     \* request whose retained body rides behind outbound, or 0
    wire,         \* items the transport has written, in order
    source,       \* request whose body source the builder owns, or 0
    transferred,  \* source_transferred, in reads
    cleanup,      \* per request: what its body source has been told
    token,        \* deferred token of the connection
    net,          \* "new", "open" or "closed"
    behind,       \* fixed: the peer pipelines behind a streamed response
    tight         \* fixed: the budget can run out

vars == <<pc, unread, stash, next, flags, pending, outbound, retained, wire,
          source, transferred, cleanup, token, net, behind, tight>>

(* deferred_keep is protocol_keep_alive of the deferred target; last says  *)
(* that llhttp has seen a message that ends the connection; receiving and  *)
(* closing are CNet's: a receive is demanded, a close has been accepted;   *)
(* resumed says that the parser runs under on_send, not under on_receive.  *)
Flags == {"writing", "close_after_write", "response_streaming", "chunked",
          "sized", "close_after_stream", "retained_paused", "deferred_writing",
          "builder_deferred", "deferred_keep", "paused", "headers_stopped",
          "last", "partial", "resumed", "receiving", "closing", "shutdown"}

Item(r, p) == [req |-> r, part |-> p]
Parts == {"full", "head_chunked", "head_sized", "head_eof", "head_retained",
          "chunk", "final", "body", "error"}
Items == [req : 0 .. MaxRequests, part : Parts]

Init ==
    /\ pc = "idle" /\ unread = 0 /\ stash = 0 /\ next = 1
    /\ flags = {} /\ pending = "none"
    /\ outbound = <<>> /\ retained = 0 /\ wire = <<>>
    /\ source = 0 /\ transferred = 0
    /\ cleanup = [r \in Requests |-> "none"]
    /\ token = "idle" /\ net = "new"
    /\ \E c \in Circumstances : behind = ("behind" \in c) /\ tight = ("tight" \in c)

-----------------------------------------------------------------------------
(* Transport submission.  The operators below constrain flags' and pending'*)
(* from the flags f, the output out and the token state t a handler has    *)
(* computed so far.                                                        *)

\* CNet's answer to an accepted request; a send carries close_after_write.
Accepted(a, f) ==
    CASE a = "send" -> f \cup {"writing"}
                         \cup (IF "close_after_write" \in f THEN {"closing"} ELSE {})
      [] a = "receive" -> f \cup {"receiving"}
      [] a = "close" -> f \cup {"closing"}

\* connection_retry: nothing while a write is in flight; ENOBUFS and EBUSY
\* leave the action pending; a closing stream accepts nothing but a close.  CNet
\* refuses for another reason only when the stream is gone: the close the callers
\* then ask for finds nothing, and ConnectionClosed follows.
Retry(a, f) ==
    \/ pending' = a /\ flags' = f
    \/ /\ "writing" \notin f
       /\ a # "close" => "closing" \notin f
       /\ pending' = "none"
       /\ flags' = Accepted(a, f)

\* connection_close: a pending send is kept, and closes when it is accepted.
Close(p, f) ==
    Retry(IF p = "send" THEN "send" ELSE "close", f \cup {"close_after_write"})

\* connection_receive: ESHUTDOWN, and nothing else, once close_after_write.
Receive(f) ==
    IF "close_after_write" \in f THEN flags' = f /\ UNCHANGED pending
                                 ELSE Retry("receive", f)

SendPending(f, out, t) ==
    IF t # "idle" \/ "writing" \in f THEN flags' = f /\ UNCHANGED pending
    ELSE IF out = <<>> THEN Receive(f)
    ELSE Retry("send", f)

\* A fault: a response that ends by closing is not followed by the close.
AfterSendNeverCloses(f, out) ==
    IF out # <<>> THEN SendPending(f, out, token)
    ELSE IF f \cap {"close_after_write", "response_streaming"} # {}
    THEN flags' = f /\ UNCHANGED pending
    ELSE SendPending(f, out, token)

\* The common tail of on_send and h1_file_ready.
AfterSend(f, out) ==
    IF out # <<>> THEN SendPending(f, out, token)
    ELSE IF "close_after_write" \in f THEN Close(pending, f)
    ELSE IF "response_streaming" \in f THEN flags' = f /\ UNCHANGED pending
    ELSE SendPending(f, out, token)

\* A fault: a closed source keeps its cleanup callback and is told again.
CloseSourceAgain(status) ==
    /\ cleanup' = [r \in Requests |-> IF r = source \/ cleanup[r] \in Terminal
                                      THEN status ELSE cleanup[r]]
    /\ source' = 0

\* builder_close_source: the cleanup callback runs once, then is forgotten.
CloseSource(status) ==
    /\ cleanup' = IF source = 0 THEN cleanup ELSE [cleanup EXCEPT ![source] = status]
    /\ source' = 0

\* on_state(CONNECTED): the first receive is demanded.
Connected ==
    /\ net = "new"
    /\ net' = "open"
    /\ Receive(flags)
    /\ UNCHANGED <<pc, unread, stash, next, outbound, retained, wire, source,
                   transferred, cleanup, token>>

\* on_state(CLOSED or FAILED): every flag and buffer of the connection is
\* reset; a live deferred token keeps the request state until it is drained.
ConnectionClosed ==
    /\ net = "open" /\ pc = "idle"
    /\ net' = "closed"
    /\ flags' = flags \cap {"shutdown"}
    /\ pending' = "none" /\ outbound' = <<>> /\ retained' = 0 /\ stash' = 0
    /\ IF token = "idle" THEN CloseSource("canceled") ELSE UNCHANGED <<cleanup, source>>
    /\ UNCHANGED <<pc, unread, next, wire, transferred, token>>

\* A fault: a send that was refused is never submitted again.
RetryPendingSkipsSend ==
    /\ net = "open" /\ pc = "idle" /\ pending # "none"
    /\ IF pending = "send" THEN UNCHANGED <<flags, pending>> ELSE Retry(pending, flags)
    /\ UNCHANGED <<pc, unread, stash, next, outbound, retained, wire, source,
                   transferred, cleanup, token, net>>

\* retry_pending, one connection of the owner's pass.
RetryPending ==
    /\ net = "open" /\ pc = "idle" /\ pending # "none"
    /\ Retry(pending, flags)
    /\ UNCHANGED <<pc, unread, stash, next, outbound, retained, wire, source,
                   transferred, cleanup, token, net>>

-----------------------------------------------------------------------------
(* on_receive and the requests it parses.                                  *)

\* A segment that ends n requests arrives; on_receive drops it after a close.
OnReceive(n) ==
    /\ net = "open" /\ pc = "idle" /\ "receiving" \in flags
    /\ next + n <= MaxRequests + 1
    /\ IF "close_after_write" \in flags
       THEN flags' = flags \ {"receiving"} /\ UNCHANGED <<pc, unread>>
       ELSE /\ flags' = flags \ {"receiving"}
            /\ pc' = "parse" /\ unread' = n
    /\ UNCHANGED <<stash, next, pending, outbound, retained, wire, source,
                   transferred, cleanup, token, net>>

Parsing ==
    /\ pc = "parse" /\ unread > 0
    /\ flags \cap {"paused", "headers_stopped", "last"} = {}

\* The parser consumes one request; on_headers resets the builder, which
\* cancels the source a previous response left there.
NextRequest ==
    /\ Parsing
    /\ unread' = unread - 1 /\ next' = next + 1
    /\ UNCHANGED <<pc, stash, pending, wire, token, net>>

Renewed == flags \ {"builder_deferred", "partial"}

CanceledSource == IF source = 0 THEN cleanup ELSE [cleanup EXCEPT ![source] = "canceled"]

\* A buffered response, a HEAD response, or the 204 and 500 of dispatch.
ReplyBuffered(keep) ==
    /\ NextRequest
    /\ outbound' = Append(outbound, Item(next, "full"))
    /\ flags' = Renewed \cup (IF keep THEN {} ELSE {"close_after_write", "last"})
    /\ cleanup' = CanceledSource /\ source' = 0
    /\ UNCHANGED <<retained, transferred>>

\* A fault: the parser goes on behind a retained body.
ReplyRetainedUnpaused(keep) ==
    /\ NextRequest
    /\ outbound' = Append(outbound, Item(next, "head_retained"))
    /\ retained' = next
    /\ flags' = Renewed \cup (IF keep THEN {} ELSE {"close_after_write", "last"})
    /\ cleanup' = CanceledSource /\ source' = 0
    /\ UNCHANGED transferred

\* reply_buffer: only the head is serialised and the body follows outbound, or
\* both are serialised (TLS, HEAD, an empty body); the parser pauses until all of
\* it is written.
ReplyRetained(keep) ==
    /\ NextRequest
    /\ \/ outbound' = Append(outbound, Item(next, "head_retained")) /\ retained' = next
       \/ outbound' = Append(outbound, Item(next, "full")) /\ UNCHANGED retained
    /\ flags' = Renewed \cup {"retained_paused", "paused"}
                  \cup (IF keep THEN {} ELSE {"close_after_write"})
    /\ cleanup' = CanceledSource /\ source' = 0
    /\ UNCHANGED transferred

\* response_source: on_send will stream the body; the parser is not paused.
ReplySource(kind, keep) ==
    /\ NextRequest
    /\ behind \/ unread = 1
    /\ kind = "eof" => ~keep
    /\ outbound' = Append(outbound, Item(next, CASE kind = "chunked" -> "head_chunked"
                                                 [] kind = "sized" -> "head_sized"
                                                 [] kind = "eof" -> "head_eof"))
    /\ flags' = (Renewed \ {"chunked", "sized", "close_after_stream"})
                  \cup {"response_streaming"} \cup ({kind} \ {"eof"})
                  \cup (IF keep THEN {} ELSE {"close_after_stream", "last"})
    /\ cleanup' = [CanceledSource EXCEPT ![next] = "open"]
    /\ source' = next /\ transferred' = 0
    /\ UNCHANGED retained

\* HEAD on a source response: metadata only, the source is closed with OK.
ReplyHead(keep) ==
    /\ NextRequest
    /\ outbound' = Append(outbound, Item(next, "full"))
    /\ flags' = Renewed \cup (IF keep THEN {} ELSE {"close_after_write", "last"})
    /\ cleanup' = [CanceledSource EXCEPT ![next] = "ok"] /\ source' = 0
    /\ UNCHANGED <<retained, transferred>>

\* response_defer: the parser pauses until the deferred response is written.
Defer(keep) ==
    /\ Parsing
    /\ unread' = unread - 1 /\ next' = next + 1
    /\ token' = "pending"
    /\ flags' = (Renewed \ {"deferred_keep"}) \cup {"paused", "builder_deferred"}
                  \cup (IF keep THEN {"deferred_keep"} ELSE {})
    /\ cleanup' = CanceledSource /\ source' = 0
    /\ UNCHANGED <<pc, stash, pending, outbound, retained, wire, transferred, net>>

\* on_headers with a rejected admission: a final response, then HEADERS_STOP.
RejectAdmission ==
    /\ NextRequest
    /\ outbound' = Append(outbound, Item(next, "full"))
    /\ flags' = Renewed \cup {"close_after_write", "headers_stopped"}
    /\ cleanup' = CanceledSource /\ source' = 0
    /\ UNCHANGED <<retained, transferred>>

\* The end of h1_input with an error: on_send closes; on_receive closes too
\* when a deadline has passed (ETIMEDOUT) or the builder is deferred, and
\* otherwise appends an error response, for which there may be no budget, and
\* lets send_pending close.
InputFailed(f) ==
    /\ pc' = "idle" /\ unread' = 0
    /\ \/ /\ "resumed" \in f
          /\ Close(pending, f \ {"resumed"}) /\ UNCHANGED outbound
       \/ /\ "resumed" \notin f
          /\ Close("close", f) /\ UNCHANGED outbound
       \/ /\ "resumed" \notin f /\ "builder_deferred" \notin f
          /\ \/ outbound' = Append(outbound, Item(0, "error"))
             \/ tight /\ outbound' = outbound
          /\ SendPending(f \cup {"close_after_write"}, outbound', token)

\* A malformed head, or bytes behind the last message: on_headers is not run.
HeadFails ==
    /\ pc = "parse" /\ unread > 0
    /\ flags \cap {"paused", "headers_stopped"} = {}
    /\ InputFailed(flags)
    /\ UNCHANGED <<stash, next, retained, wire, source, transferred, cleanup, token, net>>

\* A malformed body or a callback that fails after on_headers.
RequestFails ==
    /\ Parsing
    /\ cleanup' = CanceledSource /\ source' = 0
    /\ InputFailed(Renewed)
    /\ UNCHANGED <<stash, next, retained, wire, transferred, token, net>>

\* The handler defers and the chain then fails: the token stays live.
DeferThenFail ==
    /\ Parsing
    /\ next' = next + 1 /\ token' = "pending"
    /\ cleanup' = CanceledSource /\ source' = 0
    /\ pc' = "idle" /\ unread' = 0
    /\ Close(IF "resumed" \in flags THEN pending ELSE "close",
             (flags \ {"resumed", "partial"}) \cup {"builder_deferred"})
    /\ UNCHANGED <<stash, outbound, retained, wire, transferred, net>>

\* The end of h1_input without an error: what a paused parser left over is
\* kept, or dropped when the connection closes anyway; a part of one more
\* request may have started a deadline.  Then on_receive or on_send finishes.
InputConsumed(more) ==
    /\ pc = "parse"
    /\ unread = 0 \/ flags \cap {"paused", "headers_stopped"} # {}
    /\ more => /\ unread = 0 /\ next <= MaxRequests
               /\ flags \cap {"paused", "headers_stopped", "last"} = {}
               /\ behind \/ "response_streaming" \notin flags
    /\ pc' = "idle" /\ unread' = 0
    /\ stash' = IF "close_after_write" \in flags THEN stash ELSE unread
    /\ LET f == (flags \ {"resumed"}) \cup (IF more THEN {"partial"} ELSE {})
       IN  IF "resumed" \in flags THEN AfterSend(f, outbound)
                                  ELSE SendPending(f, outbound, token)
    /\ UNCHANGED <<next, outbound, retained, wire, source, transferred,
                   cleanup, token, net>>

\* The budget has no room for what the paused parser left over.
StashFails ==
    /\ tight
    /\ pc = "parse" /\ unread > 0 /\ "paused" \in flags
    /\ "close_after_write" \notin flags
    /\ InputFailed(flags)
    /\ UNCHANGED <<stash, next, retained, wire, source, transferred, cleanup, token, net>>

-----------------------------------------------------------------------------
(* on_send and the streamed response.                                      *)

\* What stream_next can come back with, given what has been transferred.
StreamResults ==
    IF source = 0 THEN {"failed"}
    ELSE {"failed"}
         \cup (IF transferred < MaxChunks THEN {"chunk"} ELSE {"eof"})
         \cup (IF "sized" \in flags THEN {} ELSE {"eof"})

\* stream_next after the flags f: one more item, the end of the body, or a
\* failure, which closes the connection.
StreamNext(result, f) ==
    \/ /\ result = "chunk"
       /\ outbound' = <<Item(source, "chunk")>> /\ transferred' = transferred + 1
       /\ AfterSend(f, outbound')
       /\ UNCHANGED <<cleanup, source>>
    \/ /\ result = "eof"
       /\ outbound' = IF "chunked" \in f THEN <<Item(source, "final")>> ELSE <<>>
       /\ CloseSource("ok") /\ UNCHANGED transferred
       /\ LET g == f \ {"response_streaming", "close_after_write"}
          IN  AfterSend(IF "close_after_stream" \in f THEN g \cup {"close_after_write"} ELSE g,
                        outbound')
    \/ /\ result = "failed"
       /\ outbound' = <<>>
       /\ CloseSource("failed") /\ UNCHANGED transferred
       /\ Close(pending, f \ {"response_streaming"})

Written == wire \o outbound
             \o (IF retained = 0 THEN <<>> ELSE <<Item(retained, "body")>>)

\* on_send: the write is complete.  A streamed response continues (a file
\* that is not ready leaves it waiting), a paused parser resumes with what
\* was kept, and otherwise the next action is chosen.
OnSend ==
    /\ net = "open" /\ pc = "idle" /\ "writing" \in flags
    /\ wire' = Written /\ retained' = 0
    /\ LET f == flags \ {"writing", "deferred_writing", "retained_paused"}
       IN  IF "response_streaming" \in flags
           THEN /\ \/ \E result \in StreamResults : StreamNext(result, f)
                   \/ /\ source # 0 /\ outbound' = <<>> /\ flags' = f
                      /\ UNCHANGED <<source, transferred, cleanup, pending>>
                /\ UNCHANGED <<pc, unread, stash>>
           ELSE IF flags \cap {"deferred_writing", "retained_paused"} # {}
                   /\ "close_after_write" \notin flags
           THEN /\ pc' = "parse" /\ unread' = stash /\ stash' = 0 /\ outbound' = <<>>
                /\ flags' = (f \ {"paused"}) \cup {"resumed"}
                /\ UNCHANGED <<pending, source, transferred, cleanup>>
           ELSE /\ outbound' = <<>> /\ AfterSend(f, <<>>)
                /\ UNCHANGED <<pc, unread, stash, source, transferred, cleanup>>
    /\ UNCHANGED <<next, token, net>>

\* h1_file_ready: the file transfer a response waited for has data.
FileReady ==
    /\ net = "open" /\ pc = "idle"
    /\ "response_streaming" \in flags /\ "writing" \notin flags
    /\ outbound = <<>> /\ source # 0
    /\ \E result \in StreamResults : StreamNext(result, flags)
    /\ UNCHANGED <<pc, unread, stash, next, retained, wire, token, net>>

-----------------------------------------------------------------------------
(* The deferred response, deadlines and shutdown.                          *)

\* A worker's reply or cancel reaches the token.
WorkerSettles(state) ==
    /\ token = "pending"
    /\ token' = state
    /\ UNCHANGED <<pc, unread, stash, next, flags, pending, outbound, retained,
                   wire, source, transferred, cleanup, net>>

\* deferred_progress, READY on a connected connection.
DrainReady ==
    /\ token = "ready" /\ net = "open" /\ pc = "idle"
    /\ token' = "idle"
    /\ \/ /\ outbound' = Append(outbound, Item(next - 1, "full"))
          /\ SendPending(flags \cup {"deferred_writing"}
                           \cup (IF "deferred_keep" \in flags THEN {} ELSE {"close_after_write"}),
                         outbound', "idle")
       \/ /\ outbound' = outbound
          /\ Close(pending, flags \ {"builder_deferred"})
    /\ UNCHANGED <<pc, unread, stash, next, retained, wire, source, transferred, cleanup, net>>

\* deferred_progress, CANCELED, or READY on a connection that is gone.
DrainCanceled ==
    /\ token = "canceled" \/ (token = "ready" /\ net = "closed")
    /\ pc = "idle"
    /\ token' = "idle"
    /\ IF net = "open" THEN Close(pending, flags \ {"builder_deferred", "paused"})
                       ELSE UNCHANGED <<flags, pending>>
    /\ UNCHANGED <<pc, unread, stash, next, outbound, retained, wire, source,
                   transferred, cleanup, net>>

\* deadlines_progress: the head or body of a request took too long.  on_receive
\* does the same with a segment that comes after the deadline, which it drops.
DeadlineExpires ==
    /\ net = "open" /\ pc = "idle" /\ token = "idle"
    /\ "partial" \in flags /\ "close_after_write" \notin flags
    /\ Close("close", flags \ {"partial"})
    /\ UNCHANGED <<pc, unread, stash, next, outbound, retained, wire, source,
                   transferred, cleanup, token, net>>

\* begin_shutdown closes every HTTP/1.1 connection once.
Shutdown ==
    /\ net = "open" /\ pc = "idle" /\ "shutdown" \notin flags
    /\ Close(pending, flags \cup {"shutdown"})
    /\ UNCHANGED <<pc, unread, stash, next, outbound, retained, wire, source,
                   transferred, cleanup, token, net>>

-----------------------------------------------------------------------------
Parse ==
    \/ \E keep \in BOOLEAN :
          \/ ReplyBuffered(keep) \/ ReplyRetained(keep) \/ ReplyHead(keep)
          \/ Defer(keep)
          \/ \E kind \in SourceKinds : ReplySource(kind, keep)
    \/ RejectAdmission \/ HeadFails \/ RequestFails \/ DeferThenFail \/ StashFails
    \/ \E more \in BOOLEAN : InputConsumed(more)

Drain == DrainReady \/ DrainCanceled

\* A closed connection whose token is settled is finished.
Finished ==
    /\ net = "closed" /\ token = "idle"
    /\ UNCHANGED vars

Step ==
    \/ Connected \/ ConnectionClosed \/ RetryPending
    \/ \E n \in 0 .. MaxRequests : OnReceive(n)
    \/ Parse
    \/ OnSend \/ FileReady
    \/ \E state \in {"ready", "canceled"} : WorkerSettles(state)
    \/ Drain \/ DeadlineExpires \/ Shutdown
    \/ Finished

Fixed == UNCHANGED <<behind, tight>>

Next == Step /\ Fixed

Spec == Init /\ [][Next]_vars

\* The owner loop runs its handlers, CNet completes or fails accepted work
\* and accepts retried work in the end, and workers settle their handles.
\* The peer need not send, read ahead or close, and nobody need stop.
Fairness ==
    /\ WF_vars(Fixed /\ Connected)
    /\ WF_vars(Fixed /\ RetryPending /\ pending' = "none")
    /\ WF_vars(Fixed /\ Parse)
    /\ WF_vars(Fixed /\ OnSend)
    /\ WF_vars(Fixed /\ FileReady)
    /\ WF_vars(\E state \in {"ready", "canceled"} : Fixed /\ WorkerSettles(state))
    /\ WF_vars(Fixed /\ Drain)
    /\ WF_vars(Fixed /\ "closing" \in flags /\ ConnectionClosed)

FairSpec == Spec /\ Fairness

-----------------------------------------------------------------------------
Starts == {"full", "head_chunked", "head_sized", "head_eof", "head_retained", "error"}

\* Item i of the wire is the last one of its response.
Ends(i) ==
    \/ wire[i].part \in {"full", "final", "body", "error"}
    \/ i > MaxChunks /\ wire[i - MaxChunks].part = "head_sized"

Framed ==
    \A i \in 1 .. Len(wire) :
       IF wire[i].part \in Starts
       THEN /\ i > 1 => Ends(i - 1) /\ wire[i - 1].part # "error"
            /\ wire[i].part # "error" =>
                  wire[i].req = Cardinality({j \in 1 .. i : wire[j].part \in Starts})
       ELSE i > 1 /\ ~Ends(i - 1) /\ wire[i].req = wire[i - 1].req

\* What the peer receives is a sequence of whole responses in the order of its
\* requests, of which only the last can be incomplete: no item of a response
\* is written inside or behind another one, none is skipped, and nothing
\* follows an error response (serialisation into outbound, the retained body
\* on_send accounts for, stream_next, and the parser's pause and resume).  It
\* takes a peer that does not pipeline behind a streamed response and a budget
\* that suffices.
ResponsesFramed == ~behind /\ ~tight => Framed

\* The same whatever the peer pipelines: responses are written one after the
\* other in request order, as the server's documentation has it.
PipelinedFramed == Framed

\* A body source that has not been told its end is the one the builder owns,
\* and a connection that is gone and settled owns none: no interleaving of
\* pipelined requests, failures and closes leaks the state of a source.  The
\* cleanup callback of a source runs exactly once: no later step tells it
\* another status (http_server/http.h, "one exactly-once terminal callback").
SourcesOwned ==
    /\ [](\A r \in Requests : cleanup[r] = "open" <=> r = source)
    /\ [](net = "closed" /\ token = "idle" => source = 0)
    /\ [][\A r \in Requests : cleanup[r] \in Terminal => cleanup'[r] = cleanup[r]]_vars

\* An open connection always waits for something that will call it back: a
\* receive, a write, a retry, a close, a deferred handle or a file, given a
\* budget with room for the error response.  And a receive is demanded from
\* CNet only when the previous exchange is over: nothing to write or being
\* written, no deferred response, no input kept for a paused parser; on_receive
\* closes the connection if this ever fails.
NeverWedged ==
    /\ ~tight /\ net = "open" /\ pc = "idle" =>
          \/ flags \cap {"receiving", "writing", "closing"} # {}
          \/ pending # "none" \/ token # "idle"
          \/ "response_streaming" \in flags /\ source # 0
    /\ "receiving" \in flags =>
          /\ outbound = <<>> /\ stash = 0 /\ token = "idle" /\ retained = 0
          /\ flags \cap {"writing", "paused", "response_streaming"} = {}

Answered(r) == \E i \in 1 .. Len(wire) : wire[i].req = r /\ Ends(i)

\* Every request that reaches the parser is answered in full or its
\* connection is closed: no pause, retry or stream is left behind, given the
\* peer and the budget of ResponsesFramed.
RequestsSettle ==
    \A r \in Requests : next > r /\ ~behind /\ ~tight ~> Answered(r) \/ net = "closed"

\* A connection the shutdown has closed is gone in the end, so that stop can
\* join the owner (http_server/http.h, chttp_server_stop).
ShutdownCloses == "shutdown" \in flags ~> net = "closed"
=============================================================================
