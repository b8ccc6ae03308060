------------------------------ MODULE RpcClient ------------------------------
(***************************************************************************)
(* JSON-RPC calls from a client: the typed projection                      *)
(* (http_client/rpc/chttp_client_rpc_service.c) over the blocking bridge   *)
(* (crpc_request_reply.c) and over the asynchronous one                    *)
(* (crpc_direct_async.c), the JSON codec they share with the server        *)
(* (http_common/rpc/crpc_json.c), and the wire ids and deadlines the HTTP  *)
(* client keeps in its request slots (http_client/src/chttp_client.c).     *)
(*                                                                         *)
(* The transport is the client's pool (module ClientPool) seen from its    *)
(* request slots: a request ends with a response or a failure.  Values are *)
(* their presence; an answer is a record of what decoding tells apart.     *)
(***************************************************************************)
EXTENDS Integers, Sequences, SequencesExt, FiniteSets, FiniteSetsExt

CONSTANTS Callers,     \* calls
          RpcScripts,  \* what each caller asks and is answered: functions on Callers
          WireSlots,   \* request_capacity of the asynchronous client
          RpcTime      \* bound on the clock

VARIABLES script,  \* the script, chosen once
          calls,   \* per caller: stage, storage, context, result
          wires,   \* chttp_slot: the request slots' RPC fields
          rpcOpen, \* admission_open
          rpcNow      \* cmeta_monotonic_ms

rpcClientVars == <<script, calls, wires, rpcOpen, rpcNow>>

FreeWire == [call |-> "none", id |-> 0, deadline |-> 0, expired |-> FALSE, canceled |-> FALSE, delivered |-> FALSE]
NewCall == [stage |-> "idle", native |-> "untouched", typed |-> FALSE, context |-> FALSE,
            result |-> "none", blame |-> "none", ends |-> 0, started |-> 0, at |-> 0]

RpcClientInit ==
  /\ script \in RpcScripts
  /\ calls = [c \in Callers |-> NewCall]
  /\ wires = [s \in 1..WireSlots |-> FreeWire]
  /\ rpcOpen = TRUE
  /\ rpcNow = 0

-----------------------------------------------------------------------------
(* The plan and the parameters *)

NoOrdinal == -1
Distinct(s) == \A i, j \in 1..Len(s) : s[i] = s[j] => i = j

\* chttp_client_rpc_plan_admit
PlanAdmit(plan) ==
  LET ordinals == [i \in 1..Len(plan.entries) |-> plan.entries[i].ordinal]
      names    == [i \in 1..Len(plan.entries) |-> plan.entries[i].name]
      named    == \A i \in 1..Len(ordinals) : ordinals[i] = NoOrdinal
      placed   == \A i \in 1..Len(ordinals) : ordinals[i] \in 0..(Len(ordinals) - 1)
  IN  CASE plan.fault # "none" -> plan.fault
        [] plan.fault = "none" /\ ~Distinct(plan.codes) -> "ENOTSUP"
        [] plan.fault = "none" /\ Distinct(plan.codes) /\ ~((named /\ Distinct(names)) \/ (placed /\ Distinct(ordinals))) -> "ENOTSUP"
        [] OTHER -> "OK"
ParamsMode(plan) ==
  IF plan.entries = <<>> THEN "none" ELSE IF plan.entries[1].ordinal = NoOrdinal THEN "object" ELSE "array"

\* chttp_client_rpc_entry_state
EntryState(e) ==
  CASE ~e.present /\ e.isnull -> "SCHEMA"
    [] ~e.present /\ ~e.isnull -> "ABSENT"
    [] e.present /\ e.isnull -> IF e.nullable THEN "NULL" ELSE "SCHEMA"
    [] OTHER -> "VALUE"

\* chttp_client_rpc_encode_params: [status, members]; an object leaves absent
\* members out, an array drops absent ones at its end and fails on any other
AtOrdinal(plan, k) == CHOOSE i \in 1..Len(plan.entries) : plan.entries[i].ordinal = k
EncodeObject(plan) ==
  LET state(i) == EntryState(plan.entries[i])
      kept == SetToSortSeq({i \in 1..Len(plan.entries) : state(i) # "ABSENT"}, <)
  IN  IF \E i \in 1..Len(plan.entries) : state(i) = "SCHEMA" THEN [status |-> "EINVAL", members |-> <<>>]
      ELSE [status |-> "OK", members |-> [k \in 1..Len(kept) |-> [name |-> plan.entries[kept[k]].name, value |-> state(kept[k])]]]

\* A fault: absent values are left out of an array wherever they stand.
EncodeArrayCloses(plan) ==
  LET state(k) == EntryState(plan.entries[AtOrdinal(plan, k)])
      filled == SetToSortSeq({k \in 0..(Len(plan.entries) - 1) : state(k) # "ABSENT"}, <)
  IN  IF \E k \in 1..Len(filled) : state(filled[k]) = "SCHEMA" THEN [status |-> "EINVAL", members |-> <<>>]
      ELSE [status |-> "OK", members |-> [k \in 1..Len(filled) |-> [name |-> "", value |-> state(filled[k])]]]

EncodeArray(plan) ==
  LET state(k) == EntryState(plan.entries[AtOrdinal(plan, k)])
      filled == {k \in 0..(Len(plan.entries) - 1) : state(k) # "ABSENT"}
      length == IF filled = {} THEN 0 ELSE Max(filled) + 1
  IN  IF \E k \in 0..(length - 1) : state(k) \in {"SCHEMA", "ABSENT"} THEN [status |-> "EINVAL", members |-> <<>>]
      ELSE [status |-> "OK", members |-> [k \in 1..length |-> [name |-> "", value |-> state(k - 1)]]]
EncodeParams(plan) ==
  CASE ParamsMode(plan) = "object" -> EncodeObject(plan)
    [] ParamsMode(plan) = "array"  -> EncodeArray(plan)
    [] ParamsMode(plan) = "none"   -> [status |-> "OK", members |-> <<>>]

\* crpc_server_request_param_open: what the server finds for an entry
ParamOpen(mode, members, name, ordinal) ==
  LET found == {k \in 1..Len(members) : members[k].name = name}
  IN  CASE mode = "none" -> "ABSENT"
        [] mode = "object" -> IF Cardinality(found) > 1 THEN "EPROTO" ELSE IF found = {} THEN "ABSENT"
                              ELSE members[CHOOSE k \in found : TRUE].value
        [] mode = "array" -> IF ordinal = NoOrdinal THEN "EINVAL" ELSE IF ordinal >= Len(members) THEN "ABSENT"
                             ELSE members[ordinal + 1].value

\* crpc_prepare_call: metadata and headers, then crpc_json_encode_request, whose
\* method, depth and body bounds are the script's fault
PrepareCall(ask) == IF ask.fault # "none" THEN ask.fault ELSE EncodeParams(ask.plan).status

-----------------------------------------------------------------------------
(* The answer *)

\* A fault: the id of an answer is not compared.
DecodeResponseAnyId(answer, id) ==
  CASE answer.http \notin 200..299 -> "EPROTO"
    [] answer.http \in 200..299 /\ answer.json = "deep" -> "EMSGSIZE"
    [] answer.http \in 200..299 /\ answer.json \in {"empty", "broken", "envelope"} -> "EPROTO"
    [] answer.http \in 200..299 /\ answer.json = "ok" /\ answer.results + answer.errors # 1 -> "EPROTO"
    [] OTHER -> IF answer.results = 1 THEN "RESULT" ELSE "REMOTE"

\* crpc_json_decode_response: "RESULT", "REMOTE" or a failure
DecodeResponse(answer, id) ==
  CASE answer.http \notin 200..299 -> "EPROTO"
    [] answer.http \in 200..299 /\ answer.json = "deep" -> "EMSGSIZE"
    [] answer.http \in 200..299 /\ answer.json \in {"empty", "broken", "envelope"} -> "EPROTO"
    [] answer.http \in 200..299 /\ answer.json = "ok" /\ (answer.id # id \/ answer.results + answer.errors # 1) -> "EPROTO"
    [] OTHER -> IF answer.results = 1 THEN "RESULT" ELSE "REMOTE"

\* chttp_client_rpc_decode_success
DecodeSuccess(answer, plan) == IF ~plan.egress \/ answer.value THEN "OK" ELSE "EINVAL"

\* chttp_client_rpc_typed_error_index and chttp_client_rpc_decode_typed_error;
\* the storage was checked at admission
TypedError(answer, plan) == \E k \in 1..Len(plan.codes) : plan.codes[k] = answer.code
DecodeTyped(answer) == IF answer.data = "none" THEN "EPROTO" ELSE IF answer.data = "value" THEN "OK" ELSE "EINVAL"

\* The tail both projections share, on initialised storage: the outcome, or a
\* failure that clears it
Projected(call, ask) ==
  LET answer == ask.answer
      kind == DecodeResponse(answer, ask.id)
      fail(status) == [call EXCEPT !.result = status, !.native = "clear"]
  IN  IF kind = "RESULT"
      THEN IF DecodeSuccess(answer, ask.plan) = "OK" THEN [call EXCEPT !.result = "SUCCESS", !.native = "value"]
           ELSE fail(DecodeSuccess(answer, ask.plan))
      ELSE IF ~TypedError(answer, ask.plan) THEN [call EXCEPT !.result = "REMOTE", !.native = "init"]
      ELSE IF DecodeTyped(answer) = "OK" THEN [call EXCEPT !.result = "TYPED", !.native = "init", !.typed = TRUE]
      ELSE fail(DecodeTyped(answer))

-----------------------------------------------------------------------------
(* Blocking calls: chttp_client_rpc_call over crpc_request_reply_on_http *)

Ended(call) == [call EXCEPT !.stage = "done", !.ends = @ + 1]
SyncFailed(call, status) == Ended([call EXCEPT !.result = status, !.native = "clear", !.at = rpcNow])
SyncTimedOut(call) == [SyncFailed(call, "ETIMEDOUT") EXCEPT !.blame = "deadline"]

\* crpc_deadline_remaining
DeadlinePast(c) == script[c].deadline # 0 /\ rpcNow - calls[c].started >= script[c].deadline

\* admission, and the response storage initialised before anything is sent
SyncCall(c) ==
  /\ script[c].kind = "sync" /\ calls[c].stage = "idle"
  /\ calls' = [calls EXCEPT ![c] =
       IF PlanAdmit(script[c].plan) # "OK" THEN Ended([@ EXCEPT !.result = PlanAdmit(script[c].plan)])
       ELSE IF script[c].plan.codes # <<>> /\ ~script[c].storage THEN Ended([@ EXCEPT !.result = "EMSGSIZE"])
       ELSE IF script[c].initFails THEN Ended([@ EXCEPT !.result = "EINVAL"])
       ELSE [@ EXCEPT !.stage = "prepare", !.native = "init", !.started = rpcNow]]
  /\ UNCHANGED <<script, wires, rpcOpen, rpcNow>>

\* crpc_prepare_call, then the time left for the request
SyncPrepare(c) ==
  /\ script[c].kind = "sync" /\ calls[c].stage = "prepare"
  /\ calls' = [calls EXCEPT ![c] =
       IF PrepareCall(script[c]) # "OK" THEN SyncFailed(@, PrepareCall(script[c]))
       ELSE IF DeadlinePast(c) THEN SyncTimedOut(@)
       ELSE [@ EXCEPT !.stage = "post"]]
  /\ UNCHANGED <<script, wires, rpcOpen, rpcNow>>

\* What ends a request besides a response: CNet's connect, read and write
\* deadlines are not the call's
TransportFaults == {"EIO", "ETIMEDOUT"}

\* chttp_post returns: a response, its own deadline (the time the call had
\* left), or the transport's failure, passed through with its stage
SyncPosted(c) ==
  /\ script[c].kind = "sync" /\ calls[c].stage = "post"
  /\ \/ calls' = [calls EXCEPT ![c] = IF DeadlinePast(c) THEN SyncTimedOut(@) ELSE [@ EXCEPT !.stage = "decode"]]
     \/ \E status \in TransportFaults :
          calls' = [calls EXCEPT ![c] = [SyncFailed(@, status) EXCEPT !.blame = "transport"]]
  /\ UNCHANGED <<script, wires, rpcOpen, rpcNow>>

\* decoding, the last look at the deadline, and the projection
SyncDecode(c) ==
  LET kind == DecodeResponse(script[c].answer, script[c].id)
  IN  /\ script[c].kind = "sync" /\ calls[c].stage = "decode"
      /\ calls' = [calls EXCEPT ![c] =
           IF kind \notin {"RESULT", "REMOTE"} THEN SyncFailed(@, kind)
           ELSE IF DeadlinePast(c) THEN SyncTimedOut(@)
           ELSE Ended(Projected([@ EXCEPT !.at = rpcNow], script[c]))]
      /\ UNCHANGED <<script, wires, rpcOpen, rpcNow>>

-----------------------------------------------------------------------------
(* Asynchronous calls: chttp_async_client_rpc_call over chttp_async_client_rpc_submit *)

Rejected(call, status) == [call EXCEPT !.stage = "rejected", !.result = status, !.context = FALSE]
UsedIds == {wires[s].id : s \in {t \in 1..WireSlots : wires[t].call # "none"}}
FreeWires == {s \in 1..WireSlots : wires[s].call = "none"}

\* chttp_async_client_rpc_submit_transport: why a prepared call is refused
SubmitTransport(ask) ==
  CASE ~rpcOpen -> "ESHUTDOWN"
    [] rpcOpen /\ ask.id \in UsedIds -> "EALREADY"
    [] rpcOpen /\ ask.id \notin UsedIds /\ FreeWires = {} -> "ENOBUFS"
    [] OTHER -> "OK"

\* The thread that polls is between a delivery and its callback.
Delivering == \E c \in Callers : calls[c].stage = "deliver"

\* the context is allocated after admission and freed when the submit fails
AsyncStart(c) ==
  /\ script[c].kind = "async" /\ calls[c].stage = "idle" /\ ~Delivering
  /\ calls' = [calls EXCEPT ![c] =
       IF PlanAdmit(script[c].plan) # "OK" THEN Rejected(@, PlanAdmit(script[c].plan))
       ELSE IF script[c].plan.codes # <<>> /\ ~script[c].storage THEN Rejected(@, "EMSGSIZE")
       ELSE [@ EXCEPT !.stage = "prepare", !.context = TRUE, !.started = rpcNow]]
  /\ UNCHANGED <<script, wires, rpcOpen, rpcNow>>

AsyncSubmit(c) ==
  LET ask == script[c]
      s == Min(FreeWires)
  IN  /\ ask.kind = "async" /\ calls[c].stage = "prepare" /\ ~Delivering
      /\ IF PrepareCall(ask) # "OK" \/ DeadlinePast(c) \/ SubmitTransport(ask) # "OK"
         THEN /\ calls' = [calls EXCEPT ![c] =
                   Rejected(@, IF PrepareCall(ask) # "OK" THEN PrepareCall(ask)
                               ELSE IF DeadlinePast(c) THEN "ETIMEDOUT" ELSE SubmitTransport(ask))]
              /\ UNCHANGED wires
         ELSE /\ calls' = [calls EXCEPT ![c].stage = "open"]
              /\ wires' = [wires EXCEPT ![s] = [FreeWire EXCEPT !.call = c, !.id = ask.id,
                             !.deadline = IF ask.deadline = 0 THEN 0 ELSE calls[c].started + ask.deadline]]
      /\ UNCHANGED <<script, rpcOpen, rpcNow>>

\* chttp_async_request_cancel: the transport is told to end the request
AsyncCancel(c) ==
  /\ script[c].cancels /\ ~Delivering
  /\ \E s \in 1..WireSlots :
       /\ wires[s].call = c /\ ~wires[s].delivered /\ ~wires[s].canceled
       /\ wires' = [wires EXCEPT ![s].canceled = TRUE]
  /\ UNCHANGED <<script, calls, rpcOpen, rpcNow>>

\* chttp_rpc_expire_deadlines, of chttp_async_client_poll: every slot past its
\* deadline that nobody canceled is canceled and remembers why; a cancel the
\* transport refuses leaves the slot as it was, for the next poll
Due(w) == w.call # "none" /\ ~w.delivered /\ w.deadline # 0 /\ ~w.expired /\ ~w.canceled /\ w.deadline <= rpcNow
ExpireDeadlines ==
  /\ ~Delivering
  /\ \E admitted \in SUBSET {s \in 1..WireSlots : Due(wires[s])} :
       /\ admitted # {}
       /\ wires' = [s \in 1..WireSlots |-> IF s \in admitted THEN [wires[s] EXCEPT !.expired = TRUE, !.canceled = TRUE] ELSE wires[s]]
  /\ UNCHANGED <<script, calls, rpcOpen, rpcNow>>

\* chttp_slot_deliver: the deadline is looked at once, before the answer is decoded
PastDeadline(w) == w.expired \/ (w.deadline # 0 /\ ~w.canceled /\ rpcNow >= w.deadline)
RpcDeliver(s, status) ==
  LET c == wires[s].call
      past == PastDeadline(wires[s])
  IN  /\ c # "none" /\ ~wires[s].delivered /\ ~Delivering
      /\ wires' = [wires EXCEPT ![s].delivered = TRUE]
      /\ calls' = [calls EXCEPT ![c].stage = "deliver", ![c].at = rpcNow,
                     ![c].result = IF past THEN "ETIMEDOUT" ELSE status,
                     ![c].blame = IF past THEN "deadline" ELSE IF status = "OK" THEN "none" ELSE "transport"]
      /\ UNCHANGED <<script, rpcOpen, rpcNow>>

\* the transport ends a request (external): with a response unless it was canceled
ResponseArrives(s) == ~wires[s].canceled /\ RpcDeliver(s, "OK")
TransportFails(s) ==
  \E status \in TransportFaults : RpcDeliver(s, IF wires[s].canceled THEN "ECANCELED" ELSE status)

\* A fault: a failed call clears the caller's storage.
AsyncCompleteClears(call, ask) ==
  LET kind == DecodeResponse(ask.answer, ask.id)
  IN  CASE call.result # "OK" -> [call EXCEPT !.native = "clear"]
        [] call.result = "OK" /\ kind \notin {"RESULT", "REMOTE"} -> [call EXCEPT !.result = kind]
        [] call.result = "OK" /\ kind \in {"RESULT", "REMOTE"} /\ ask.initFails -> [call EXCEPT !.result = "EINVAL", !.native = "clear"]
        [] OTHER -> Projected(call, ask)

\* chttp_rpc_direct_complete and chttp_client_rpc_async_complete: the response
\* storage is initialised only for a response that decodes
AsyncComplete(call, ask) ==
  LET kind == DecodeResponse(ask.answer, ask.id)
  IN  CASE call.result # "OK" -> call
        [] call.result = "OK" /\ kind \notin {"RESULT", "REMOTE"} -> [call EXCEPT !.result = kind]
        [] call.result = "OK" /\ kind \in {"RESULT", "REMOTE"} /\ ask.initFails -> [call EXCEPT !.result = "EINVAL", !.native = "clear"]
        [] OTHER -> Projected(call, ask)

\* the callback, after which both contexts are freed
RpcCallback(c) ==
  /\ calls[c].stage = "deliver"
  /\ calls' = [calls EXCEPT ![c] = [Ended(AsyncComplete(@, script[c])) EXCEPT !.context = FALSE]]
  /\ UNCHANGED <<script, wires, rpcOpen, rpcNow>>

\* chttp_slot_release, when the connection is done with the slot
ReleaseWire(s) ==
  /\ wires[s].call # "none" /\ wires[s].delivered /\ ~Delivering
  /\ wires' = [wires EXCEPT ![s] = FreeWire]
  /\ UNCHANGED <<script, calls, rpcOpen, rpcNow>>

\* chttp_async_client_stop closes admission; requests in flight still end
AsyncStop ==
  /\ rpcOpen /\ ~Delivering
  /\ rpcOpen' = FALSE
  /\ UNCHANGED <<script, calls, wires, rpcNow>>

\* time passes
RpcTick ==
  /\ rpcNow < RpcTime
  /\ rpcNow' = rpcNow + 1
  /\ UNCHANGED <<script, calls, wires, rpcOpen>>

RpcClientNext ==
  \/ \E c \in Callers : \/ SyncCall(c) \/ SyncPrepare(c) \/ SyncPosted(c) \/ SyncDecode(c)
                        \/ AsyncStart(c) \/ AsyncSubmit(c) \/ AsyncCancel(c) \/ RpcCallback(c)
  \/ \E s \in 1..WireSlots : ResponseArrives(s) \/ TransportFails(s) \/ ReleaseWire(s)
  \/ ExpireDeadlines \/ AsyncStop \/ RpcTick
RpcClientSpec == RpcClientInit /\ [][RpcClientNext]_rpcClientVars

-----------------------------------------------------------------------------
(* Properties *)

Answered == {"SUCCESS", "TYPED", "REMOTE"}

\* How often a call ends, with what, and what it leaves in the caller's storage.
\* An accepted asynchronous call is in exactly one slot until it ends, ends once
\* and frees its context then; a refused one never ends and leaves no context.
\* The storage holds a value after success alone, is cleared after a failure that
\* had initialised it, and is untouched by a call that was refused, canceled or
\* timed out asynchronously ("The caller's destination is untouched until a real
\* terminal RPC response exists", chttp_client_rpc_async_complete).
CallsSettle ==
  \A c \in Callers :
    LET call == calls[c]
        mine == {s \in 1..WireSlots : wires[s].call = c /\ ~wires[s].delivered}
    IN  /\ call.ends = (IF call.stage = "done" THEN 1 ELSE 0)
        /\ Cardinality(mine) = (IF call.stage = "open" THEN 1 ELSE 0)
        /\ call.context = (script[c].kind = "async" /\ call.stage \in {"prepare", "open", "deliver"})
        /\ call.stage = "rejected" => call.native = "untouched"
        /\ call.stage = "done" =>
             /\ (call.native = "value") = (call.result = "SUCCESS")
             /\ call.typed = (call.result = "TYPED")
             /\ call.native = "init" => call.result \in {"TYPED", "REMOTE"}
             /\ script[c].kind = "async" /\ call.result \in {"ETIMEDOUT", "ECANCELED", "EIO"} => call.native = "untouched"

\* An answer is projected only onto the call it was meant for, and in time, and
\* a failure is blamed on what caused it.  The answer's id is the one the call
\* was sent with, and two requests in flight never carry the same id.  No answer
\* is reported whose last look at the clock was at or past the call's deadline:
\* blocking calls look after decoding, asynchronous ones when the slot delivers,
\* before it.  A timeout is blamed on the deadline ("rpc-deadline",
\* "request-deadline") only by a call that has one and past it, so one that comes
\* earlier is the transport's own, and a request its caller canceled before the
\* deadline was noticed is reported as canceled even when the deadline has passed
\* ("An ordinary user cancel wins", chttp_slot_deliver).
AnswersMeetTheirCall ==
  /\ \A c \in Callers : calls[c].stage = "done" =>
       LET call == calls[c]
           end == call.started + script[c].deadline
       IN  /\ call.result \in Answered =>
                script[c].answer.id = script[c].id /\ (script[c].deadline # 0 => call.at < end)
           /\ call.blame = "deadline" => call.result = "ETIMEDOUT" /\ script[c].deadline # 0 /\ call.at >= end
  /\ \A s \in 1..WireSlots :
       /\ wires[s].delivered /\ wires[s].canceled /\ ~wires[s].expired => calls[wires[s].call].result = "ECANCELED"
       /\ \A t \in 1..WireSlots : s # t /\ wires[s].call # "none" /\ wires[t].call # "none" => wires[s].id # wires[t].id

\* The parameters a client sends are the ones the server's selection finds: when
\* a call goes out, every entry of its plan is absent, null or a value at the
\* server exactly as it was at the client, by name or by position.
ParamsArrive ==
  \A c \in Callers : calls[c].stage \in {"post", "open"} =>
    LET plan == script[c].plan
    IN  \A i \in 1..Len(plan.entries) :
          ParamOpen(ParamsMode(plan), EncodeParams(plan).members, plan.entries[i].name, plan.entries[i].ordinal)
            = EntryState(plan.entries[i])
=============================================================================
