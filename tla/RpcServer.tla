------------------------------ MODULE RpcServer ------------------------------
(***************************************************************************)
(* JSON-RPC on the HTTP server: the registry and its dispatcher            *)
(* (http_server/rpc/crpc_server.c) and the generated services behind it    *)
(* (http_server/rpc/chttp_server_rpc_service.c).  Methods are mounted      *)
(* before the server starts; then every connection owner, a thread of its  *)
(* own, dispatches requests and batches.  Owners share the method records, *)
(* which no call writes, and a table of call slots, each the frame one     *)
(* native call is bound into.                                              *)
(*                                                                         *)
(* A document is a record of what the dispatcher tells apart.  Encoded     *)
(* answers are their sizes.  Memory for an item's params reader may run    *)
(* out; memory for an answer and for a batch's table of answers may not.   *)
(***************************************************************************)
EXTENDS Integers, Sequences, SequencesExt, FiniteSets, FiniteSetsExt

CONSTANTS Owners,       \* connection owners
          SlotCap,      \* max_inflight_calls
          RegistryCap,  \* method_capacity
          BatchCap,     \* max_batch_items
          BodyLimit,    \* max_buffered_response_body_bytes
          ErrorSize,    \* the largest protocol error
          FrameBytes,   \* max_call_frame_bytes
          Alignment,    \* of any fundamental type
          Mounts,       \* methods the host mounts or registers
          Documents,    \* request bodies
          MaxRpcRequests   \* bound on requests

ASSUME RpcAssumption ==
  /\ SlotCap \in Nat \ {0} /\ BatchCap \in Nat \ {0} /\ ErrorSize \in Nat \ {0}
  /\ BodyLimit \in Nat /\ FrameBytes \in Nat /\ Alignment \in Nat \ {0}

VARIABLES reg,     \* crpc_server_impl and the generated service's method table
          frames,   \* call_slots: claimed, and the owner whose values the frame holds
          work,    \* per owner, the request it dispatches
          handled  \* requests taken so far

rpcVars == <<reg, frames, work, handled>>

NoOwner == "none"
RpcIdle == [stage |-> "idle", doc |-> [kind |-> "none", target |-> "", items |-> <<>>], at |-> 0, limit |-> 0,
            replies |-> <<>>, size |-> 0, status |-> "OK", slot |-> 0, ended |-> "OK", answer |-> [code |-> "none", size |-> 0]]

\* chttp_rpc_registry_config_validate: room for a batch of protocol errors
MinimumResponse == BatchCap * ErrorSize + (BatchCap - 1) + 2

\* chttp_server_rpc_configure, refused when the limits do not fit
RpcInit ==
  /\ reg = [configured |-> BodyLimit >= MinimumResponse, phase |-> "mounting",
            methods |-> <<>>, leases |-> 0, generated |-> 0]
  /\ frames = [i \in 1..SlotCap |-> [claimed |-> FALSE, frame |-> NoOwner]]
  /\ work = [o \in Owners |-> RpcIdle]
  /\ handled = 0

-----------------------------------------------------------------------------
(* Mounting *)

\* chttp_rpc_service_align_offset
Aligned(n) == n + ((Alignment - (n % Alignment)) % Alignment)

\* chttp_rpc_service_add_aligned_size: beyond the limit once it fails
AddAligned(total, bytes, limit) ==
  IF total > limit \/ Aligned(total) > limit \/ bytes > limit - Aligned(total) THEN limit + 1
  ELSE Aligned(total) + bytes

\* chttp_rpc_service_execution_admit: the bytes a call's frame takes
FrameTotal(m) ==
  LET params == AddAligned(AddAligned(0, m.request, FrameBytes), m.response, FrameBytes)
  IN  IF m.error = 0 THEN params ELSE AddAligned(params, m.error, FrameBytes)
ExecutionAdmit(m) == m.fault \notin {"execution", "align", "async"} /\ FrameTotal(m) <= FrameBytes

\* crpc_server_register_impl: the registry, unchanged when it refuses
FindMethod(r, target, name) == {k \in 1..Len(r.methods) : r.methods[k].target = target /\ r.methods[k].name = name}
Routed(r, target) == \E k \in 1..Len(r.methods) : r.methods[k].target = target
Registered(r, m) ==
  IF \/ m.fault = "name" \/ FindMethod(r, m.target, m.name) # {} \/ Len(r.methods) = RegistryCap
     \/ ~Routed(r, m.target) /\ m.fault = "route"
  THEN r ELSE [r EXCEPT !.methods = Append(@, m)]

\* chttp_rpc_service_method_release
ReleaseLease(r, m) == IF m.plugin THEN [r EXCEPT !.leases = @ - 1] ELSE r

\* chttp_server_rpc_generated_mount: the lease is taken before the record is
\* registered and given back when that fails
MountGenerated(r, m) ==
  LET leased == IF m.plugin THEN [r EXCEPT !.leases = @ + 1] ELSE r
      done   == Registered(leased, m)
  IN  IF m.fault = "plan" \/ r.generated = RegistryCap \/ ~ExecutionAdmit(m) \/ (m.plugin /\ m.fault = "lease") THEN r
      ELSE IF done = leased THEN ReleaseLease(leased, m) ELSE [done EXCEPT !.generated = @ + 1]

\* chttp_server_rpc_mount and chttp_server_rpc_register
RpcMount(m) ==
  /\ reg.configured /\ reg.phase = "mounting"
  /\ reg' = (IF m.generated THEN MountGenerated(reg, m) ELSE Registered(reg, m))
  /\ UNCHANGED <<frames, work, handled>>

\* chttp_server_start: mounting is over
RpcStart ==
  /\ reg.phase = "mounting"
  /\ reg' = [reg EXCEPT !.phase = "serving"]
  /\ UNCHANGED <<frames, work, handled>>

-----------------------------------------------------------------------------
(* Dispatching *)

\* crpc_json_encode_error of a protocol error: only METHOD_NOT_FOUND's message
\* is the longest
ProtocolSize(code) == IF code = "METHOD_NOT_FOUND" THEN ErrorSize ELSE ErrorSize - 1

\* crpc_server_dispatch_object's reading of an item
ShapeValid(item) == item.object /\ item.version
Notification(item) == ShapeValid(item) /\ item.id = "none"
Malformed(item) == ~ShapeValid(item) \/ item.params \in {"twice", "scalar"} \/ item.id \in {"twice", "other"}

\* what an item answers with: [code, size], code "none" when nothing is emitted,
\* "FAILED" when the answer does not fit
NoAnswer == [code |-> "none", size |-> 0]
ProtocolError(code, limit) ==
  IF ProtocolSize(code) > limit THEN [code |-> "FAILED", size |-> 0] ELSE [code |-> code, size |-> ProtocolSize(code)]
Refuse(item, code, limit) == IF Notification(item) THEN NoAnswer ELSE ProtocolError(code, limit)

\* crpc_server_batch: one item's answer joins the batch
Collected(w, answer) ==
  LET sep == IF w.replies = <<>> THEN 0 ELSE 1
      fits == w.status = "OK" /\ w.size + sep + answer.size <= BodyLimit
  IN  CASE answer.code = "none"   -> w
        [] answer.code = "FAILED" -> [w EXCEPT !.status = IF @ = "OK" THEN "EMSGSIZE" ELSE @]
        [] fits -> [w EXCEPT !.replies = Append(@, [item |-> w.at, code |-> answer.code, ended |-> w.ended]), !.size = @ + sep + answer.size]
        [] OTHER -> [w EXCEPT !.status = IF @ = "OK" THEN "EMSGSIZE" ELSE @]

\* one item is done: the next one, or the reply
Settled(w, answer) ==
  LET c == IF w.doc.kind = "batch" THEN Collected(w, answer)
           ELSE CASE answer.code = "none"   -> w
                  [] answer.code = "FAILED" -> [w EXCEPT !.status = "EMSGSIZE"]
                  [] OTHER -> [w EXCEPT !.replies = <<[item |-> w.at, code |-> answer.code, ended |-> w.ended]>>, !.size = answer.size]
  IN  [c EXCEPT !.at = @ + 1, !.answer = NoAnswer, !.slot = 0, !.ended = "OK",
                !.stage = IF w.at = Len(w.doc.items) THEN "reply" ELSE "item"]

\* A fault: every item of a batch may fill the body.
ParsedUnshared(doc) ==
  LET n == Len(doc.items)
      w == [RpcIdle EXCEPT !.doc = doc, !.limit = BodyLimit, !.at = 1, !.size = IF doc.kind = "batch" THEN 2 ELSE 0]
      error(code) == [w EXCEPT !.stage = "reply", !.replies = <<[item |-> 0, code |-> code, ended |-> "OK"]>>, !.size = ProtocolSize(code)]
  IN  CASE doc.kind \in {"empty", "deep", "broken"} -> error("PARSE_ERROR")
        [] doc.kind = "batch" /\ n \notin 1..BatchCap -> error("INVALID_REQUEST")
        [] OTHER -> [w EXCEPT !.stage = "item"]

\* crpc_server_route_handler and the head of crpc_server_batch
Parsed(doc) ==
  LET n == Len(doc.items)
      w == [RpcIdle EXCEPT !.doc = doc, !.limit = BodyLimit, !.at = 1, !.size = IF doc.kind = "batch" THEN 2 ELSE 0]
      error(code) == [w EXCEPT !.stage = "reply", !.replies = <<[item |-> 0, code |-> code, ended |-> "OK"]>>, !.size = ProtocolSize(code)]
  IN  CASE doc.kind \in {"empty", "deep", "broken"} -> error("PARSE_ERROR")
        [] doc.kind = "batch" /\ n \notin 1..BatchCap -> error("INVALID_REQUEST")
        [] doc.kind = "batch" /\ n \in 1..BatchCap /\ n + 1 > BodyLimit ->
             [w EXCEPT !.stage = "reply", !.status = "ERANGE"]
        [] doc.kind = "batch" /\ n \in 1..BatchCap /\ n + 1 <= BodyLimit /\ ((BodyLimit - (n + 1)) \div n) < ErrorSize ->
             [w EXCEPT !.stage = "reply", !.status = "EMSGSIZE"]
        [] doc.kind = "batch" /\ n \in 1..BatchCap /\ n + 1 <= BodyLimit /\ ((BodyLimit - (n + 1)) \div n) >= ErrorSize ->
             [w EXCEPT !.stage = "item", !.limit = ((BodyLimit - (n + 1)) \div n)]
        [] doc.kind = "one" -> [w EXCEPT !.stage = "item"]

RouteHandler(o, doc) ==
  /\ reg.phase = "serving" /\ handled < MaxRpcRequests
  /\ work[o].stage = "idle" /\ Routed(reg, doc.target)
  /\ work' = [work EXCEPT ![o] = Parsed(doc)]
  /\ handled' = handled + 1
  /\ UNCHANGED <<reg, frames>>

Item(w) == w.doc.items[w.at]
Method(w) == reg.methods[CHOOSE k \in FindMethod(reg, w.doc.target, Item(w).method) : TRUE]

\* crpc_server_dispatch_object up to the handler
DispatchObject(o) ==
  LET w == work[o]
      item == Item(w)
  IN  /\ w.stage = "item"
      /\ work' = [work EXCEPT ![o] =
           CASE Malformed(item) -> Settled(w, Refuse(item, "INVALID_REQUEST", w.limit))
             [] ~Malformed(item) /\ FindMethod(reg, w.doc.target, item.method) = {} ->
                  Settled(w, Refuse(item, "METHOD_NOT_FOUND", w.limit))
             [] ~Malformed(item) /\ FindMethod(reg, w.doc.target, item.method) # {} /\ item.outcome = "noreader" ->
                  Settled(w, Refuse(item, "INTERNAL_ERROR", w.limit))
             [] OTHER -> [w EXCEPT !.stage = IF Method(w).generated THEN "claim" ELSE "user", !.slot = 1]]
      /\ UNCHANGED <<reg, frames, handled>>

\* crpc_server_response_result and crpc_server_response_error: completed once,
\* encoded within the limit, not at all for a notification
Respond(w, code, size) ==
  IF ~Notification(Item(w)) /\ size > w.limit THEN [w EXCEPT !.ended = "EMSGSIZE"]
  ELSE [w EXCEPT !.ended = "OK", !.answer = [code |-> code, size |-> size]]

\* a handler registered by the host (external): it answers or not, and returns a status
UserHandler(o) ==
  LET w == work[o]
      answered == Respond(w, "RESULT", Item(w).size)
  IN  /\ w.stage = "user"
      /\ work' = [work EXCEPT ![o] = [(CASE Item(w).outcome = "mute"  -> w
                                         [] Item(w).outcome = "error" -> [answered EXCEPT !.ended = "EIO"]
                                         [] OTHER -> answered) EXCEPT !.stage = "return"]]
      /\ UNCHANGED <<reg, frames, handled>>

\* the handler has returned: the rest of crpc_server_dispatch_object
CallReturns(o) ==
  LET w == work[o]
      completed == w.answer.code # "none"
  IN  /\ w.stage = "return"
      /\ work' = [work EXCEPT ![o] =
           Settled(w, IF Notification(Item(w)) THEN NoAnswer
                      ELSE IF w.ended # "OK" \/ ~completed THEN ProtocolError("INTERNAL_ERROR", w.limit)
                      ELSE w.answer)]
      /\ UNCHANGED <<reg, frames, handled>>

-----------------------------------------------------------------------------
(* A generated call: chttp_rpc_service_handler *)

\* A fault: the frame of a claimed slot is not zeroed.
ClaimSlotUncleared(o) ==
  LET w == work[o]
  IN  /\ w.stage = "claim"
      /\ IF w.slot > SlotCap
         THEN work' = [work EXCEPT ![o] = [w EXCEPT !.ended = "ENOBUFS", !.stage = "return"]] /\ UNCHANGED frames
         ELSE IF frames[w.slot].claimed
         THEN work' = [work EXCEPT ![o].slot = @ + 1] /\ UNCHANGED frames
         ELSE /\ frames' = [frames EXCEPT ![w.slot].claimed = TRUE]
              /\ work' = [work EXCEPT ![o].stage = "bind"]
      /\ UNCHANGED <<reg, handled>>

\* chttp_rpc_service_slot_acquire: one compare-and-swap per slot; the frame of
\* the slot it gets is zeroed
ClaimSlot(o) ==
  LET w == work[o]
  IN  /\ w.stage = "claim"
      /\ IF w.slot > SlotCap
         THEN work' = [work EXCEPT ![o] = [w EXCEPT !.ended = "ENOBUFS", !.stage = "return"]] /\ UNCHANGED frames
         ELSE IF frames[w.slot].claimed
         THEN work' = [work EXCEPT ![o].slot = @ + 1] /\ UNCHANGED frames
         ELSE /\ frames' = [frames EXCEPT ![w.slot] = [claimed |-> TRUE, frame |-> NoOwner]]
              /\ work' = [work EXCEPT ![o].stage = "bind"]
      /\ UNCHANGED <<reg, handled>>

\* data_bind_binding_plan_bind_call over chttp_rpc_service_open_input: the frame
\* is live only after complete ingress; a partial one is restored by DataBind.
\* chttp_rpc_service_input_failure tells the client's faults from the server's
BindCall(o) ==
  LET w == work[o]
      outcome == Item(w).outcome
  IN  /\ w.stage = "bind"
      /\ CASE outcome = "badparams" -> /\ work' = [work EXCEPT ![o] = [Respond(w, "INVALID_PARAMS", ErrorSize - 1) EXCEPT !.stage = "release"]]
                                       /\ UNCHANGED frames
           [] outcome = "bindfault" -> /\ work' = [work EXCEPT ![o] = [w EXCEPT !.ended = "EPROTO", !.stage = "release"]]
                                       /\ UNCHANGED frames
           [] OTHER -> /\ work' = [work EXCEPT ![o].stage = "invoke"]
                       /\ frames' = [frames EXCEPT ![w.slot].frame = o]
      /\ UNCHANGED <<reg, handled>>

\* invoke, data_bind_binding_plan_write_outcome over begin/write/commit_output,
\* and the answer the outcome asks for; a failed egress is the server's fault
NativeOutcome(w) ==
  CASE Item(w).outcome \in {"trap", "egress", "unmapped"} -> [w EXCEPT !.ended = "EPROTO"]
    [] Item(w).outcome = "typed"  -> Respond(w, "TYPED", Item(w).size)
    [] Item(w).outcome = "native" -> Respond(w, "NATIVE_STATUS", Item(w).size)
    [] OTHER                      -> Respond(w, "RESULT", Item(w).size)
InvokeNative(o) ==
  /\ work[o].stage = "invoke"
  /\ work' = [work EXCEPT ![o] = [NativeOutcome(work[o]) EXCEPT !.stage = "restore"]]
  /\ UNCHANGED <<reg, frames, handled>>

\* data_bind_binding_call_restore_zero on a live frame; when it fails the values stay
RestoreZero(o) ==
  LET w == work[o]
  IN  /\ w.stage = "restore"
      /\ frames' = [frames EXCEPT ![w.slot].frame = IF Item(w).outcome = "stuck" THEN @ ELSE NoOwner]
      /\ work' = [work EXCEPT ![o] = [w EXCEPT !.stage = "release",
                    !.ended = IF Item(w).outcome = "stuck" /\ @ = "OK" THEN "EPROTO" ELSE @]]
      /\ UNCHANGED <<reg, handled>>

\* chttp_rpc_service_slot_release
ReleaseSlot(o) ==
  /\ work[o].stage = "release"
  /\ frames' = [frames EXCEPT ![work[o].slot].claimed = FALSE]
  /\ work' = [work EXCEPT ![o].stage = "return"]
  /\ UNCHANGED <<reg, handled>>

-----------------------------------------------------------------------------
(* Replying and closing *)

\* the end of crpc_server_route_handler: 200 with the answers, 204 without, or
\* the handler's failure; the batch is encoded here
SendReplies(o) ==
  /\ work[o].stage = "reply"
  /\ work' = [work EXCEPT ![o] = [@ EXCEPT !.stage = "sent",
                !.replies = IF work[o].status = "OK" THEN @ ELSE <<>>]]
  /\ UNCHANGED <<reg, frames, handled>>

\* the connection owner is done with the response (external)
ReplySent(o) ==
  /\ work[o].stage = "sent"
  /\ work' = [work EXCEPT ![o] = RpcIdle]
  /\ UNCHANGED <<reg, frames, handled>>

\* chttp_server_rpc_owner_release, once no callback runs: every lease is given
\* back and the tables are freed
RpcRelease ==
  /\ reg.phase # "released"
  /\ \A o \in Owners : work[o].stage = "idle"
  /\ reg' = [reg EXCEPT !.phase = "released", !.generated = 0, !.methods = <<>>,
               !.leases = @ - Cardinality({k \in 1..Len(reg.methods) : reg.methods[k].generated /\ reg.methods[k].plugin})]
  /\ frames' = [i \in 1..SlotCap |-> [claimed |-> FALSE, frame |-> NoOwner]]
  /\ UNCHANGED <<work, handled>>

RpcNext ==
  \/ \E m \in Mounts : RpcMount(m)
  \/ RpcStart
  \/ \E o \in Owners : \/ \E doc \in Documents : RouteHandler(o, doc)
                       \/ DispatchObject(o) \/ UserHandler(o) \/ CallReturns(o)
                       \/ ClaimSlot(o) \/ BindCall(o) \/ InvokeNative(o) \/ RestoreZero(o) \/ ReleaseSlot(o)
                       \/ SendReplies(o) \/ ReplySent(o)
  \/ RpcRelease
RpcSpec == RpcInit /\ [][RpcNext]_rpcVars

-----------------------------------------------------------------------------
(* Properties *)

InSlot == {"bind", "invoke", "restore", "release"}

\* The offsets a call lays its values out at (chttp_rpc_service_handler)
Offsets(m) == <<0, Aligned(m.request), Aligned(Aligned(m.request) + m.response)>>
ItemEnds(m) == <<m.request, Offsets(m)[2] + m.response, Offsets(m)[3] + m.error>>

\* The values of a mounted method do not overlap and stay in the frame the mount
\* charged them to (chttp_rpc_service_execution_admit).
FramesFit ==
  \A k \in 1..Len(reg.methods) : reg.methods[k].generated =>
    LET m == reg.methods[k]
    IN  /\ ItemEnds(m)[1] <= Offsets(m)[2] /\ ItemEnds(m)[2] <= Offsets(m)[3]
        /\ ItemEnds(m)[2] <= FrameBytes /\ (m.error # 0 => ItemEnds(m)[3] <= FrameBytes)

\* The frame of a call slot is one call's alone: no two owners are inside the
\* same slot, a call binds into a zeroed frame whatever the last one left, and
\* the values an owner bound are still there when the native function runs and
\* when they are restored (chttp_rpc_service_handler restores before it
\* releases); they fit the frame.  A call never runs on a method whose table was
\* freed, and the registry holds one plugin lease for every mounted plugin method
\* and none for a mount that failed (chttp_rpc_service_method_release).
FramesArePrivate ==
  /\ FramesFit
  /\ reg.leases = Cardinality({k \in 1..Len(reg.methods) : reg.methods[k].generated /\ reg.methods[k].plugin})
  /\ \A o \in Owners : work[o].stage \in InSlot =>
       /\ frames[work[o].slot].claimed
       /\ work[o].stage = "bind" => frames[work[o].slot].frame = NoOwner
       /\ work[o].stage \in {"invoke", "restore"} => frames[work[o].slot].frame = o
       /\ \A p \in Owners \ {o} : work[p].stage \in InSlot => work[p].slot # work[o].slot
       /\ FindMethod(reg, work[o].doc.target, Item(work[o]).method) # {}

\* What an item calls for: the handler's answer when it fits the item's share, an
\* internal error when the server is at fault or no call slot was free
Called(item, generated) ==
  CASE item.outcome = "badparams" /\ generated -> "INVALID_PARAMS"
    [] item.outcome = "typed" /\ generated     -> "TYPED"
    [] item.outcome = "native" /\ generated    -> "NATIVE_STATUS"
    [] item.outcome \in (IF generated THEN {"bindfault", "trap", "egress", "unmapped", "stuck", "noreader"}
                         ELSE {"mute", "error", "noreader"}) -> "INTERNAL_ERROR"
    [] OTHER -> "RESULT"
Expected(w, item, ended) ==
  LET found == FindMethod(reg, w.doc.target, item.method)
      called == Called(item, reg.methods[CHOOSE k \in found : TRUE].generated)
  IN  CASE Malformed(item) -> "INVALID_REQUEST"
        [] ~Malformed(item) /\ found = {} -> "METHOD_NOT_FOUND"
        [] OTHER -> IF ended = "ENOBUFS" \/ (called \in {"RESULT", "TYPED", "NATIVE_STATUS"} /\ item.size > w.limit)
                    THEN "INTERNAL_ERROR" ELSE called

\* A batch of an admitted size is answered in full whatever its items do: one
\* answer per item that is not a notification, in the order of the items and of
\* the kind the item calls for, and never a body above the limit.  An answer
\* too large for its share becomes an internal error of that item alone.  The
\* registry's minimum and the per-item share of crpc_server_batch make it so.
BatchesAnswered ==
  \A o \in Owners : work[o].stage = "sent" /\ work[o].doc.kind = "batch" /\ Len(work[o].doc.items) \in 1..BatchCap =>
    LET items == work[o].doc.items
        due == SetToSortSeq({k \in 1..Len(items) : ~Notification(items[k])}, <)
        replies == work[o].replies
    IN  /\ work[o].status = "OK" /\ work[o].size <= BodyLimit
        /\ [k \in 1..Len(replies) |-> replies[k].item] = due
        /\ \A k \in 1..Len(replies) : replies[k].code = Expected(work[o], items[replies[k].item], replies[k].ended)
=============================================================================
