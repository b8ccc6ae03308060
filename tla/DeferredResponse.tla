-------------------------- MODULE DeferredResponse --------------------------
(***************************************************************************)
(* Deferred HTTP/1.1 responses of one owner lane.  A handler running on    *)
(* the owner thread defers its response and hands a generation-checked     *)
(* handle to application threads (the workers); any worker may later reply *)
(* through it or cancel it, while the owner expires it, loses its          *)
(* connection, reuses its slot or shuts down.  Everything is decided by    *)
(* one atomic word per connection slot, (generation, state):               *)
(*                                                                         *)
(*   idle --defer--> writing --> pending --claim--> writing --publish-->   *)
(*   ready | canceled --owner drains--> idle                               *)
(*                                                                         *)
(* The owner thread is sequential: an owner action that begins while       *)
(* opc = "loop" is one callback or one pass over one slot of its loop, and *)
(* the callbacks that a worker can interleave with are split at the token  *)
(* accesses.  A worker may try any handle ever issued for a slot, stale    *)
(* ones and copies included; an attempt whose claim is refused (ENOENT,    *)
(* EALREADY) changes nothing and is a stuttering step.                     *)
(***************************************************************************)
EXTENDS Naturals

CONSTANTS
    Slots,          \* connection slots of the owner
    Workers,        \* application threads
    NoWorker,       \* holder of the free lifecycle mutex
    MaxGeneration,  \* bound on the deferrals of one slot (2^32 - 1 in the code)
    MaxPeer         \* bound on the connections one slot serves

ASSUME GenerationAssumption == MaxGeneration \in Nat \ {0}
ASSUME PeerAssumption == MaxPeer \in Nat \ {0}
ASSUME NoWorkerAssumption == NoWorker \notin Workers

VARIABLES
    \* deferred_token of each slot, one atomic word in the code
    generation, phase,
    \* the connection in each slot
    conn,           \* free, opening, open, closing (close_after_write), retired
    peer,           \* server_generation: which connection the slot serves
    disconnected,   \* slots with deferred_disconnected set
    deadline,       \* request_state.deadline_ms: off, armed, expired
    base,           \* generation whose headers request_state.response_builder holds
    built,          \* generation whose response deferred_builder holds
    sending,        \* generation whose response is in outbound
    \* the owner thread and the server
    opc, oslot,     \* where the owner is, and the slot it works on
    mode,           \* running, draining, cleanup, done
    flags,          \* subset of {"stop", "failed"}
    net,            \* the owner's CNet client: up, down
    mutex,          \* holder of the server lifecycle mutex
    \* the workers
    wpc, wslot, wgen, wop,
    \* what happened so far: the contract's view
    admitted, replied, canceled, delivered

tokenVars    == <<generation, phase>>
connVars     == <<conn, peer, disconnected, deadline, sending>>
builderVars  == <<base, built>>
ownerVars    == <<opc, oslot, mode, flags, net>>
workerVars   == <<wpc, wslot, wgen, wop>>
historyVars  == <<admitted, replied, canceled, delivered>>
vars == <<tokenVars, connVars, builderVars, ownerVars, mutex, workerVars, historyVars>>

Generations == 1 .. MaxGeneration
Peers       == 1 .. MaxPeer
TokenStates == {"idle", "pending", "writing", "ready", "canceled"}
ConnStates  == {"free", "opening", "open", "closing", "retired"}
Active      == {s \in Slots : conn[s] \in {"opening", "open", "closing"}}

\* Every variable has its type.
TypeOK ==
    /\ generation \in [Slots -> 0 .. MaxGeneration]
    /\ phase \in [Slots -> TokenStates]
    /\ conn \in [Slots -> ConnStates]
    /\ peer \in [Slots -> 0 .. MaxPeer]
    /\ disconnected \subseteq Slots
    /\ deadline \in [Slots -> {"off", "armed", "expired"}]
    /\ base \in [Slots -> 0 .. MaxGeneration]
    /\ built \in [Slots -> 0 .. MaxGeneration]
    /\ sending \in [Slots -> 0 .. MaxGeneration]
    /\ opc \in {"loop", "defer", "chain", "expire"}
    /\ oslot \in Slots
    /\ mode \in {"running", "draining", "cleanup", "done"}
    /\ flags \subseteq {"stop", "failed"}
    /\ net \in {"up", "down"}
    /\ mutex \in Workers \cup {NoWorker}
    /\ wpc \in [Workers -> {"idle", "copy", "publish", "wake"}]
    /\ wslot \in [Workers -> Slots]
    /\ wgen \in [Workers -> 0 .. MaxGeneration]
    /\ wop \in [Workers -> {"reply", "cancel"}]
    /\ admitted \subseteq (Slots \X Generations) \X (Slots \X Peers)
    /\ replied \subseteq Slots \X Generations
    /\ canceled \subseteq Slots \X Generations
    /\ delivered \subseteq (Slots \X Generations) \X (Slots \X Peers)

Init ==
    /\ generation = [s \in Slots |-> 0]
    /\ phase = [s \in Slots |-> "idle"]
    /\ conn = [s \in Slots |-> "free"]
    /\ peer = [s \in Slots |-> 0]
    /\ disconnected = {}
    /\ deadline = [s \in Slots |-> "off"]
    /\ base = [s \in Slots |-> 0]
    /\ built = [s \in Slots |-> 0]
    /\ sending = [s \in Slots |-> 0]
    /\ opc = "loop"
    /\ oslot \in Slots
    /\ mode = "running"
    /\ flags = {}
    /\ net = "up"
    /\ mutex = NoWorker
    /\ wpc = [w \in Workers |-> "idle"]
    /\ wslot \in [Workers -> Slots]
    /\ wgen = [w \in Workers |-> 0]
    /\ wop = [w \in Workers |-> "reply"]
    /\ admitted = {}
    /\ replied = {}
    /\ canceled = {}
    /\ delivered = {}

-----------------------------------------------------------------------------
(* Connections: admission, transport callbacks, slot recycling.            *)

\* The owner is between two callbacks and its loop still runs.
OwnerIdle ==
    /\ opc = "loop"
    /\ mode \in {"running", "draining"}
    /\ "failed" \notin flags

\* chttp_server_admission_progress() puts an accepted stream in a free slot
\* and connection_activate() starts its next incarnation.
Accept(s) ==
    /\ OwnerIdle /\ mode = "running"
    /\ conn[s] = "free" /\ phase[s] = "idle"
    /\ peer[s] < MaxPeer
    /\ conn' = [conn EXCEPT ![s] = "opening"]
    /\ peer' = [peer EXCEPT ![s] = @ + 1]
    /\ disconnected' = disconnected \ {s}
    /\ deadline' = [deadline EXCEPT ![s] = "off"]
    /\ sending' = [sending EXCEPT ![s] = 0]
    /\ base' = [base EXCEPT ![s] = 0]
    /\ UNCHANGED <<tokenVars, built, ownerVars, mutex, workerVars, historyVars>>

\* on_state(CONNECTED): the protocol is selected and the first receive armed.
Connected(s) ==
    /\ OwnerIdle
    /\ conn[s] = "opening"
    /\ conn' = [conn EXCEPT ![s] = "open"]
    /\ UNCHANGED <<tokenVars, peer, disconnected, deadline, sending, builderVars,
                   ownerVars, mutex, workerVars, historyVars>>

\* connection_close() for a reason outside this module (a protocol error).
CloseConnection(s) ==
    /\ OwnerIdle
    /\ conn[s] \in {"opening", "open"}
    /\ conn' = [conn EXCEPT ![s] = "closing"]
    /\ UNCHANGED <<tokenVars, peer, disconnected, deadline, sending, builderVars,
                   ownerVars, mutex, workerVars, historyVars>>

\* on_state(CLOSED or FAILED): the peer, the network or an accepted close
\* ended the connection.  A request whose response is still deferred keeps
\* its request state and builders: a worker may be reading them.
ConnectionClosed(s) ==
    /\ OwnerIdle
    /\ s \in Active
    /\ conn' = [conn EXCEPT ![s] = "retired"]
    /\ sending' = [sending EXCEPT ![s] = 0]
    /\ \/ /\ phase[s] = "idle"
          /\ base' = [base EXCEPT ![s] = 0]
          /\ built' = [built EXCEPT ![s] = 0]
          /\ deadline' = [deadline EXCEPT ![s] = "off"]
          /\ UNCHANGED disconnected
       \/ /\ phase[s] # "idle"
          /\ disconnected' = disconnected \cup {s}
          /\ UNCHANGED <<builderVars, deadline>>
    /\ UNCHANGED <<tokenVars, peer, ownerVars, mutex, workerVars, historyVars>>

\* chttp_server_manager_progress(): a closed slot is free again once nothing
\* can complete a response in it.
Recycle(s) ==
    /\ OwnerIdle
    /\ conn[s] = "retired" /\ phase[s] = "idle"
    /\ conn' = [conn EXCEPT ![s] = "free"]
    /\ UNCHANGED <<tokenVars, peer, disconnected, deadline, sending, builderVars,
                   ownerVars, mutex, workerVars, historyVars>>

\* on_send(): the serialized response has left; a connection that is to close
\* closes, another resumes its paused parser.
SendCompleted(s) ==
    /\ OwnerIdle
    /\ s \in Active
    /\ sending[s] # 0
    /\ sending' = [sending EXCEPT ![s] = 0]
    /\ UNCHANGED <<tokenVars, conn, peer, disconnected, deadline, builderVars,
                   ownerVars, mutex, workerVars, historyVars>>

-----------------------------------------------------------------------------
(* Deferring: the handler runs inside the owner's receive callback.        *)

\* The request is dispatched (its handler deadline starts when one is
\* configured) and chttp_server_response_defer() wins the idle token for a
\* new generation.
Defer(s) ==
    /\ OwnerIdle
    /\ conn[s] = "open" /\ sending[s] = 0
    /\ phase[s] = "idle"
    /\ generation[s] < MaxGeneration
    /\ generation' = [generation EXCEPT ![s] = @ + 1]
    /\ phase' = [phase EXCEPT ![s] = "writing"]
    /\ base' = [base EXCEPT ![s] = generation[s] + 1]
    /\ \E d \in {"off", "armed"} : deadline' = [deadline EXCEPT ![s] = d]
    /\ admitted' = admitted \cup {<< <<s, generation[s] + 1>>, <<s, peer[s]>> >>}
    /\ opc' = "defer"
    /\ oslot' = s
    /\ UNCHANGED <<conn, peer, disconnected, sending, built, mode, flags, net,
                   mutex, workerVars, replied, canceled, delivered>>

\* The target builder is reset and the handle published to the workers.
PublishHandle ==
    /\ opc = "defer"
    /\ built' = [built EXCEPT ![oslot] = 0]
    /\ disconnected' = disconnected \ {oslot}
    /\ phase' = [phase EXCEPT ![oslot] = "pending"]
    /\ opc' = "chain"
    /\ UNCHANGED <<generation, conn, peer, deadline, sending, base, oslot, mode,
                   flags, net, mutex, workerVars, historyVars>>

\* chttp_server_dispatch_request() returns OK with the parser paused.
ChainReturns ==
    /\ opc = "chain"
    /\ opc' = "loop"
    /\ UNCHANGED <<tokenVars, connVars, builderVars, oslot, mode, flags, net,
                   mutex, workerVars, historyVars>>

\* A middleware fails after the deferral: on_receive() closes the connection
\* and leaves token and builders to the workers.
ChainFails ==
    /\ opc = "chain"
    /\ opc' = "loop"
    /\ conn' = [conn EXCEPT ![oslot] = "closing"]
    /\ UNCHANGED <<tokenVars, peer, disconnected, deadline, sending, builderVars,
                   oslot, mode, flags, net, mutex, workerVars, historyVars>>

-----------------------------------------------------------------------------
(* Workers: chttp_server_deferred_reply(), _reply_buffer() and _cancel().  *)

\* Mutant: the claim compares the state and not the generation.
ClaimAnyGeneration(w, s, g, op) ==
    /\ wpc[w] = "idle"
    /\ phase[s] = "pending" /\ g <= generation[s]
    /\ phase' = [phase EXCEPT ![s] = "writing"]
    /\ wpc' = [wpc EXCEPT ![w] = IF op = "reply" THEN "copy" ELSE "publish"]
    /\ wslot' = [wslot EXCEPT ![w] = s]
    /\ wgen' = [wgen EXCEPT ![w] = g]
    /\ wop' = [wop EXCEPT ![w] = op]
    /\ UNCHANGED <<generation, connVars, builderVars, ownerVars, mutex, historyVars>>

\* chttp_server_deferred_claim(): one compare-and-exchange from
\* (g, pending) to (g, writing).
Claim(w, s, g, op) ==
    /\ wpc[w] = "idle"
    /\ phase[s] = "pending" /\ generation[s] = g
    /\ phase' = [phase EXCEPT ![s] = "writing"]
    /\ wpc' = [wpc EXCEPT ![w] = IF op = "reply" THEN "copy" ELSE "publish"]
    /\ wslot' = [wslot EXCEPT ![w] = s]
    /\ wgen' = [wgen EXCEPT ![w] = g]
    /\ wop' = [wop EXCEPT ![w] = op]
    /\ UNCHANGED <<generation, connVars, builderVars, ownerVars, mutex, historyVars>>

\* The sealed headers and the worker's response are copied into the target
\* builder.
CopyResponse(w) ==
    /\ wpc[w] = "copy"
    /\ built' = [built EXCEPT ![wslot[w]] = base[wslot[w]]]
    /\ wpc' = [wpc EXCEPT ![w] = "publish"]
    /\ UNCHANGED <<tokenVars, connVars, base, ownerVars, mutex, wslot, wgen, wop,
                   historyVars>>

\* The copy fails (no buffer budget, invalid header): the builder is reset
\* and the handle is pending again, without waking the owner.
CopyFails(w) ==
    /\ wpc[w] = "copy"
    /\ built' = [built EXCEPT ![wslot[w]] = 0]
    /\ phase' = [phase EXCEPT ![wslot[w]] = "pending"]
    /\ wpc' = [wpc EXCEPT ![w] = "idle"]
    /\ UNCHANGED <<generation, connVars, base, ownerVars, mutex, wslot, wgen, wop,
                   historyVars>>

\* chttp_server_deferred_publish() takes the lifecycle mutex and stores the
\* terminal state.
Publish(w) ==
    /\ wpc[w] = "publish"
    /\ mutex = NoWorker
    /\ mutex' = w
    /\ phase' = [phase EXCEPT ![wslot[w]] = IF wop[w] = "reply" THEN "ready" ELSE "canceled"]
    /\ wpc' = [wpc EXCEPT ![w] = "wake"]
    /\ \/ /\ wop[w] = "reply"
          /\ replied' = replied \cup {<<wslot[w], wgen[w]>>}
          /\ UNCHANGED canceled
       \/ /\ wop[w] = "cancel"
          /\ canceled' = canceled \cup {<<wslot[w], wgen[w]>>}
          /\ UNCHANGED replied
    /\ UNCHANGED <<generation, connVars, builderVars, ownerVars, wslot, wgen, wop,
                   admitted, delivered>>

\* The owner is woken while the mutex still excludes the network's teardown.
WakeAndUnlock(w) ==
    /\ wpc[w] = "wake"
    /\ mutex' = NoWorker
    /\ wpc' = [wpc EXCEPT ![w] = "idle"]
    /\ UNCHANGED <<tokenVars, connVars, builderVars, ownerVars, wslot, wgen, wop,
                   historyVars>>

-----------------------------------------------------------------------------
(* The handler deadline.                                                   *)

\* Time passes.
DeadlinePasses(s) ==
    /\ deadline[s] = "armed"
    /\ deadline' = [deadline EXCEPT ![s] = "expired"]
    /\ UNCHANGED <<tokenVars, conn, peer, disconnected, sending, builderVars,
                   ownerVars, mutex, workerVars, historyVars>>

\* chttp_server_deadlines_progress() meets an expired request of a live
\* connection: it clears the deadline and goes on to cancel only a token it
\* loaded as pending.
ExpireDeadline(s) ==
    /\ OwnerIdle
    /\ conn[s] \in {"opening", "open"}
    /\ deadline[s] = "expired" /\ phase[s] # "idle"
    /\ deadline' = [deadline EXCEPT ![s] = "off"]
    /\ \/ phase[s] = "pending" /\ opc' = "expire" /\ oslot' = s
       \/ phase[s] # "pending" /\ UNCHANGED <<opc, oslot>>
    /\ UNCHANGED <<tokenVars, conn, peer, disconnected, sending, builderVars,
                   mode, flags, net, mutex, workerVars, historyVars>>

\* Its compare-and-exchange loses to a worker that claimed in between.
CancelExpired ==
    /\ opc = "expire"
    /\ opc' = "loop"
    /\ \/ /\ phase[oslot] = "pending"
          /\ phase' = [phase EXCEPT ![oslot] = "canceled"]
          /\ canceled' = canceled \cup {<<oslot, generation[oslot]>>}
       \/ /\ phase[oslot] # "pending"
          /\ UNCHANGED <<phase, canceled>>
    /\ UNCHANGED <<generation, connVars, builderVars, oslot, mode, flags, net,
                   mutex, workerVars, admitted, replied, delivered>>

-----------------------------------------------------------------------------
(* chttp_server_deferred_progress(): the owner drains terminal tokens.     *)

\* request_state and deferred_builder are reset before the token is idle.
ResetRequest(s) ==
    /\ base' = [base EXCEPT ![s] = 0]
    /\ built' = [built EXCEPT ![s] = 0]
    /\ deadline' = [deadline EXCEPT ![s] = "off"]
    /\ phase' = [phase EXCEPT ![s] = "idle"]

\* A canceled request is reset and its connection closed.
DrainCanceled(s) ==
    /\ OwnerIdle
    /\ phase[s] = "canceled"
    /\ ResetRequest(s)
    /\ disconnected' = disconnected \ {s}
    /\ conn' = [conn EXCEPT ![s] = IF s \in Active THEN "closing" ELSE @]
    /\ UNCHANGED <<generation, peer, sending, ownerVars, mutex, workerVars, historyVars>>

\* A response whose connection is gone is dropped.
DrainDisconnected(s) ==
    /\ OwnerIdle
    /\ phase[s] = "ready"
    /\ s \in disconnected \/ conn[s] \notin {"open", "closing"}
    /\ ResetRequest(s)
    /\ disconnected' = disconnected \ {s}
    /\ UNCHANGED <<generation, conn, peer, sending, ownerVars, mutex, workerVars,
                   historyVars>>

\* The response cannot be serialized: the connection is closed.
DrainUnserializable(s) ==
    /\ OwnerIdle
    /\ phase[s] = "ready"
    /\ s \notin disconnected /\ conn[s] \in {"open", "closing"}
    /\ ResetRequest(s)
    /\ conn' = [conn EXCEPT ![s] = "closing"]
    /\ UNCHANGED <<generation, peer, disconnected, sending, ownerVars, mutex,
                   workerVars, historyVars>>

\* Mutant: the connection is not checked before the response is serialized.
DrainReadyUnchecked(s) ==
    /\ OwnerIdle
    /\ phase[s] = "ready"
    /\ phase' = [phase EXCEPT ![s] = "idle"]
    /\ deadline' = [deadline EXCEPT ![s] = "off"]
    /\ sending' = [sending EXCEPT ![s] = built[s]]
    /\ delivered' = delivered \cup {<< <<s, built[s]>>, <<s, peer[s]>> >>}
    /\ UNCHANGED <<generation, conn, peer, disconnected, builderVars, ownerVars,
                   mutex, workerVars, admitted, replied, canceled>>

\* The response is serialized to the slot's connection and sent; a request
\* without keep-alive closes it afterwards.  A send the transport refuses
\* for good closes the connection and fails the owner's loop.
DrainReady(s) ==
    /\ OwnerIdle
    /\ phase[s] = "ready"
    /\ s \notin disconnected /\ conn[s] \in {"open", "closing"}
    /\ phase' = [phase EXCEPT ![s] = "idle"]
    /\ deadline' = [deadline EXCEPT ![s] = "off"]
    /\ sending' = [sending EXCEPT ![s] = built[s]]
    /\ delivered' = delivered \cup {<< <<s, built[s]>>, <<s, peer[s]>> >>}
    /\ \/ UNCHANGED <<conn, flags>>
       \/ conn' = [conn EXCEPT ![s] = "closing"] /\ UNCHANGED flags
       \/ conn' = [conn EXCEPT ![s] = "closing"] /\ flags' = flags \cup {"failed"}
    /\ UNCHANGED <<generation, peer, disconnected, builderVars, opc, oslot, mode,
                   net, mutex, workerVars, admitted, replied, canceled>>

-----------------------------------------------------------------------------
(* Shutdown of the owner lane.                                             *)

\* chttp_server_stop() or another lane's failure asks for a stop.
RequestStop ==
    /\ "stop" \notin flags
    /\ flags' = flags \cup {"stop"}
    /\ UNCHANGED <<tokenVars, connVars, builderVars, opc, oslot, mode, net, mutex,
                   workerVars, historyVars>>

\* A step of the loop fails (the poller, a retried action, admission).
LoopFails ==
    /\ OwnerIdle
    /\ flags' = flags \cup {"failed"}
    /\ UNCHANGED <<tokenVars, connVars, builderVars, opc, oslot, mode, net, mutex,
                   workerVars, historyVars>>

\* Mutant: idle keep-alive connections are left to their peers.
BeginShutdownKeepsOpen ==
    /\ opc = "loop" /\ mode = "running"
    /\ flags # {}
    /\ mode' = "draining"
    /\ UNCHANGED <<tokenVars, connVars, builderVars, opc, oslot, flags, net, mutex,
                   workerVars, historyVars>>

\* chttp_server_begin_shutdown() closes every live HTTP/1.1 connection.
BeginShutdown ==
    /\ opc = "loop" /\ mode = "running"
    /\ flags # {}
    /\ mode' = "draining"
    /\ conn' = [s \in Slots |-> IF s \in Active THEN "closing" ELSE conn[s]]
    /\ UNCHANGED <<tokenVars, peer, disconnected, deadline, sending, builderVars,
                   opc, oslot, flags, net, mutex, workerVars, historyVars>>

\* The drain loop ends when no connection is active and every token is idle
\* (chttp_server_connections_active()), or as soon as a step has failed.
Drained ==
    /\ opc = "loop" /\ mode = "draining"
    /\ \/ "failed" \in flags
       \/ \A s \in Slots : s \notin Active /\ phase[s] = "idle"
    /\ mode' = "cleanup"
    /\ UNCHANGED <<tokenVars, connVars, builderVars, opc, oslot, flags, net, mutex,
                   workerVars, historyVars>>

\* chttp_server_owner_cleanup_network(): stopping the client ends every
\* connection; the client is destroyed under the mutex, unless a manager
\* context still held by a live token keeps it, and the lane is finished.
CleanupNetwork ==
    /\ mode = "cleanup"
    /\ mutex = NoWorker
    /\ mode' = "done"
    /\ conn' = [s \in Slots |-> IF s \in Active THEN "retired" ELSE conn[s]]
    /\ disconnected' = disconnected \cup {s \in Active : phase[s] # "idle"}
    /\ sending' = [s \in Slots |-> 0]
    /\ \/ net' = "down"
       \/ net' = "up" /\ \E s \in Slots : phase[s] # "idle"
    /\ UNCHANGED <<tokenVars, peer, deadline, builderVars, opc, oslot, flags, mutex,
                   workerVars, historyVars>>

-----------------------------------------------------------------------------
\* Steps of the owner thread that no slot chooses.
OwnerThread ==
    \/ PublishHandle \/ ChainReturns \/ ChainFails \/ CancelExpired
    \/ BeginShutdown \/ Drained \/ CleanupNetwork

\* What one pass of the owner's loop does for a slot.
OwnerVisits(s) ==
    \/ ExpireDeadline(s) \/ DrainCanceled(s) \/ DrainDisconnected(s)
    \/ DrainUnserializable(s) \/ DrainReady(s) \/ Recycle(s)

NetworkStep ==
    \E s \in Slots :
        \/ Accept(s) \/ Connected(s) \/ CloseConnection(s)
        \/ ConnectionClosed(s) \/ SendCompleted(s) \/ Defer(s)

WorkerStep(w) ==
    \/ \E s \in Slots, g \in Generations, op \in {"reply", "cancel"} : Claim(w, s, g, op)
    \/ CopyResponse(w) \/ CopyFails(w) \/ Publish(w) \/ WakeAndUnlock(w)

\* Nothing is left to do.
Terminated ==
    /\ mode = "done"
    /\ \A w \in Workers : wpc[w] = "idle"
    /\ UNCHANGED vars

Next ==
    \/ OwnerThread
    \/ \E s \in Slots : OwnerVisits(s)
    \/ NetworkStep
    \/ \E w \in Workers : WorkerStep(w)
    \/ \E s \in Slots : DeadlinePasses(s)
    \/ RequestStop
    \/ LoopFails
    \/ Terminated

Spec == Init /\ [][Next]_vars

\* The owner's loop visits every slot, and a connection that is to close is closed:
\* the connections here stream no body, which is what can hold a close back.
Fairness ==
    /\ WF_vars(OwnerThread)
    /\ \A s \in Slots : WF_vars(OwnerVisits(s))
    /\ \A s \in Slots : WF_vars(conn[s] = "closing" /\ ConnectionClosed(s))
    /\ \A w \in Workers : WF_vars(CopyResponse(w) \/ CopyFails(w) \/ Publish(w) \/ WakeAndUnlock(w))

FairSpec == Spec /\ Fairness

\* The application settles every handle it was given: a canceling worker
\* never fails for want of buffers.
SettlingFairness ==
    /\ Fairness
    /\ \A s \in Slots : SF_vars(\E w \in Workers, g \in Generations : Claim(w, s, g, "cancel"))

-----------------------------------------------------------------------------
(* Properties                                                              *)

\* chttp_server_deferred_claim() gives one worker at a time, and only for
\* the generation it was handed, the right to write a slot's builder: every
\* worker between claim and publish owns the slot's token.
ClaimIsExclusive ==
    \A w \in Workers : wpc[w] \in {"copy", "publish"} =>
        /\ phase[wslot[w]] = "writing"
        /\ generation[wslot[w]] = wgen[w]
        /\ ~(opc = "defer" /\ oslot = wslot[w])
        /\ \A v \in Workers \ {w} :
              wpc[v] \in {"copy", "publish"} => wslot[v] # wslot[w]

\* While a worker copies the sealed headers of a request (deferred_reply()
\* reads request_state->response_builder), the owner neither resets them nor
\* reuses the slot, whatever happens to the connection meanwhile.
SealedHeadersIntact ==
    \A w \in Workers : wpc[w] = "copy" =>
        /\ base[wslot[w]] = wgen[w]
        /\ conn[wslot[w]] \notin {"free", "opening"}

\* A token published as ready stands for the complete response of the
\* request that holds it, never for a reset or an older one.
ReadyIsComplete ==
    \A s \in Slots : phase[s] = "ready" => built[s] = generation[s]

\* A lane that finishes without an error has settled every admitted handle,
\* and no worker is still between publishing and waking the owner
\* (chttp_server_connections_active() and the mutex in _deferred_publish()).
CleanStopSettles ==
    mode = "done" /\ "failed" \notin flags =>
        /\ \A s \in Slots : phase[s] = "idle"
        /\ \A w \in Workers : wpc[w] = "idle"
        /\ \A e \in admitted : e[1] \in replied \/ e[1] \in canceled

\* The owner's network is not torn down between a worker's publication and
\* its wake (chttp_server_deferred_publish() wakes under the mutex).
NoTeardownDuringWake ==
    [][net' = "down" /\ net = "up" => \A w \in Workers : wpc[w] # "wake"]_vars

\* What the token of a slot guards, whichever of two workers, the deadline, a
\* disconnect and a stop comes first: the builders, the sealed headers, the
\* response it publishes, and the network its worker wakes.
TokensSafe ==
    /\ [](ClaimIsExclusive /\ SealedHeadersIntact /\ ReadyIsComplete /\ CleanStopSettles)
    /\ NoTeardownDuringWake

\* The incarnations of the connections that are up.
OpenConnections == {<<s, peer[s]>> : s \in Active}

\* DeferredContract: at most one reply or cancel succeeds per handle, and its
\* response goes to the connection of its request or nowhere.
Contract == INSTANCE DeferredContract WITH
    Tickets <- Slots \X Generations,
    Connections <- Slots \X Peers,
    open <- OpenConnections
ContractHolds == Contract!ContractSpec

\* A stopping lane terminates once the application settles its handles
\* (the ADR: "Applications must perform exactly one successful reply or
\* cancel for every admitted handle before expecting a graceful stop").
DrainCompletes == "stop" \in flags ~> mode = "done"

\* A request whose handler deadline has expired on a live connection is
\* answered, or its connection is closed (http_server/README.md, the
\* handler_ms row of the deadline table).
DeadlineIsEnforced ==
    \A s \in Slots : (deadline[s] = "expired" /\ conn[s] = "open" /\ phase[s] # "idle")
                        ~> (phase[s] = "idle" \/ conn[s] # "open")
=============================================================================
