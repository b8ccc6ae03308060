-------------------------- MODULE ServerLifecycle --------------------------
(***************************************************************************)
(* The threads of a chttp_server: the application thread that calls        *)
(* chttp_server_start, _stop and _destroy, the listener control thread     *)
(* that accepts streams, and one thread per data owner.  They meet on the  *)
(* server's mutex and condition variable (every critical section is one    *)
(* step), on each owner's atomic runtime state, and on the bounded handoff *)
(* through which the listener gives an accepted stream to an owner.        *)
(*                                                                         *)
(* The Boolean members of chttp_server_impl are kept as the set of those   *)
(* that are true, and the counters startup_reported_count,                 *)
(* ready_owner_count and finished_owner_count as the sets of owners that   *)
(* incremented them: an owner thread increments each of them at most once  *)
(* a start.  Statuses are abstracted to success and failure.  A destroy    *)
(* that is refused because a WebSocket command is being copied changes     *)
(* nothing and is left out, with the claims.                               *)
(***************************************************************************)
EXTENDS Integers, FiniteSets

CONSTANTS OwnerCount,   \* server->owner_count
          Capacity,     \* owner->connection_count, of every owner
          Streams,      \* the streams clients may open
          NoStream      \* no stream

ASSUME OwnerCountAssumption == OwnerCount \in Nat \ {0}
ASSUME CapacityAssumption == Capacity \in Nat \ {0}
ASSUME NoStreamAssumption == NoStream \notin Streams

Owners == 1 .. OwnerCount

VARIABLES
  serverFlags,        \* the members of Flags that are true
  reported, ready, finished,   \* the owners that counted themselves so far
  ctl,          \* where the application thread is inside start, stop or destroy
  lpc,          \* where the listener thread is
  held,         \* the stream the listener holds between accept and publication
  target,       \* the owner it reserved a ticket from
  ownerPc,          \* where each owner thread is
  failed,       \* the owners whose local status is not SALTS_OK
  rt,           \* owner->runtime_state
  networks,          \* the owners with network_initialized
  sealed,       \* the owners whose handoff is sealed
  stream,       \* where each stream is
  ticket,       \* the owner whose handoff credit the stream holds, or 0
  lingering     \* the owner whose slot outlives the closed stream, or 0: a deferred
                \* token is not idle, or a WebSocket bridge or an HTTP/2 stream is left

reportVars == <<reported, ready, finished>>
listenerVars == <<lpc, held, target>>
ownerThreadVars == <<ownerPc, failed, rt, networks>>
streamVars == <<sealed, stream, ticket, lingering>>
lifecycleVars == <<serverFlags, reportVars, ctl, listenerVars, ownerThreadVars, streamVars>>

\* Members of chttp_server_impl; "acceptor" is acceptor.initialized.
Flags == {"start_called", "startup_go", "startup_abort", "stop_requested", "running",
          "stopping", "worker_done", "listener_startup_reported", "listener_ready",
          "listener_done", "acceptor"}
CtlStates == {"idle", "creating", "waitReports", "waitReady", "abortJoin", "stopWait",
              "stopJoin", "destroyJoin", "freed"}
ListenerStates == {"none", "open", "waitGo", "waitStart", "loop", "place", "publish",
                   "wake", "failed", "cleanup", "finished"}
OwnerStates == {"none", "startup", "waitGo", "abortCleanup", "waitStart", "loop", "failed",
                "barrier", "shutdown", "drain", "cleanup", "finish", "finished"}
RuntimeStates == {"IDLE", "STARTING", "READY", "STOPPING", "DONE"}
StreamStates == {"new", "held", "queued", "open", "closed"}

LifecycleInit ==
  /\ serverFlags = {} /\ reported = {} /\ ready = {} /\ finished = {}
  /\ ctl = "idle"
  /\ lpc = "none" /\ held = NoStream /\ target = 0
  /\ ownerPc = [o \in Owners |-> "none"] /\ failed = {}
  /\ rt = [o \in Owners |-> "IDLE"] /\ networks = {}
  /\ sealed = {} /\ stream = [s \in Streams |-> "new"] /\ ticket = [s \in Streams |-> 0]
  /\ lingering = [s \in Streams |-> 0]

-----------------------------------------------------------------------------
(* The application thread: chttp_server_start                              *)

\* What chttp_server_start and chttp_server_reset_failed_start write.
ResetState ==
  /\ serverFlags' = serverFlags \cap {"start_called", "acceptor"}
  /\ reported' = {} /\ ready' = {} /\ finished' = {}

MayStart == ctl = "idle" /\ "start_called" \notin serverFlags /\ \A o \in Owners : rt[o] = "IDLE"

\* start resets the state, moves every owner from IDLE to STARTING and creates
\* the listener thread; no other thread exists yet.
StartListener ==
  /\ MayStart /\ ResetState
  /\ rt' = [o \in Owners |-> "STARTING"]
  /\ ctl' = "creating" /\ lpc' = "open"
  /\ UNCHANGED <<held, target, ownerPc, failed, networks, streamVars>>

\* The listener thread cannot be created: every owner returns to IDLE.
StartListenerFails ==
  /\ MayStart /\ ResetState
  /\ UNCHANGED <<ctl, listenerVars, ownerThreadVars, streamVars>>

NextToCreate(o) == ownerPc[o] = "none" /\ \A p \in Owners : p < o => ownerPc[p] # "none"

StartOwner(o) ==
  /\ ctl = "creating" /\ NextToCreate(o)
  /\ ownerPc' = [ownerPc EXCEPT ![o] = "startup"] /\ failed' = failed \ {o}
  /\ ctl' = IF o = OwnerCount THEN "waitReports" ELSE "creating"
  /\ UNCHANGED <<serverFlags, reportVars, listenerVars, rt, networks, streamVars>>

\* An owner thread cannot be created: abort, and withdraw the owners that have
\* no thread from STARTING.
StartOwnerFails(o) ==
  /\ ctl = "creating" /\ NextToCreate(o)
  /\ serverFlags' = serverFlags \cup {"startup_abort"}
  /\ rt' = [p \in Owners |-> IF p >= o /\ rt[p] = "STARTING" THEN "IDLE" ELSE rt[p]]
  /\ ctl' = "abortJoin"
  /\ UNCHANGED <<reportVars, listenerVars, ownerPc, failed, networks, streamVars>>

\* start waits for every report and then releases the threads.
WaitReports ==
  /\ ctl = "waitReports" /\ "startup_abort" \notin serverFlags
  /\ reported = Owners /\ "listener_startup_reported" \in serverFlags
  /\ serverFlags' = (serverFlags \ {"stopping"}) \cup {"running", "startup_go"}
  /\ ctl' = "waitReady"
  /\ UNCHANGED <<reportVars, listenerVars, ownerThreadVars, streamVars>>

\* start returns SALTS_OK.
WaitReady ==
  /\ ctl = "waitReady" /\ "startup_abort" \notin serverFlags
  /\ ready = Owners /\ "listener_ready" \in serverFlags
  /\ serverFlags' = serverFlags \cup {"start_called"}
  /\ ctl' = "idle"
  /\ UNCHANGED <<reportVars, listenerVars, ownerThreadVars, streamVars>>

\* Either wait ends with startup_abort.
StartAborts ==
  /\ ctl \in {"waitReports", "waitReady"} /\ "startup_abort" \in serverFlags
  /\ serverFlags' = IF ctl = "waitReady" THEN serverFlags \cup {"stop_requested", "stopping"} ELSE serverFlags
  /\ ctl' = "abortJoin"
  /\ UNCHANGED <<reportVars, listenerVars, ownerThreadVars, streamVars>>

\* chttp_server_join_runtime_threads returns when every created thread has.
ThreadsExited == lpc \in {"none", "finished"} /\ \A o \in Owners : ownerPc[o] \in {"none", "finished"}
JoinThreads ==
  /\ ThreadsExited
  /\ lpc' = "none" /\ ownerPc' = [o \in Owners |-> "none"]

\* A failed start joins its threads and resets the state it wrote.
AbortJoin ==
  /\ ctl = "abortJoin" /\ JoinThreads /\ ResetState
  /\ rt' = [o \in Owners |-> IF rt[o] = "DONE" THEN "IDLE" ELSE rt[o]]
  /\ ctl' = "idle"
  /\ UNCHANGED <<held, target, failed, networks, streamVars>>

(* The application thread: chttp_server_stop and chttp_server_destroy      *)

Stop ==
  /\ ctl = "idle" /\ "start_called" \in serverFlags
  /\ serverFlags' = serverFlags \cup {"stop_requested"} \cup
              (IF "worker_done" \in serverFlags THEN {} ELSE {"stopping"})
  /\ ctl' = "stopWait"
  /\ UNCHANGED <<reportVars, listenerVars, ownerThreadVars, streamVars>>

StopTimesOut ==
  /\ ctl = "stopWait" /\ "worker_done" \notin serverFlags
  /\ ctl' = "idle"
  /\ UNCHANGED <<serverFlags, reportVars, listenerVars, ownerThreadVars, streamVars>>

StopSeesDone ==
  /\ ctl = "stopWait" /\ "worker_done" \in serverFlags
  /\ ctl' = "stopJoin"
  /\ UNCHANGED <<serverFlags, reportVars, listenerVars, ownerThreadVars, streamVars>>

StopJoin ==
  /\ ctl = "stopJoin" /\ JoinThreads
  /\ ctl' = "idle"
  /\ UNCHANGED <<serverFlags, reportVars, held, target, failed, rt, networks, streamVars>>

\* destroy refuses a running server; otherwise it joins what start left behind.
Destroy ==
  /\ ctl = "idle" /\ serverFlags \cap {"running", "stopping"} = {}
  /\ "start_called" \in serverFlags => "worker_done" \in serverFlags
  /\ ctl' = "destroyJoin"
  /\ UNCHANGED <<serverFlags, reportVars, listenerVars, ownerThreadVars, streamVars>>

Leases(o) == {s \in Streams : ticket[s] = o}   \* chttp_server_owner_lease_count

\* Mutant: destroy does not look at the leases.
DestroyJoinIgnoresLeases ==
  /\ ctl = "destroyJoin" /\ JoinThreads
  /\ ctl' = IF "acceptor" \notin serverFlags /\ networks = {} THEN "freed" ELSE "idle"
  /\ UNCHANGED <<serverFlags, reportVars, held, target, failed, rt, networks, streamVars>>

\* destroy frees the server unless a network, a lease or the acceptor is left.
DestroyJoin ==
  /\ ctl = "destroyJoin" /\ JoinThreads
  /\ ctl' = IF "acceptor" \notin serverFlags /\ networks = {} /\ (\A o \in Owners : Leases(o) = {})
              THEN "freed" ELSE "idle"
  /\ UNCHANGED <<serverFlags, reportVars, held, target, failed, rt, networks, streamVars>>

-----------------------------------------------------------------------------
(* The listener thread: chttp_server_listener_worker                       *)

ListenerOpens ==
  /\ lpc = "open"
  /\ serverFlags' = serverFlags \cup {"listener_startup_reported", "acceptor"}
  /\ lpc' = "waitGo"
  /\ UNCHANGED <<reportVars, ctl, held, target, ownerThreadVars, streamVars>>

\* cnet_listener_init_ex fails, or it succeeds and cnet_listener_port fails.
ListenerOpenFails ==
  /\ lpc = "open"
  /\ \E opened \in {{}, {"acceptor"}} :
       serverFlags' = serverFlags \cup {"listener_startup_reported", "startup_abort"} \cup opened
  /\ lpc' = "cleanup"
  /\ UNCHANGED <<reportVars, ctl, held, target, ownerThreadVars, streamVars>>

ListenerGo ==
  /\ lpc = "waitGo" /\ "startup_go" \in serverFlags /\ "startup_abort" \notin serverFlags
  /\ serverFlags' = serverFlags \cup {"listener_ready"}
  /\ lpc' = "waitStart"
  /\ UNCHANGED <<reportVars, ctl, held, target, ownerThreadVars, streamVars>>

ListenerStarts ==
  /\ lpc = "waitStart" /\ "start_called" \in serverFlags /\ "startup_abort" \notin serverFlags
  /\ lpc' = "loop"
  /\ UNCHANGED <<serverFlags, reportVars, ctl, held, target, ownerThreadVars, streamVars>>

\* startup_abort ends either wait of the listener.
ListenerAborts ==
  /\ lpc \in {"waitGo", "waitStart"} /\ "startup_abort" \in serverFlags
  /\ lpc' = "cleanup"
  /\ UNCHANGED <<serverFlags, reportVars, ctl, held, target, ownerThreadVars, streamVars>>

\* chttp_server_should_stop, read before every accept.
ListenerSeesStop ==
  /\ lpc = "loop" /\ "stop_requested" \in serverFlags
  /\ lpc' = "cleanup"
  /\ UNCHANGED <<serverFlags, reportVars, ctl, held, target, ownerThreadVars, streamVars>>

ListenerAccepts(s) ==
  /\ lpc = "loop" /\ "stop_requested" \notin serverFlags /\ stream[s] = "new"
  /\ stream' = [stream EXCEPT ![s] = "held"] /\ held' = s
  /\ lpc' = "place"
  /\ UNCHANGED <<serverFlags, reportVars, ctl, target, ownerThreadVars, sealed, ticket, lingering>>

ListenerAcceptFails ==
  /\ lpc = "loop" /\ "stop_requested" \notin serverFlags
  /\ lpc' = "failed"
  /\ UNCHANGED <<serverFlags, reportVars, ctl, held, target, ownerThreadVars, streamVars>>

\* cnet_handoff_reserve succeeds while the owner's credits last.
Reservable(o) ==
  rt[o] = "READY" /\ o \notin sealed /\ Cardinality(Leases(o)) < Capacity

\* chttp_server_admission_owner: some eligible owner grants a ticket.  Which one
\* the placement policy picks is not told apart here.
ListenerReserves(o) ==
  /\ lpc = "place" /\ Reservable(o)
  /\ ticket' = [ticket EXCEPT ![held] = o] /\ target' = o
  /\ lpc' = "publish"
  /\ UNCHANGED <<serverFlags, reportVars, ctl, held, ownerThreadVars, sealed, stream, lingering>>

\* The owner placement chose grants no ticket (a pinned owner never spills): the
\* stream is closed and the listener goes on.  After any other failure to place
\* the stream, which it closes as well, the listener ends.
ListenerRejects ==
  /\ lpc = "place"
  /\ stream' = [stream EXCEPT ![held] = "closed"] /\ held' = NoStream
  /\ \/ lpc' = "loop" /\ \E o \in Owners : ~Reservable(o)
     \/ lpc' = "failed"
  /\ UNCHANGED <<serverFlags, reportVars, ctl, target, ownerThreadVars, sealed, ticket, lingering>>

\* chttp_server_owner_admission_enqueue: publication hands over the stream and
\* its ticket; a refused one is closed and its ticket released.
ListenerPublishes ==
  /\ lpc = "publish" /\ held' = NoStream
  /\ IF rt[target] = "READY" /\ target \notin sealed
       THEN /\ stream' = [stream EXCEPT ![held] = "queued"]
            /\ lpc' = "wake"
            /\ UNCHANGED ticket
       ELSE /\ stream' = [stream EXCEPT ![held] = "closed"]
            /\ ticket' = [ticket EXCEPT ![held] = 0]
            /\ lpc' = IF "stop_requested" \in serverFlags THEN "loop" ELSE "failed"
  /\ UNCHANGED <<serverFlags, reportVars, ctl, target, ownerThreadVars, sealed, lingering>>

\* cnet_client_wake, called without the mutex.
ListenerWakes ==
  /\ lpc = "wake"
  /\ lpc' \in {"loop", "failed"}
  /\ UNCHANGED <<serverFlags, reportVars, ctl, held, target, ownerThreadVars, streamVars>>

\* chttp_server_request_global_stop.
RequestGlobalStop ==
  serverFlags' = serverFlags \cup {"stop_requested"} \cup
    (IF "start_called" \notin serverFlags THEN {"startup_abort"}
     ELSE IF "worker_done" \notin serverFlags THEN {"stopping"} ELSE {})

ListenerFails ==
  /\ lpc = "failed" /\ RequestGlobalStop
  /\ lpc' = "cleanup"
  /\ UNCHANGED <<reportVars, ctl, held, target, ownerThreadVars, streamVars>>

\* worker_done belongs to the last thread to finish after a successful start.
AfterFinish(fl, owners) ==
  IF {"start_called", "listener_done"} \subseteq fl /\ owners = Owners
    THEN (fl \ {"running", "stopping"}) \cup {"worker_done"} ELSE fl

\* chttp_server_acceptor_destroy, which can fail, and
\* chttp_server_listener_worker_finish.
ListenerFinishes ==
  /\ lpc = "cleanup"
  /\ \E closed \in {{}, {"acceptor"}} :
       serverFlags' = AfterFinish((serverFlags \ closed) \cup {"listener_done"}, finished)
  /\ lpc' = "finished"
  /\ UNCHANGED <<reportVars, ctl, held, target, ownerThreadVars, streamVars>>

-----------------------------------------------------------------------------
(* An owner thread: chttp_server_owner_worker                              *)

\* chttp_server_owner_worker_startup publishes the network and reports.  A network
\* that an earlier failed start could not destroy makes cnet_client_init fail.
OwnerStarts(o) ==
  /\ ownerPc[o] = "startup" /\ o \notin networks
  /\ networks' = networks \cup {o} /\ reported' = reported \cup {o}
  /\ ownerPc' = [ownerPc EXCEPT ![o] = "waitGo"]
  /\ UNCHANGED <<serverFlags, ready, finished, ctl, listenerVars, failed, rt, streamVars>>

\* Startup fails before or after the network is published.
OwnerStartFails(o) ==
  /\ ownerPc[o] = "startup"
  /\ networks' \in {networks, networks \cup {o}} /\ reported' = reported \cup {o}
  /\ serverFlags' = serverFlags \cup {"startup_abort"}
  /\ ownerPc' = [ownerPc EXCEPT ![o] = "abortCleanup"]
  /\ UNCHANGED <<ready, finished, ctl, listenerVars, failed, rt, streamVars>>

OwnerGo(o) ==
  /\ ownerPc[o] = "waitGo" /\ "startup_go" \in serverFlags /\ "startup_abort" \notin serverFlags
  /\ rt' = [rt EXCEPT ![o] = "READY"] /\ ready' = ready \cup {o}
  /\ ownerPc' = [ownerPc EXCEPT ![o] = "waitStart"]
  /\ UNCHANGED <<serverFlags, reported, finished, ctl, listenerVars, failed, networks, streamVars>>

\* Mutant: the condition wait of an owner loops until go and ignores an abort.
OwnerMissesAbort(o) ==
  /\ ownerPc[o] = "waitGo" /\ "startup_abort" \in serverFlags
  /\ UNCHANGED lifecycleVars

OwnerSeesAbort(o) ==
  /\ ownerPc[o] = "waitGo" /\ "startup_abort" \in serverFlags
  /\ ownerPc' = [ownerPc EXCEPT ![o] = "abortCleanup"]
  /\ UNCHANGED <<serverFlags, reportVars, ctl, listenerVars, failed, rt, networks, streamVars>>

\* Failed start: the network is destroyed (or cannot be), the owner goes back to
\* IDLE and the thread finishes.
OwnerAborts(o) ==
  /\ ownerPc[o] = "abortCleanup"
  /\ networks' \in {networks, networks \ {o}}
  /\ rt' = [rt EXCEPT ![o] = IF @ = "STARTING" THEN "IDLE" ELSE @]
  /\ finished' = finished \cup {o}
  /\ serverFlags' = AfterFinish(serverFlags, finished')
  /\ ownerPc' = [ownerPc EXCEPT ![o] = "finished"]
  /\ UNCHANGED <<reported, ready, ctl, listenerVars, failed, streamVars>>

OwnerEntersLoop(o) ==
  /\ ownerPc[o] = "waitStart" /\ serverFlags \cap {"start_called", "startup_abort"} # {}
  /\ rt' = [rt EXCEPT ![o] = IF "startup_abort" \in serverFlags THEN "STOPPING" ELSE @]
  /\ ownerPc' = [ownerPc EXCEPT ![o] = "loop"]
  /\ UNCHANGED <<serverFlags, reportVars, ctl, listenerVars, failed, networks, streamVars>>

\* The streams that occupy a connection slot of the owner.
Occupants(o) == {s \in Streams : (stream[s] = "open" /\ ticket[s] = o) \/ lingering[s] = o}

\* chttp_server_admission_progress finds a queued stream and a free slot for it.
Admissible(o, s) ==
  /\ ownerPc[o] = "loop" /\ "stop_requested" \notin serverFlags
  /\ stream[s] = "queued" /\ ticket[s] = o
  /\ Cardinality(Occupants(o)) < Capacity

OwnerAdmits(o, s) ==
  /\ Admissible(o, s)
  /\ stream' = [stream EXCEPT ![s] = "open"]
  /\ UNCHANGED <<serverFlags, reportVars, ctl, listenerVars, ownerThreadVars, sealed, ticket, lingering>>

\* The slot cannot be prepared or the stream not adopted: it is closed and its
\* ticket released.  Pressure lets the loop go on, any other status ends it.
OwnerAdmitFails(o, s) ==
  /\ Admissible(o, s)
  /\ stream' = [stream EXCEPT ![s] = "closed"] /\ ticket' = [ticket EXCEPT ![s] = 0]
  /\ \/ UNCHANGED <<ownerPc, failed>>
     \/ ownerPc' = [ownerPc EXCEPT ![o] = "failed"] /\ failed' = failed \cup {o}
  /\ UNCHANGED <<serverFlags, reportVars, ctl, listenerVars, rt, networks, sealed, lingering>>

\* on_state CLOSED, delivered by the owner's poll: the ticket goes back.  The slot
\* stays occupied while a deferred response or a WebSocket bridge uses it.
ConnectionCloses(o, s) ==
  /\ ownerPc[o] \in {"loop", "drain"} /\ stream[s] = "open" /\ ticket[s] = o
  /\ stream' = [stream EXCEPT ![s] = "closed"] /\ ticket' = [ticket EXCEPT ![s] = 0]
  /\ lingering' \in {lingering, [lingering EXCEPT ![s] = o]}
  /\ UNCHANGED <<serverFlags, reportVars, ctl, listenerVars, ownerThreadVars, sealed>>

\* chttp_server_deferred_progress drains the token that a worker settled, or
\* chttp_server_retry_pending resets a bridge that was released: the slot is free.
SlotReleased(o, s) ==
  /\ ownerPc[o] \in {"loop", "drain"} /\ lingering[s] = o
  /\ lingering' = [lingering EXCEPT ![s] = 0]
  /\ UNCHANGED <<serverFlags, reportVars, ctl, listenerVars, ownerThreadVars, sealed, stream, ticket>>

OwnerSeesStop(o) ==
  /\ ownerPc[o] = "loop" /\ "stop_requested" \in serverFlags
  /\ ownerPc' = [ownerPc EXCEPT ![o] = "barrier"]
  /\ UNCHANGED <<serverFlags, reportVars, ctl, listenerVars, failed, rt, networks, streamVars>>

\* A step of the loop returns a status other than SALTS_OK.
OwnerLoopFails(o) ==
  /\ ownerPc[o] = "loop" /\ "stop_requested" \notin serverFlags
  /\ ownerPc' = [ownerPc EXCEPT ![o] = "failed"] /\ failed' = failed \cup {o}
  /\ UNCHANGED <<serverFlags, reportVars, ctl, listenerVars, rt, networks, streamVars>>

OwnerFails(o) ==
  /\ ownerPc[o] = "failed" /\ RequestGlobalStop
  /\ ownerPc' = [ownerPc EXCEPT ![o] = "barrier"]
  /\ UNCHANGED <<reportVars, ctl, listenerVars, failed, rt, networks, streamVars>>

\* The owner keeps its network until the listener is done.
OwnerPassesBarrier(o) ==
  /\ ownerPc[o] = "barrier" /\ "listener_done" \in serverFlags
  /\ rt' = [rt EXCEPT ![o] = IF @ = "READY" THEN "STOPPING" ELSE @]
  /\ ownerPc' = [ownerPc EXCEPT ![o] = "shutdown"]
  /\ UNCHANGED <<serverFlags, reportVars, ctl, listenerVars, failed, networks, streamVars>>

\* The streams of an owner that are in a given state are closed, and their
\* tickets released.
CloseAll(o, state) ==
  /\ stream' = [s \in Streams |->
                  IF ticket[s] = o /\ stream[s] = state THEN "closed" ELSE stream[s]]
  /\ ticket' = [s \in Streams |->
                  IF ticket[s] = o /\ stream[s] = state THEN 0 ELSE ticket[s]]

\* chttp_server_begin_shutdown: seal, cancel the inbox, ask every connection to
\* close.  A close can fail after the inbox is empty.
OwnerBeginsShutdown(o) ==
  /\ ownerPc[o] = "shutdown"
  /\ sealed' = sealed \cup {o} /\ CloseAll(o, "queued")
  /\ failed' \in {failed, failed \cup {o}}
  /\ ownerPc' = [ownerPc EXCEPT ![o] = "drain"]
  /\ UNCHANGED <<serverFlags, reportVars, ctl, listenerVars, rt, networks, lingering>>

\* It returns before the inbox is cancelled.
OwnerShutdownFails(o) ==
  /\ ownerPc[o] = "shutdown"
  /\ failed' = failed \cup {o}
  /\ ownerPc' = [ownerPc EXCEPT ![o] = "drain"]
  /\ UNCHANGED <<serverFlags, reportVars, ctl, listenerVars, rt, networks, streamVars>>

ConnectionsActive(o) == Occupants(o) # {}

\* The drain loop ends when no slot is occupied, or on a failure.
OwnerDrained(o) ==
  /\ ownerPc[o] = "drain" /\ (o \in failed \/ ~ConnectionsActive(o))
  /\ ownerPc' = [ownerPc EXCEPT ![o] = "cleanup"]
  /\ UNCHANGED <<serverFlags, reportVars, ctl, listenerVars, failed, rt, networks, streamVars>>

OwnerDrainFails(o) ==
  /\ ownerPc[o] = "drain" /\ o \notin failed /\ ConnectionsActive(o)
  /\ failed' = failed \cup {o}
  /\ UNCHANGED <<serverFlags, reportVars, ctl, listenerVars, ownerPc, rt, networks, streamVars>>

\* chttp_server_owner_cleanup_network: cnet_client_stop closes what is still
\* open; the network is destroyed under the mutex, and then the owner is DONE.
OwnerCleansUp(o) ==
  /\ ownerPc[o] = "cleanup"
  /\ CloseAll(o, "open") /\ networks' = networks \ {o}
  /\ rt' = [rt EXCEPT ![o] = IF @ = "STOPPING" THEN "DONE" ELSE @]
  /\ ownerPc' = [ownerPc EXCEPT ![o] = "finish"]
  /\ UNCHANGED <<serverFlags, reportVars, ctl, listenerVars, failed, sealed, lingering>>

\* cnet_client_stop, the manager or cnet_client_destroy refuses: the network stays.
OwnerCleanupFails(o) ==
  /\ ownerPc[o] = "cleanup"
  /\ CloseAll(o, "open") \/ UNCHANGED <<stream, ticket>>
  /\ failed' = failed \cup {o}
  /\ rt' = [rt EXCEPT ![o] = IF @ = "STOPPING" THEN "DONE" ELSE @]
  /\ ownerPc' = [ownerPc EXCEPT ![o] = "finish"]
  /\ UNCHANGED <<serverFlags, reportVars, ctl, listenerVars, networks, sealed, lingering>>

\* Mutant: the last owner does not report the server done.
OwnerFinishesSilently(o) ==
  /\ ownerPc[o] = "finish"
  /\ finished' = finished \cup {o}
  /\ ownerPc' = [ownerPc EXCEPT ![o] = "finished"]
  /\ UNCHANGED <<serverFlags, reported, ready, ctl, listenerVars, failed, rt, networks, streamVars>>

\* chttp_server_owner_worker_finish.
OwnerFinishes(o) ==
  /\ ownerPc[o] = "finish"
  /\ finished' = finished \cup {o}
  /\ serverFlags' = AfterFinish(serverFlags, finished')
  /\ ownerPc' = [ownerPc EXCEPT ![o] = "finished"]
  /\ UNCHANGED <<reported, ready, ctl, listenerVars, failed, rt, networks, streamVars>>

-----------------------------------------------------------------------------
StartStep ==
  \/ \E o \in Owners : StartOwner(o) \/ StartOwnerFails(o)
  \/ WaitReports \/ WaitReady \/ StartAborts \/ AbortJoin
StopStep == StopSeesDone \/ StopJoin \/ DestroyJoin
ControlCall == StartListener \/ StartListenerFails \/ Stop \/ StopTimesOut \/ Destroy

ListenerStep ==
  \/ ListenerOpens \/ ListenerOpenFails \/ ListenerGo \/ ListenerStarts \/ ListenerAborts
  \/ ListenerSeesStop \/ \E o \in Owners : ListenerReserves(o)
  \/ ListenerRejects \/ ListenerPublishes \/ ListenerWakes \/ ListenerFails \/ ListenerFinishes
ListenerEvent == ListenerAcceptFails \/ \E s \in Streams : ListenerAccepts(s)

OwnerStep(o) ==
  \/ OwnerStarts(o) \/ OwnerStartFails(o) \/ OwnerGo(o) \/ OwnerSeesAbort(o) \/ OwnerAborts(o)
  \/ OwnerEntersLoop(o) \/ OwnerSeesStop(o) \/ OwnerFails(o) \/ OwnerPassesBarrier(o)
  \/ OwnerBeginsShutdown(o) \/ OwnerShutdownFails(o) \/ OwnerDrained(o)
  \/ OwnerCleansUp(o) \/ OwnerCleanupFails(o) \/ OwnerFinishes(o)
OwnerEvent(o) ==
  \/ OwnerLoopFails(o) \/ OwnerDrainFails(o)
  \/ \E s \in Streams : OwnerAdmits(o, s) \/ OwnerAdmitFails(o, s) \/ ConnectionCloses(o, s)
                        \/ SlotReleased(o, s)

ServerTerminated == ctl = "freed" /\ UNCHANGED lifecycleVars

LifecycleNext ==
  \/ StartStep \/ StopStep \/ ControlCall \/ ListenerStep \/ ListenerEvent
  \/ \E o \in Owners : OwnerStep(o) \/ OwnerEvent(o)
  \/ ServerTerminated

LifecycleSpec == LifecycleInit /\ [][LifecycleNext]_lifecycleVars

\* Every thread is scheduled, and no step of start, stop, the listener or an owner
\* blocks but on the conditions in its guard.  Nothing is assumed of connections:
\* begin_shutdown asks an HTTP/1.1 connection to close once, and a keep-alive
\* response that streams its body forgets it; nor of the application, which may
\* keep a deferred handle for ever.
LifecycleFairness ==
  /\ WF_lifecycleVars(StartStep) /\ WF_lifecycleVars(StopStep) /\ WF_lifecycleVars(ListenerStep)
  /\ \A o \in Owners : WF_lifecycleVars(OwnerStep(o))

LifecycleFairSpec == LifecycleSpec /\ LifecycleFairness

-----------------------------------------------------------------------------
(* Properties                                                              *)

\* Every variable stays in its type.
LifecycleTypeOK ==
  /\ serverFlags \in SUBSET Flags
  /\ reported \in SUBSET Owners /\ ready \in SUBSET Owners /\ finished \in SUBSET Owners
  /\ ctl \in CtlStates
  /\ lpc \in ListenerStates /\ held \in Streams \cup {NoStream} /\ target \in {0} \cup Owners
  /\ ownerPc \in [Owners -> OwnerStates] /\ failed \in SUBSET Owners
  /\ rt \in [Owners -> RuntimeStates] /\ networks \in SUBSET Owners
  /\ sealed \in SUBSET Owners
  /\ stream \in [Streams -> StreamStates] /\ ticket \in [Streams -> {0} \cup Owners]
  /\ lingering \in [Streams -> {0} \cup Owners]

\* The listener wakes an owner's network without the mutex.  From the moment it
\* holds a ticket until it has called cnet_client_wake, that owner is READY, its
\* handoff is open and its network exists: publication is never refused and no
\* destroyed network is touched.
WakeTargetAlive ==
  lpc \in {"publish", "wake"} =>
    rt[target] = "READY" /\ target \in networks /\ target \notin sealed

\* start releases its threads only if none of them aborts: startup_go and
\* startup_abort are never both set, so no thread can take one branch while
\* another takes the other.
GoExcludesAbort == ~({"startup_go", "startup_abort"} \subseteq serverFlags)

\* worker_done, which lets stop join and destroy proceed, is set by the thread
\* that finishes last: no listener or owner runs after it.
DoneMeansExited ==
  "worker_done" \in serverFlags => ThreadsExited /\ serverFlags \cap {"running", "stopping"} = {}

\* chttp_server_destroy frees the server only when no thread can touch it, every
\* network and the listener are gone, and every accepted stream has been closed.
FreedIsClean ==
  ctl = "freed" =>
    /\ ThreadsExited /\ "acceptor" \notin serverFlags /\ networks = {}
    /\ \A s \in Streams : stream[s] \in {"new", "closed"}

\* A stream holds a handoff credit exactly from its reservation to its close: no
\* error or shutdown path leaks a credit or returns it twice.
CreditsConserved ==
  \A s \in Streams :
    ticket[s] # 0 <=> stream[s] \in {"queued", "open"} \/ (lpc = "publish" /\ held = s)

\* A stream is never left in the inbox of an owner that has cancelled it.
SealedInboxEmpty ==
  \A s \in Streams : stream[s] = "queued" => ticket[s] \notin sealed

\* When every owner ended with SALTS_OK, a stopped server has closed every stream
\* it accepted, and no deferred response or bridge still uses a slot.
CleanStop ==
  "worker_done" \in serverFlags /\ failed = {} =>
    \A s \in Streams : stream[s] \in {"new", "closed"} /\ lingering[s] = 0

\* After a failed start no thread is left and every owner is IDLE with the state
\* reset, so start can be called again.
FailedStartRestartable ==
  ctl = "idle" /\ "start_called" \notin serverFlags =>
    /\ ThreadsExited /\ serverFlags \subseteq {"acceptor"}
    /\ \A o \in Owners : rt[o] = "IDLE"

\* The owner state transitions whose result the code ignores or reports as a
\* startup failure never fail: each one finds the state it expects.
TransitionsSucceed ==
  \A o \in Owners :
    /\ ownerPc[o] \in {"startup", "waitGo", "abortCleanup"} => rt[o] = "STARTING"
    /\ ownerPc[o] \in {"waitStart", "loop", "failed", "barrier"} => rt[o] = "READY"
    /\ ownerPc[o] \in {"shutdown", "drain", "cleanup"} => rt[o] = "STOPPING"

\* What the threads of one server owe each other, in every order of a start, its
\* failures, a stop and a destroy: no wake of a dead network, one verdict on a
\* start, no credit lost, no stream forgotten, a failed start that can be
\* repeated, and nothing freed under a thread.
LifecycleSafe ==
  /\ WakeTargetAlive /\ GoExcludesAbort /\ DoneMeansExited /\ FreedIsClean
  /\ CreditsConserved /\ SealedInboxEmpty /\ CleanStop
  /\ FailedStartRestartable /\ TransitionsSucceed

\* chttp_server_start returns, whatever fails meanwhile.
StartReturns ==
  ctl \in {"creating", "waitReports", "waitReady", "abortJoin"} ~> ctl = "idle"

\* A stop that was requested, by the application or by a thread that failed, ends
\* all threads, whatever fails meanwhile.  The only thing it can wait for is a
\* connection slot that one draining owner waits for from some moment on for ever.
StopCompletes ==
  {"start_called", "stop_requested"} \subseteq serverFlags ~>
    \/ "worker_done" \in serverFlags
    \/ \E o \in Owners : [](ownerPc[o] = "drain" /\ ConnectionsActive(o))
=============================================================================
