----------------------------- MODULE AppService -----------------------------
(***************************************************************************)
(* The application service (app/src/chttp_service.c): methods mounted on   *)
(* server routes, whose handlers bind HTTP input to a native call and run  *)
(* it inline or as a task of a CFlow executor that answers through a       *)
(* deferred response (module DeferredResponse, seen here as one token per  *)
(* invocation).  The owner thread mounts, handles and destroys; workers    *)
(* run, cancel and finalize tasks.                                         *)
(*                                                                         *)
(* Values are abstracted to what binding tells apart: where an input comes *)
(* from, whether it is present, its escapes, its length and whether its    *)
(* text reads as the wanted kind.                                          *)
(***************************************************************************)
EXTENDS Integers, Sequences, SequencesExt, FiniteSets

CONSTANTS Invocations,    \* requests the owner thread may handle
          AppPlans,       \* method_capacity and the kinds of method mounted
          ExecutorCap,    \* tasks the executor accepts
          Inputs          \* requests: sequences of binding entries

VARIABLES appPlan,   \* the service's configuration, an element of AppPlans
          svc,       \* chttp_service_impl
          inv,       \* chttp_service_invocation, one per request
          token,     \* per request, its deferred response
          buffer,    \* per request, the owners of its output buffer
          executor,  \* cflow_executor: accepting, queue
          appServer  \* the server: "configured", "running" (dispatching) or "stopped"

appVars == <<appPlan, svc, inv, token, buffer, executor, appServer>>

NoInvocation == [stage |-> "idle", method |-> 0, live |-> FALSE, held |-> FALSE, status |-> 0]

AppInit ==
  /\ appPlan \in AppPlans
  /\ svc = [live |-> TRUE, methods |-> <<>>, leases |-> 0, plans |-> 0]
  /\ inv = [i \in Invocations |-> NoInvocation]
  /\ token = [i \in Invocations |-> "none"]
  /\ buffer = [i \in Invocations |-> {}]
  /\ executor = [accepting |-> TRUE, queue |-> <<>>]
  /\ appServer = "configured"

-----------------------------------------------------------------------------
(* Binding HTTP input *)

\* chttp_service_decode_component: the bound is on the encoded size
Decode(text) ==
  CASE text = "long"      -> "LIMIT"
    [] text = "truncated" -> "PARSE"
    [] text = "malformed" -> "PARSE"
    [] OTHER              -> "OK"

\* chttp_service_scalar_reader_init; numbers are copied into the scratch buffer
ReadScalar(kind, text, reads) ==
  CASE kind = "bool"                      -> IF reads THEN "OK" ELSE "PARSE"
    [] kind = "uint"                      -> IF reads /\ text # "long" THEN "OK" ELSE "PARSE"
    [] kind \in {"sint", "float"}         -> IF text = "long" THEN "LIMIT" ELSE IF reads THEN "OK" ELSE "PARSE"
    [] kind \in {"string", "enum", "bytes"} -> "OK"
    [] OTHER                              -> "TYPE_MISMATCH"

\* chttp_service_http_open_input (path, query, header, cookie): [state, status]
OpenInput(e) ==
  LET decoded == IF e.space \in {"path", "query"} THEN Decode(e.text) ELSE "OK"
      read    == ReadScalar(e.kind, e.text, e.reads)
  IN  CASE e.space = "body"  -> [state |-> "ABSENT", status |-> "RUNTIME"]
        [] e.space = "other" -> [state |-> "ABSENT", status |-> "SCHEMA"]
        [] e.space \notin {"body", "other"} /\ ~e.present -> [state |-> "ABSENT", status |-> "OK"]
        [] e.space \notin {"body", "other"} /\ e.present /\ decoded # "OK" ->
             [state |-> "ABSENT", status |-> decoded]
        [] OTHER -> [state |-> IF read = "OK" THEN "VALUE" ELSE "ABSENT", status |-> read]

\* data_bind_binding_plan_bind_inputs: the first entry that fails decides; an
\* absent entry fails when it is required
EntryStatus(e) ==
  IF OpenInput(e).status # "OK" THEN OpenInput(e).status
  ELSE IF OpenInput(e).state = "ABSENT" /\ e.required THEN "VALIDATION" ELSE "OK"
Bind(entries) ==
  LET bad == {n \in 1..Len(entries) : EntryStatus(entries[n]) # "OK"}
  IN  IF bad = {} THEN "OK" ELSE EntryStatus(entries[CHOOSE n \in bad : \A m \in bad : n <= m])

\* chttp_service_http_ingress_failure
IngressFailure(status) ==
  CASE status \in {"INVALID_ARG", "PARSE", "TYPE_NOT_FOUND", "TYPE_MISMATCH"} -> 400
    [] status = "VALIDATION" -> 422
    [] status = "LIMIT"      -> 413
    [] OTHER                 -> 500

\* chttp_service_plan_supported: scalar entries from path, query, header, cookie
Supported(entries) ==
  \A n \in 1..Len(entries) : /\ entries[n].space \in {"path", "query", "header", "cookie"}
                             /\ entries[n].kind # "struct"

-----------------------------------------------------------------------------
(* Mounting: each step passes the record on or releases what it holds *)

\* chttp_service_method_release: the plan, then the plugin's lease
MethodRelease(r) ==
  [r EXCEPT !.ok = FALSE, !.lease = FALSE, !.plan = FALSE,
            !.leases = IF r.lease THEN @ - 1 ELSE @, !.plans = IF r.plan THEN @ - 1 ELSE @]
\* chttp_service_plugin_resolve: the slot owns the lease from its acquisition on
PluginResolve(r, fault) ==
  CASE r.mode # "plugin"  -> r
    [] r.mode = "plugin" /\ fault = "acquire" -> MethodRelease(r)
    [] OTHER -> LET held == [r EXCEPT !.lease = TRUE, !.leases = @ + 1]
                IN  IF fault = "resolve" THEN MethodRelease(held) ELSE held
\* chttp_service_direct_admit, chttp_service_cflow_admit
Admitted(r, fault) == IF r.ok /\ fault = "admit" THEN MethodRelease(r) ELSE r
\* chttp_service_method_from_text, chttp_service_lower_route
Lowered(r, fault) == IF r.ok /\ fault = "lower" THEN MethodRelease(r) ELSE r
Compiled(r, fault) ==
  IF ~r.ok \/ r.mode # "cflow" THEN r
  ELSE IF fault = "compile" THEN MethodRelease(r)
  ELSE [r EXCEPT !.plan = TRUE, !.plans = @ + 1]
\* chttp_server_route_with refuses a route once the server was started
AppRouted(r, fault) ==
  IF r.ok /\ (fault = "route" \/ appServer # "configured") THEN MethodRelease(r) ELSE r

\* chttp_service_mount_http
Mount(mode, fault) ==
  LET fresh == [mode |-> mode, ok |-> TRUE, lease |-> FALSE, plan |-> FALSE,
                leases |-> svc.leases, plans |-> svc.plans]
      r == AppRouted(Compiled(Lowered(Admitted(PluginResolve(fresh, fault), fault), fault), fault), fault)
  IN  /\ svc.live /\ Len(svc.methods) < appPlan.capacity
      /\ svc' = [svc EXCEPT !.leases = r.leases, !.plans = r.plans,
                            !.methods = IF r.ok THEN Append(@, [mode |-> mode, inFlight |-> 0]) ELSE @]
      /\ UNCHANGED <<appPlan, inv, token, buffer, executor, appServer>>

-----------------------------------------------------------------------------
(* Handling *)

\* chttp_service_invocation_release, invocation_finalize of a task never posted
Freed(i, status) == [NoInvocation EXCEPT !.stage = "freed", !.method = inv[i].method, !.status = status]

\* chttp_service_http_execute: bind, invoke, write the outcome, reply
InlineStatus(bound, invoked, outcome) ==
  CASE bound # "OK" -> IngressFailure(bound)
    [] bound = "OK" /\ (~invoked \/ outcome \in {"write_failed", "unmapped", "native"}) -> 500
    [] OTHER -> 200
HandleInline(i, k, entries, invoked, outcome) ==
  /\ svc.live /\ appServer = "running" /\ inv[i].stage = "idle"
  /\ svc.methods[k].mode = "inline" /\ Supported(entries)
  /\ inv' = [inv EXCEPT ![i] = [Freed(i, InlineStatus(Bind(entries), invoked, outcome)) EXCEPT
                                  !.method = k]]
  /\ token' = [token EXCEPT ![i] = "replied"]
  /\ UNCHANGED <<appPlan, svc, buffer, executor, appServer>>

\* chttp_service_http_execute_deferred up to the admission of the task
Held(k) == [svc EXCEPT !.methods[k].inFlight = @ + 1]
HandleDeferred(i, k, entries, deferred) ==
  /\ svc.live /\ appServer = "running" /\ inv[i].stage = "idle"
  /\ svc.methods[k].mode # "inline" /\ Supported(entries)
  /\ IF Bind(entries) # "OK" \/ ~deferred
     THEN /\ inv' = [inv EXCEPT ![i] = [Freed(i, IF Bind(entries) # "OK" THEN IngressFailure(Bind(entries)) ELSE 0)
                                          EXCEPT !.method = k]]
          /\ token' = [token EXCEPT ![i] = IF Bind(entries) # "OK" THEN "replied" ELSE "none"]
          /\ UNCHANGED <<svc, executor>>
     ELSE /\ svc' = Held(k)
          /\ inv' = [inv EXCEPT ![i] = [stage |-> "posting", method |-> k, live |-> TRUE, held |-> TRUE,
                                        status |-> 0]]
          /\ token' = [token EXCEPT ![i] = "held"]
          /\ UNCHANGED executor
  /\ UNCHANGED <<appPlan, buffer, appServer>>

\* the reply fails when the server has closed the token meanwhile, or refuses the
\* answer (its size, no memory); a failure cancels the token
Settle(i, status) ==
  /\ \E taken \in BOOLEAN :
       token' = [token EXCEPT ![i] = IF @ = "held" /\ taken THEN "replied" ELSE "cancelled"]
  /\ inv' = [inv EXCEPT ![i].stage = "finalizing", ![i].status = status]

\* cflow_executor_try_post_task: accepted, or 503 and finalize
Post(i) ==
  /\ inv[i].stage = "posting"
  /\ IF executor.accepting /\ Len(executor.queue) < ExecutorCap
     THEN /\ executor' = [executor EXCEPT !.queue = Append(@, i)]
          /\ inv' = [inv EXCEPT ![i].stage = "queued"] /\ UNCHANGED token
     ELSE Settle(i, 503) /\ UNCHANGED executor
  /\ UNCHANGED <<appPlan, svc, buffer, appServer>>

-----------------------------------------------------------------------------
(* Workers *)

Dequeue(i) == [executor EXCEPT !.queue = SelectSeq(@, LAMBDA j : j # i)]

\* chttp_service_deferred_direct_run, chttp_service_deferred_cflow_run: the call
RunTask(i, invoked) ==
  /\ executor.queue # <<>> /\ i = Head(executor.queue) /\ executor.accepting
  /\ executor' = Dequeue(i)
  /\ IF invoked THEN inv' = [inv EXCEPT ![i].stage = "publishing"] /\ UNCHANGED token
     ELSE Settle(i, 500)
  /\ UNCHANGED <<appPlan, svc, buffer, appServer>>

\* write_outcome through begin_output, write_output, commit_output, abort_output
WriteOutcome(i, outcome) ==
  /\ inv[i].stage = "publishing"
  /\ IF outcome = "written"
     THEN /\ inv' = [inv EXCEPT ![i].stage = "replying"]
          /\ buffer' = [buffer EXCEPT ![i] = @ \cup {"provider"}] /\ UNCHANGED token
     ELSE Settle(i, 500) /\ UNCHANGED buffer
  /\ UNCHANGED <<appPlan, svc, executor, appServer>>
\* chttp_server_deferred_reply_buffer retains the buffer when it takes the answer;
\* release_output drops the provider's share either way
ReplyBuffer(i) ==
  /\ inv[i].stage = "replying"
  /\ Settle(i, 200)
  /\ buffer' = [buffer EXCEPT ![i] = (@ \ {"provider"}) \cup (IF token'[i] = "replied" THEN {"server"} ELSE {})]
  /\ UNCHANGED <<appPlan, svc, executor, appServer>>

\* the executor stops: tasks still queued are cancelled
StopExecutor ==
  /\ executor.accepting /\ executor' = [executor EXCEPT !.accepting = FALSE]
  /\ UNCHANGED <<appPlan, svc, inv, token, buffer, appServer>>
CancelTask(i) ==
  /\ ~executor.accepting /\ executor.queue # <<>> /\ i = Head(executor.queue)
  /\ executor' = Dequeue(i)
  /\ inv' = [inv EXCEPT ![i].stage = "finalizing"]
  /\ token' = [token EXCEPT ![i] = "cancelled"]
  /\ UNCHANGED <<appPlan, svc, buffer, appServer>>

\* chttp_service_invocation_finalize: native values first, then the method's hold
ReleaseInvocation(i) ==
  /\ inv[i].stage = "finalizing" /\ inv[i].live
  /\ inv' = [inv EXCEPT ![i].live = FALSE]
  /\ UNCHANGED <<appPlan, svc, token, buffer, executor, appServer>>
DropHold(i) ==
  /\ inv[i].stage = "finalizing" /\ ~inv[i].live
  /\ inv' = [inv EXCEPT ![i] = [@ EXCEPT !.stage = "freed", !.held = FALSE]]
  /\ svc' = IF inv[i].held THEN [svc EXCEPT !.methods[inv[i].method].inFlight = @ - 1] ELSE svc
  /\ UNCHANGED <<appPlan, token, buffer, executor, appServer>>

\* the server gives up the deferred response (deadline, disconnect, stop)
ExpireToken(i) ==
  /\ token[i] = "held" /\ token' = [token EXCEPT ![i] = "expired"]
  /\ UNCHANGED <<appPlan, svc, inv, buffer, executor, appServer>>
\* the server has sent the body
Sent(i) ==
  /\ "server" \in buffer[i] /\ buffer' = [buffer EXCEPT ![i] = @ \ {"server"}]
  /\ UNCHANGED <<appPlan, svc, inv, token, executor, appServer>>

\* the owner starts and stops the server, then destroys the service until it succeeds
StartServer ==
  /\ appServer = "configured" /\ appServer' = "running"
  /\ UNCHANGED <<appPlan, svc, inv, token, buffer, executor>>
StopServer ==
  /\ appServer = "running" /\ \A i \in Invocations : inv[i].stage # "posting"
  /\ appServer' = "stopped" /\ UNCHANGED <<appPlan, svc, inv, token, buffer, executor>>

\* A fault: only tasks still queued keep the service.
BusyQueued == executor.queue # <<>>

\* chttp_service_destroy: EBUSY while a method has tasks in flight
Busy == \E k \in 1..Len(svc.methods) : svc.methods[k].inFlight # 0
Destroy ==
  /\ svc.live /\ appServer = "stopped" /\ ~Busy
  /\ svc' = [live |-> FALSE, methods |-> <<>>,
             leases |-> svc.leases - Len(SelectSeq(svc.methods, LAMBDA m : m.mode = "plugin")),
             plans |-> svc.plans - Len(SelectSeq(svc.methods, LAMBDA m : m.mode = "cflow"))]
  /\ UNCHANGED <<appPlan, inv, token, buffer, executor, appServer>>

AppNext ==
  \/ \E mode \in appPlan.modes, fault \in {"none", "acquire", "resolve", "admit", "lower", "compile", "route"} : Mount(mode, fault)
  \/ \E i \in Invocations, k \in 1..Len(svc.methods), entries \in Inputs :
       \/ \E invoked \in BOOLEAN, outcome \in {"written", "write_failed", "native", "unmapped"} :
            HandleInline(i, k, entries, invoked, outcome)
       \/ \E deferred \in BOOLEAN : HandleDeferred(i, k, entries, deferred)
  \/ \E i \in Invocations :
       \/ Post(i) \/ CancelTask(i) \/ ReplyBuffer(i) \/ ReleaseInvocation(i) \/ DropHold(i) \/ ExpireToken(i) \/ Sent(i)
       \/ \E invoked \in BOOLEAN : RunTask(i, invoked)
       \/ \E outcome \in {"written", "write_failed", "native", "unmapped"} : WriteOutcome(i, outcome)
  \/ StopExecutor \/ StartServer \/ StopServer \/ Destroy

-----------------------------------------------------------------------------
(* Properties *)

InProgress(i) == inv[i].stage \notin {"idle", "freed"}

\* The method record, its descriptors, plan and plugin lease outlive every task
\* that uses them: destroy succeeds only when no task is queued, running or still
\* tearing down its native values ("all-or-nothing", chttp_service_destroy).  The
\* leases and plans alive are those of the mounted methods: a mount that fails at
\* any step gives back what it took.  A freed invocation leaves no response
\* unsettled, whichever of admission refusal, native failure, encoding failure,
\* cancellation or a late server close ended it, and no output buffer behind; the
\* server owns a buffer only as the body of a reply.
TasksKeepTheirMethod ==
  /\ \A i \in Invocations : InProgress(i) => svc.live
  /\ svc.live => \A k \in 1..Len(svc.methods) :
       svc.methods[k].inFlight = Cardinality({i \in Invocations : InProgress(i) /\ inv[i].method = k})
  /\ svc.leases = Len(SelectSeq(svc.methods, LAMBDA m : m.mode = "plugin"))
  /\ svc.plans = Len(SelectSeq(svc.methods, LAMBDA m : m.mode = "cflow"))
  /\ \A i \in Invocations :
       /\ inv[i].stage = "freed" => token[i] # "held" /\ "provider" \notin buffer[i]
       /\ "server" \in buffer[i] => token[i] = "replied" /\ inv[i].status = 200
=============================================================================
