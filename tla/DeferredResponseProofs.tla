----------------------- MODULE DeferredResponseProofs -----------------------
(***************************************************************************)
(* Proofs about DeferredResponse, for any number of slots, workers,        *)
(* deferrals and connections.  IInv ties the token of a slot to the        *)
(* builders it protects, to the worker that claimed it and to the history  *)
(* the contract speaks of.                                                 *)
(*                                                                         *)
(* The second half shows that DeferredResponse implements DeferredContract:*)
(* every step of a slot, a worker or the owner lane is a step of the       *)
(* contract or invisible to it.  IInv supplies what the contract's guards  *)
(* need.                                                                   *)
(***************************************************************************)
EXTENDS DeferredResponse, TLAPS

\* A token that is not idle belongs to the request whose headers are sealed,
\* and its slot is neither free nor being connected.
TokenInv ==
  /\ \A s \in Slots : phase[s] # "idle" => generation[s] # 0 /\ base[s] = generation[s]
  /\ \A s \in Slots : phase[s] = "ready" => built[s] = generation[s]
  /\ \A s \in Slots : conn[s] \in {"free", "opening"} => phase[s] = "idle"
  /\ \A s \in Slots : conn[s] # "free" => peer[s] # 0
  /\ opc = "defer" => phase[oslot] = "writing"
  /\ opc \in {"defer", "chain"} => conn[oslot] = "open"
  /\ mode \in {"cleanup", "done"} => opc = "loop"

\* The claims of the workers, and the mutex around a wake.
WorkerInv ==
  /\ \A w \in Workers : wpc[w] \in {"copy", "publish"} =>
       /\ phase[wslot[w]] = "writing"
       /\ generation[wslot[w]] = wgen[w]
       /\ ~(opc = "defer" /\ oslot = wslot[w])
  /\ \A w, v \in Workers :
       wpc[w] \in {"copy", "publish"} /\ wpc[v] \in {"copy", "publish"} /\ wslot[v] = wslot[w]
         => v = w
  /\ \A w \in Workers : wpc[w] = "copy" => wop[w] = "reply"
  /\ \A w \in Workers : wpc[w] = "publish" /\ wop[w] = "reply" => built[wslot[w]] = wgen[w]
  /\ \A w \in Workers : wpc[w] = "wake" => mutex = w

\* A lane past a clean drain has nothing left.
DrainInv ==
  /\ mode \in {"cleanup", "done"} /\ "failed" \notin flags =>
       \A s \in Slots : phase[s] = "idle"
  /\ mode = "done" /\ "failed" \notin flags => \A w \in Workers : wpc[w] # "wake"

\* The contract's history agrees with the tokens.
HistoryInv ==
  /\ \A s \in Slots, g \in Generations : <<s, g>> \in replied \cup canceled => g <= generation[s]
  /\ \A s \in Slots, g \in Generations, c \in Slots \X Peers :
       << <<s, g>>, c>> \in admitted \cup delivered => g <= generation[s]
  /\ \A s \in Slots : phase[s] # "idle" =>
       /\ << <<s, generation[s]>>, <<s, peer[s]>> >> \in admitted
       /\ << <<s, generation[s]>>, <<s, peer[s]>> >> \notin delivered
  /\ \A s \in Slots : phase[s] \in {"pending", "writing"} =>
       <<s, generation[s]>> \notin replied \cup canceled
  /\ \A s \in Slots : phase[s] = "ready" => <<s, generation[s]>> \in replied

\* Every admitted ticket is settled or still held by its token.
SettledInv ==
  \A e \in admitted :
    \/ e[1] \in replied
    \/ e[1] \in canceled
    \/ phase[e[1][1]] \in {"pending", "writing"} /\ generation[e[1][1]] = e[1][2]

IInv == TypeOK /\ TokenInv /\ WorkerInv /\ DrainInv /\ HistoryInv /\ SettledInv

\* The token the owner lane expires was handed out.
LEMMA ExpiredTyped ==
  ASSUME IInv, phase[oslot] = "pending"
  PROVE  <<oslot, generation[oslot]>> \in Slots \X Generations
BY GenerationAssumption DEF IInv, TypeOK, TokenInv, Generations

\* A token that is deferred now is one more of a connection that is known.
LEMMA DeferTyped ==
  ASSUME IInv, NEW s \in Slots, Defer(s)
  PROVE  <<s, peer[s]>> \in Slots \X Peers /\ <<s, generation[s] + 1>> \in Slots \X Generations
BY GenerationAssumption, PeerAssumption DEF Defer, IInv, TypeOK, TokenInv, Peers, Generations

\* An expiry that finds its token settled changes nothing the contract sees.
LEMMA LateExpiry ==
  ASSUME CancelExpired, phase[oslot] # "pending"
  PROVE  UNCHANGED <<conn, peer, admitted, replied, canceled, delivered>>
BY DEF CancelExpired, connVars

\* Every step keeps the types; the token invariant bounds what is recorded.
LEMMA TypesStep == TypeOK /\ TokenInv /\ WorkerInv /\ [Next]_vars => (TypeOK)'
<1> SUFFICES ASSUME TypeOK /\ TokenInv /\ WorkerInv, [Next]_vars
             PROVE  (TypeOK)'
  BY Zenon
<1> USE GenerationAssumption, PeerAssumption, NoWorkerAssumption
    DEF TypeOK, Generations, Peers, TokenStates, ConnStates, Active,
        tokenVars, connVars, builderVars, ownerVars, workerVars, historyVars,
        TokenInv, WorkerInv
<1>1. CASE PublishHandle
  BY <1>1 DEF PublishHandle
<1>2. CASE ChainReturns
  BY <1>2, Zenon DEF ChainReturns
<1>3. CASE ChainFails
  BY <1>3, Zenon DEF ChainFails
<1>4. CASE CancelExpired
  BY <1>4 DEF CancelExpired
<1>5. CASE RequestStop
  BY <1>5, Zenon DEF RequestStop
<1>6. CASE LoopFails
  BY <1>6, Zenon DEF LoopFails, OwnerIdle
<1>7. CASE BeginShutdown
  BY <1>7 DEF BeginShutdown
<1>8. CASE Drained
  BY <1>8, Zenon DEF Drained
<1>9. CASE CleanupNetwork
  BY <1>9 DEF CleanupNetwork
<1>10. CASE Terminated
  BY <1>10, Zenon DEF Terminated, vars
<1>11. ASSUME NEW s \in Slots, Accept(s) PROVE (TypeOK)'
  BY <1>11 DEF Accept, OwnerIdle
<1>12. ASSUME NEW s \in Slots, Connected(s) PROVE (TypeOK)'
  BY <1>12, Zenon DEF Connected, OwnerIdle
<1>13. ASSUME NEW s \in Slots, CloseConnection(s) PROVE (TypeOK)'
  BY <1>13, Zenon DEF CloseConnection, OwnerIdle
<1>14. ASSUME NEW s \in Slots, ConnectionClosed(s) PROVE (TypeOK)'
  <2>1. CASE phase[s] = "idle"
    BY <1>14, <2>1, SMTT(60) DEF ConnectionClosed, OwnerIdle
  <2>2. CASE phase[s] # "idle"
    BY <1>14, <2>2 DEF ConnectionClosed, OwnerIdle
  <2> QED
    BY <2>1, <2>2, Zenon
<1>15. ASSUME NEW s \in Slots, Recycle(s) PROVE (TypeOK)'
  BY <1>15, Zenon DEF Recycle, OwnerIdle
<1>16. ASSUME NEW s \in Slots, SendCompleted(s) PROVE (TypeOK)'
  BY <1>16 DEF SendCompleted, OwnerIdle
<1>17. ASSUME NEW s \in Slots, Defer(s) PROVE (TypeOK)'
  BY <1>17 DEF Defer, OwnerIdle
<1>18. ASSUME NEW s \in Slots, DeadlinePasses(s) PROVE (TypeOK)'
  BY <1>18, Zenon DEF DeadlinePasses
<1>19. ASSUME NEW s \in Slots, ExpireDeadline(s) PROVE (TypeOK)'
  BY <1>19 DEF ExpireDeadline, OwnerIdle
<1>20. ASSUME NEW s \in Slots, DrainCanceled(s) PROVE (TypeOK)'
  BY <1>20 DEF DrainCanceled, OwnerIdle, ResetRequest
<1>21. ASSUME NEW s \in Slots, DrainDisconnected(s) PROVE (TypeOK)'
  BY <1>21 DEF DrainDisconnected, OwnerIdle, ResetRequest
<1>22. ASSUME NEW s \in Slots, DrainUnserializable(s) PROVE (TypeOK)'
  BY <1>22 DEF DrainUnserializable, OwnerIdle, ResetRequest
<1>23. ASSUME NEW s \in Slots, DrainReady(s) PROVE (TypeOK)'
  <2>1. built[s] \in Generations /\ peer[s] \in Peers
    BY <1>23 DEF DrainReady
  <2>2. delivered' \subseteq (Slots \X Generations) \X (Slots \X Peers)
    BY <1>23, <2>1 DEF DrainReady
  <2>3. conn' \in [Slots -> ConnStates]
    BY <1>23 DEF DrainReady
  <2>4. flags' = flags \/ flags' = flags \cup {"failed"}
    BY <1>23, Zenon DEF DrainReady
  <2>5. flags' \subseteq {"stop", "failed"}
    <3>1. flags \subseteq {"stop", "failed"}
      BY Zenon
    <3>2. CASE flags' = flags
      BY <3>1, <3>2, Zenon
    <3>3. CASE flags' = flags \cup {"failed"}
      BY <3>1, <3>3, Zenon
    <3> QED
      BY <2>4, <3>2, <3>3, Zenon
  <2>6. /\ phase' \in [Slots -> TokenStates]
        /\ deadline' \in [Slots -> {"off", "armed", "expired"}]
        /\ sending' \in [Slots -> 0 .. MaxGeneration]
    BY <1>23 DEF DrainReady
  <2>7. UNCHANGED <<generation, peer, disconnected, builderVars, opc, oslot, mode, net,
                    mutex, workerVars, admitted, replied, canceled>>
    BY <1>23, Zenon DEF DrainReady
  <2> QED
    BY <2>2, <2>3, <2>5, <2>6, <2>7, Zenon
<1>24. ASSUME NEW w \in Workers, CopyResponse(w) PROVE (TypeOK)'
  BY <1>24 DEF CopyResponse
<1>25. ASSUME NEW w \in Workers, CopyFails(w) PROVE (TypeOK)'
  BY <1>25 DEF CopyFails
<1>26. ASSUME NEW w \in Workers, Publish(w) PROVE (TypeOK)'
  BY <1>26 DEF Publish
<1>27. ASSUME NEW w \in Workers, WakeAndUnlock(w) PROVE (TypeOK)'
  BY <1>27, Zenon DEF WakeAndUnlock
<1>28. ASSUME NEW w \in Workers, NEW s \in Slots, NEW g \in Generations,
           NEW op \in {"reply", "cancel"}, Claim(w, s, g, op)
    PROVE  (TypeOK)'
  BY <1>28 DEF Claim
<1>29. CASE UNCHANGED vars
  BY <1>29, Zenon DEF vars
<1> HIDE DEF TypeOK, TokenInv, WorkerInv, Generations, Peers, Active
<1> QED
  BY <1>1, <1>2, <1>3, <1>4, <1>5, <1>6, <1>7, <1>8, <1>9, <1>10, <1>11, <1>12, <1>13,
     <1>14, <1>15, <1>16, <1>17, <1>18, <1>19, <1>20, <1>21, <1>22, <1>23, <1>24, <1>25,
     <1>26, <1>27, <1>28, <1>29, Zenon DEF Next, OwnerThread, OwnerVisits, NetworkStep,
     WorkerStep

\* Every step keeps tokens, builders and connections consistent.
LEMMA TokenStep == TypeOK /\ TokenInv /\ WorkerInv /\ [Next]_vars => (TokenInv)'
<1> SUFFICES ASSUME TypeOK /\ TokenInv /\ WorkerInv, [Next]_vars
             PROVE  (TokenInv)'
  BY Zenon
<1> USE GenerationAssumption, PeerAssumption, NoWorkerAssumption
    DEF TypeOK, Generations, Peers, TokenStates, ConnStates, Active,
        tokenVars, connVars, builderVars, ownerVars, workerVars, historyVars,
        TokenInv, WorkerInv
<1>1. CASE PublishHandle
  BY <1>1 DEF PublishHandle
<1>2. CASE ChainReturns
  BY <1>2 DEF ChainReturns
<1>3. CASE ChainFails
  BY <1>3 DEF ChainFails
<1>4. CASE CancelExpired
  BY <1>4 DEF CancelExpired
<1>5. CASE RequestStop
  BY <1>5 DEF RequestStop
<1>6. CASE LoopFails
  BY <1>6 DEF LoopFails, OwnerIdle
<1>7. CASE BeginShutdown
  BY <1>7 DEF BeginShutdown
<1>8. CASE Drained
  BY <1>8 DEF Drained
<1>9. CASE CleanupNetwork
  BY <1>9 DEF CleanupNetwork
<1>10. CASE Terminated
  BY <1>10 DEF Terminated, vars
<1>11. ASSUME NEW s \in Slots, Accept(s) PROVE (TokenInv)'
  BY <1>11 DEF Accept, OwnerIdle
<1>12. ASSUME NEW s \in Slots, Connected(s) PROVE (TokenInv)'
  BY <1>12 DEF Connected, OwnerIdle
<1>13. ASSUME NEW s \in Slots, CloseConnection(s) PROVE (TokenInv)'
  BY <1>13 DEF CloseConnection, OwnerIdle
<1>14. ASSUME NEW s \in Slots, ConnectionClosed(s) PROVE (TokenInv)'
  BY <1>14 DEF ConnectionClosed, OwnerIdle
<1>15. ASSUME NEW s \in Slots, Recycle(s) PROVE (TokenInv)'
  BY <1>15 DEF Recycle, OwnerIdle
<1>16. ASSUME NEW s \in Slots, SendCompleted(s) PROVE (TokenInv)'
  BY <1>16 DEF SendCompleted, OwnerIdle
<1>17. ASSUME NEW s \in Slots, Defer(s) PROVE (TokenInv)'
  BY <1>17 DEF Defer, OwnerIdle
<1>18. ASSUME NEW s \in Slots, DeadlinePasses(s) PROVE (TokenInv)'
  BY <1>18 DEF DeadlinePasses
<1>19. ASSUME NEW s \in Slots, ExpireDeadline(s) PROVE (TokenInv)'
  BY <1>19 DEF ExpireDeadline, OwnerIdle
<1>20. ASSUME NEW s \in Slots, DrainCanceled(s) PROVE (TokenInv)'
  BY <1>20 DEF DrainCanceled, OwnerIdle, ResetRequest
<1>21. ASSUME NEW s \in Slots, DrainDisconnected(s) PROVE (TokenInv)'
  BY <1>21 DEF DrainDisconnected, OwnerIdle, ResetRequest
<1>22. ASSUME NEW s \in Slots, DrainUnserializable(s) PROVE (TokenInv)'
  BY <1>22 DEF DrainUnserializable, OwnerIdle, ResetRequest
<1>23. ASSUME NEW s \in Slots, DrainReady(s) PROVE (TokenInv)'
  BY <1>23 DEF DrainReady, OwnerIdle
<1>24. ASSUME NEW w \in Workers, CopyResponse(w) PROVE (TokenInv)'
  BY <1>24 DEF CopyResponse
<1>25. ASSUME NEW w \in Workers, CopyFails(w) PROVE (TokenInv)'
  BY <1>25 DEF CopyFails
<1>26. ASSUME NEW w \in Workers, Publish(w) PROVE (TokenInv)'
  BY <1>26 DEF Publish
<1>27. ASSUME NEW w \in Workers, WakeAndUnlock(w) PROVE (TokenInv)'
  BY <1>27 DEF WakeAndUnlock
<1>28. ASSUME NEW w \in Workers, NEW s \in Slots, NEW g \in Generations,
           NEW op \in {"reply", "cancel"}, Claim(w, s, g, op)
    PROVE  (TokenInv)'
  BY <1>28 DEF Claim
<1>29. CASE UNCHANGED vars
  BY <1>29 DEF vars
<1> HIDE DEF TypeOK, TokenInv, WorkerInv, Generations, Peers, Active
<1> QED
  BY <1>1, <1>2, <1>3, <1>4, <1>5, <1>6, <1>7, <1>8, <1>9, <1>10, <1>11, <1>12, <1>13,
     <1>14, <1>15, <1>16, <1>17, <1>18, <1>19, <1>20, <1>21, <1>22, <1>23, <1>24, <1>25,
     <1>26, <1>27, <1>28, <1>29, Zenon DEF Next, OwnerThread, OwnerVisits, NetworkStep,
     WorkerStep

\* Every step keeps the claims exclusive.
LEMMA WorkerStepInv == TypeOK /\ TokenInv /\ WorkerInv /\ [Next]_vars => (WorkerInv)'
<1> SUFFICES ASSUME TypeOK /\ TokenInv /\ WorkerInv, [Next]_vars
             PROVE  (WorkerInv)'
  BY Zenon
<1> USE GenerationAssumption, PeerAssumption, NoWorkerAssumption
    DEF TypeOK, Generations, Peers, TokenStates, ConnStates, Active,
        tokenVars, connVars, builderVars, ownerVars, workerVars, historyVars,
        TokenInv, WorkerInv
<1>1. CASE PublishHandle
  BY <1>1 DEF PublishHandle
<1>2. CASE ChainReturns
  BY <1>2 DEF ChainReturns
<1>3. CASE ChainFails
  BY <1>3 DEF ChainFails
<1>4. CASE CancelExpired
  BY <1>4 DEF CancelExpired
<1>5. CASE RequestStop
  BY <1>5 DEF RequestStop
<1>6. CASE LoopFails
  BY <1>6 DEF LoopFails, OwnerIdle
<1>7. CASE BeginShutdown
  BY <1>7 DEF BeginShutdown
<1>8. CASE Drained
  BY <1>8 DEF Drained
<1>9. CASE CleanupNetwork
  BY <1>9 DEF CleanupNetwork
<1>10. CASE Terminated
  BY <1>10, Zenon DEF Terminated, vars
<1>11. ASSUME NEW s \in Slots, Accept(s) PROVE (WorkerInv)'
  BY <1>11 DEF Accept, OwnerIdle
<1>12. ASSUME NEW s \in Slots, Connected(s) PROVE (WorkerInv)'
  BY <1>12 DEF Connected, OwnerIdle
<1>13. ASSUME NEW s \in Slots, CloseConnection(s) PROVE (WorkerInv)'
  BY <1>13 DEF CloseConnection, OwnerIdle
<1>14. ASSUME NEW s \in Slots, ConnectionClosed(s) PROVE (WorkerInv)'
  BY <1>14 DEF ConnectionClosed, OwnerIdle
<1>15. ASSUME NEW s \in Slots, Recycle(s) PROVE (WorkerInv)'
  BY <1>15 DEF Recycle, OwnerIdle
<1>16. ASSUME NEW s \in Slots, SendCompleted(s) PROVE (WorkerInv)'
  BY <1>16 DEF SendCompleted, OwnerIdle
<1>17. ASSUME NEW s \in Slots, Defer(s) PROVE (WorkerInv)'
  BY <1>17 DEF Defer, OwnerIdle
<1>18. ASSUME NEW s \in Slots, DeadlinePasses(s) PROVE (WorkerInv)'
  BY <1>18 DEF DeadlinePasses
<1>19. ASSUME NEW s \in Slots, ExpireDeadline(s) PROVE (WorkerInv)'
  BY <1>19 DEF ExpireDeadline, OwnerIdle
<1>20. ASSUME NEW s \in Slots, DrainCanceled(s) PROVE (WorkerInv)'
  BY <1>20 DEF DrainCanceled, OwnerIdle, ResetRequest
<1>21. ASSUME NEW s \in Slots, DrainDisconnected(s) PROVE (WorkerInv)'
  BY <1>21 DEF DrainDisconnected, OwnerIdle, ResetRequest
<1>22. ASSUME NEW s \in Slots, DrainUnserializable(s) PROVE (WorkerInv)'
  BY <1>22 DEF DrainUnserializable, OwnerIdle, ResetRequest
<1>23. ASSUME NEW s \in Slots, DrainReady(s) PROVE (WorkerInv)'
  BY <1>23 DEF DrainReady, OwnerIdle
<1>24. ASSUME NEW w \in Workers, CopyResponse(w) PROVE (WorkerInv)'
  BY <1>24 DEF CopyResponse
<1>25. ASSUME NEW w \in Workers, CopyFails(w) PROVE (WorkerInv)'
  BY <1>25 DEF CopyFails
<1>26. ASSUME NEW w \in Workers, Publish(w) PROVE (WorkerInv)'
  BY <1>26 DEF Publish
<1>27. ASSUME NEW w \in Workers, WakeAndUnlock(w) PROVE (WorkerInv)'
  BY <1>27 DEF WakeAndUnlock
<1>28. ASSUME NEW w \in Workers, NEW s \in Slots, NEW g \in Generations,
           NEW op \in {"reply", "cancel"}, Claim(w, s, g, op)
    PROVE  (WorkerInv)'
  BY <1>28 DEF Claim
<1>29. CASE UNCHANGED vars
  BY <1>29 DEF vars
<1> HIDE DEF TypeOK, TokenInv, WorkerInv, Generations, Peers, Active
<1> QED
  BY <1>1, <1>2, <1>3, <1>4, <1>5, <1>6, <1>7, <1>8, <1>9, <1>10, <1>11, <1>12, <1>13,
     <1>14, <1>15, <1>16, <1>17, <1>18, <1>19, <1>20, <1>21, <1>22, <1>23, <1>24, <1>25,
     <1>26, <1>27, <1>28, <1>29, Zenon DEF Next, OwnerThread, OwnerVisits, NetworkStep,
     WorkerStep

\* A clean drain is final.
LEMMA DrainStep == TypeOK /\ TokenInv /\ WorkerInv /\ DrainInv /\ [Next]_vars => (DrainInv)'
<1> SUFFICES ASSUME TypeOK /\ TokenInv /\ WorkerInv /\ DrainInv, [Next]_vars
             PROVE  (DrainInv)'
  BY Zenon
<1> USE GenerationAssumption, PeerAssumption, NoWorkerAssumption
    DEF TypeOK, Generations, Peers, TokenStates, ConnStates, Active,
        tokenVars, connVars, builderVars, ownerVars, workerVars, historyVars,
        TokenInv, WorkerInv, DrainInv
<1>1. CASE PublishHandle
  BY <1>1, Zenon DEF PublishHandle
<1>2. CASE ChainReturns
  BY <1>2, Zenon DEF ChainReturns
<1>3. CASE ChainFails
  BY <1>3, Zenon DEF ChainFails
<1>4. CASE CancelExpired
  BY <1>4, Zenon DEF CancelExpired
<1>5. CASE RequestStop
  BY <1>5, Zenon DEF RequestStop
<1>6. CASE LoopFails
  BY <1>6, Zenon DEF LoopFails, OwnerIdle
<1>7. CASE BeginShutdown
  BY <1>7, Zenon DEF BeginShutdown
<1>8. CASE Drained
  BY <1>8, Zenon DEF Drained
<1>9. CASE CleanupNetwork
  BY <1>9 DEF CleanupNetwork
<1>10. CASE Terminated
  BY <1>10, Zenon DEF Terminated, vars
<1>11. ASSUME NEW s \in Slots, Accept(s) PROVE (DrainInv)'
  BY <1>11, Zenon DEF Accept, OwnerIdle
<1>12. ASSUME NEW s \in Slots, Connected(s) PROVE (DrainInv)'
  BY <1>12, Zenon DEF Connected, OwnerIdle
<1>13. ASSUME NEW s \in Slots, CloseConnection(s) PROVE (DrainInv)'
  BY <1>13, Zenon DEF CloseConnection, OwnerIdle
<1>14. ASSUME NEW s \in Slots, ConnectionClosed(s) PROVE (DrainInv)'
  BY <1>14, Zenon DEF ConnectionClosed, OwnerIdle
<1>15. ASSUME NEW s \in Slots, Recycle(s) PROVE (DrainInv)'
  BY <1>15, Zenon DEF Recycle, OwnerIdle
<1>16. ASSUME NEW s \in Slots, SendCompleted(s) PROVE (DrainInv)'
  BY <1>16, SMTT(60) DEF SendCompleted, OwnerIdle
<1>17. ASSUME NEW s \in Slots, Defer(s) PROVE (DrainInv)'
  BY <1>17, Zenon DEF Defer, OwnerIdle
<1>18. ASSUME NEW s \in Slots, DeadlinePasses(s) PROVE (DrainInv)'
  BY <1>18, Zenon DEF DeadlinePasses
<1>19. ASSUME NEW s \in Slots, ExpireDeadline(s) PROVE (DrainInv)'
  BY <1>19, Zenon DEF ExpireDeadline, OwnerIdle
<1>20. ASSUME NEW s \in Slots, DrainCanceled(s) PROVE (DrainInv)'
  BY <1>20, Zenon DEF DrainCanceled, OwnerIdle, ResetRequest
<1>21. ASSUME NEW s \in Slots, DrainDisconnected(s) PROVE (DrainInv)'
  BY <1>21, Zenon DEF DrainDisconnected, OwnerIdle, ResetRequest
<1>22. ASSUME NEW s \in Slots, DrainUnserializable(s) PROVE (DrainInv)'
  BY <1>22, Zenon DEF DrainUnserializable, OwnerIdle, ResetRequest
<1>23. ASSUME NEW s \in Slots, DrainReady(s) PROVE (DrainInv)'
  BY <1>23, Zenon DEF DrainReady, OwnerIdle
<1>24. ASSUME NEW w \in Workers, CopyResponse(w) PROVE (DrainInv)'
  BY <1>24 DEF CopyResponse
<1>25. ASSUME NEW w \in Workers, CopyFails(w) PROVE (DrainInv)'
  BY <1>25 DEF CopyFails
<1>26. ASSUME NEW w \in Workers, Publish(w) PROVE (DrainInv)'
  BY <1>26 DEF Publish
<1>27. ASSUME NEW w \in Workers, WakeAndUnlock(w) PROVE (DrainInv)'
  BY <1>27, Zenon DEF WakeAndUnlock
<1>28. ASSUME NEW w \in Workers, NEW s \in Slots, NEW g \in Generations,
           NEW op \in {"reply", "cancel"}, Claim(w, s, g, op)
    PROVE  (DrainInv)'
  BY <1>28, Zenon DEF Claim
<1>29. CASE UNCHANGED vars
  BY <1>29, Zenon DEF vars
<1> HIDE DEF TypeOK, TokenInv, WorkerInv, Generations, Peers, Active, DrainInv
<1> QED
  BY <1>1, <1>2, <1>3, <1>4, <1>5, <1>6, <1>7, <1>8, <1>9, <1>10, <1>11, <1>12, <1>13,
     <1>14, <1>15, <1>16, <1>17, <1>18, <1>19, <1>20, <1>21, <1>22, <1>23, <1>24, <1>25,
     <1>26, <1>27, <1>28, <1>29, Zenon DEF Next, OwnerThread, OwnerVisits, NetworkStep,
     WorkerStep

\* What a step that records nothing may do to a token: end it, claim it or
\* give it back, while its connection keeps its incarnation.
TokenFrame ==
  /\ UNCHANGED <<generation, admitted, replied, canceled, delivered>>
  /\ \A s \in Slots : phase'[s] # "idle" => phase[s] # "idle" /\ peer'[s] = peer[s]
  /\ \A s \in Slots : phase'[s] \in {"pending", "writing"} => phase[s] \in {"pending", "writing"}
  /\ \A s \in Slots : phase[s] \in {"pending", "writing"} => phase'[s] \in {"pending", "writing"}
  /\ \A s \in Slots : phase'[s] = "ready" => phase[s] = "ready"

\* Such a step keeps the agreement of history and tokens.
LEMMA HistoryFramed == HistoryInv /\ TokenFrame => (HistoryInv)'
<1> SUFFICES ASSUME HistoryInv, TokenFrame PROVE (HistoryInv)'
  BY Zenon
<1>1. /\ \A s \in Slots, g \in Generations :
           <<s, g>> \in replied' \cup canceled' => g <= generation'[s]
      /\ \A s \in Slots, g \in Generations, c \in Slots \X Peers :
           << <<s, g>>, c>> \in admitted' \cup delivered' => g <= generation'[s]
  BY SMTT(60) DEF HistoryInv, TokenFrame
<1>2. ASSUME NEW s \in Slots, phase'[s] # "idle"
      PROVE  /\ << <<s, generation'[s]>>, <<s, peer'[s]>> >> \in admitted'
             /\ << <<s, generation'[s]>>, <<s, peer'[s]>> >> \notin delivered'
  BY <1>2, SMTT(60) DEF HistoryInv, TokenFrame
<1>3. ASSUME NEW s \in Slots, phase'[s] \in {"pending", "writing"}
      PROVE  <<s, generation'[s]>> \notin replied' \cup canceled'
  BY <1>3, SMTT(60) DEF HistoryInv, TokenFrame
<1>4. ASSUME NEW s \in Slots, phase'[s] = "ready" PROVE <<s, generation'[s]>> \in replied'
  BY <1>4, SMTT(60) DEF HistoryInv, TokenFrame
<1> QED
  BY <1>1, <1>2, <1>3, <1>4, SMTT(60) DEF HistoryInv, Generations, Peers

\* Every step but those that admit, settle or deliver is such a step.
LEMMA QuietFrames ==
  ASSUME TypeOK, TokenInv, WorkerInv
  PROVE  /\ PublishHandle \/ ChainReturns \/ ChainFails \/ RequestStop \/ LoopFails => TokenFrame
         /\ BeginShutdown \/ Drained \/ CleanupNetwork \/ Terminated => TokenFrame
         /\ \A s \in Slots : Accept(s) \/ Connected(s) \/ CloseConnection(s)
                             \/ ConnectionClosed(s) \/ Recycle(s) \/ SendCompleted(s)
                             \/ DeadlinePasses(s) \/ ExpireDeadline(s) => TokenFrame
         /\ \A s \in Slots : DrainCanceled(s) \/ DrainDisconnected(s)
                             \/ DrainUnserializable(s) => TokenFrame
         /\ \A w \in Workers : CopyResponse(w) \/ CopyFails(w) \/ WakeAndUnlock(w) => TokenFrame
         /\ \A w \in Workers, s \in Slots, g \in Generations, op \in {"reply", "cancel"} :
               Claim(w, s, g, op) => TokenFrame
         /\ UNCHANGED vars => TokenFrame
<1>1. /\ phase \in [Slots -> TokenStates] /\ peer \in [Slots -> 0 .. MaxPeer]
      /\ oslot \in Slots /\ wslot \in [Workers -> Slots]
  BY Zenon DEF TypeOK
<1>2. opc = "defer" => phase[oslot] = "writing"
  BY Zenon DEF TokenInv
<1>3. \A w \in Workers : wpc[w] \in {"copy", "publish"} => phase[wslot[w]] = "writing"
  BY Zenon DEF WorkerInv
<1> USE DEF TokenFrame, TokenStates, tokenVars, connVars, builderVars, ownerVars, workerVars,
            historyVars
<1>4. PublishHandle => TokenFrame
  BY <1>1, <1>2, SMTT(60) DEF PublishHandle
<1>5. ChainReturns => TokenFrame
  BY <1>1, <1>2, SMTT(60) DEF ChainReturns
<1>6. ChainFails => TokenFrame
  BY <1>1, <1>2, SMTT(60) DEF ChainFails
<1>7. RequestStop => TokenFrame
  BY <1>1, <1>2, SMTT(60) DEF RequestStop
<1>8. LoopFails => TokenFrame
  BY <1>1, <1>2, SMTT(60) DEF LoopFails
<1>9. BeginShutdown => TokenFrame
  BY <1>1, <1>2, SMTT(60) DEF BeginShutdown
<1>10. Drained => TokenFrame
  BY <1>1, <1>2, SMTT(60) DEF Drained
<1>11. CleanupNetwork => TokenFrame
  BY <1>1, <1>2, SMTT(60) DEF CleanupNetwork
<1>12. Terminated => TokenFrame
  BY <1>1, <1>2, SMTT(60) DEF Terminated, vars
<1>13. \A s \in Slots : Accept(s) => TokenFrame
  BY <1>1, SMTT(60) DEF Accept
<1>14. \A s \in Slots : Connected(s) => TokenFrame
  BY <1>1, SMTT(60) DEF Connected
<1>15. \A s \in Slots : CloseConnection(s) => TokenFrame
  BY <1>1, SMTT(60) DEF CloseConnection
<1>16. \A s \in Slots : ConnectionClosed(s) => TokenFrame
  BY <1>1, SMTT(60) DEF ConnectionClosed
<1>17. \A s \in Slots : Recycle(s) => TokenFrame
  BY <1>1, SMTT(60) DEF Recycle
<1>18. \A s \in Slots : SendCompleted(s) => TokenFrame
  BY <1>1, SMTT(60) DEF SendCompleted
<1>19. \A s \in Slots : DeadlinePasses(s) => TokenFrame
  BY <1>1, SMTT(60) DEF DeadlinePasses
<1>20. \A s \in Slots : ExpireDeadline(s) => TokenFrame
  BY <1>1, SMTT(60) DEF ExpireDeadline
<1>21. \A s \in Slots : DrainCanceled(s) => TokenFrame
  BY <1>1, SMTT(60) DEF DrainCanceled, ResetRequest
<1>22. \A s \in Slots : DrainDisconnected(s) => TokenFrame
  BY <1>1, SMTT(60) DEF DrainDisconnected, ResetRequest
<1>23. \A s \in Slots : DrainUnserializable(s) => TokenFrame
  BY <1>1, SMTT(60) DEF DrainUnserializable, ResetRequest
<1>24. \A w \in Workers : CopyResponse(w) => TokenFrame
  BY <1>1, <1>3, SMTT(60) DEF CopyResponse
<1>25. \A w \in Workers : CopyFails(w) => TokenFrame
  BY <1>1, <1>3, SMTT(60) DEF CopyFails
<1>26. \A w \in Workers : WakeAndUnlock(w) => TokenFrame
  BY <1>1, <1>3, SMTT(60) DEF WakeAndUnlock
<1>27. \A w \in Workers, s \in Slots, g \in Generations, op \in {"reply", "cancel"} :
         Claim(w, s, g, op) => TokenFrame
  BY <1>1, SMTT(60) DEF Claim
<1>28. UNCHANGED vars => TokenFrame
  BY SMTT(60) DEF vars
<1> HIDE DEF TokenFrame
<1> QED
  BY <1>4, <1>5, <1>6, <1>7, <1>8, <1>9, <1>10, <1>11, <1>12, <1>13, <1>14, <1>15, <1>16,
     <1>17, <1>18, <1>19, <1>20, <1>21, <1>22, <1>23, <1>24, <1>25, <1>26, <1>27, <1>28, Zenon

\* The history follows the tokens.
LEMMA HistoryStep == TypeOK /\ TokenInv /\ WorkerInv /\ HistoryInv /\ [Next]_vars => (HistoryInv)'
<1> SUFFICES ASSUME TypeOK /\ TokenInv /\ WorkerInv /\ HistoryInv, [Next]_vars
             PROVE  (HistoryInv)'
  BY Zenon
<1>1. TokenFrame => (HistoryInv)'
  BY HistoryFramed, Zenon
<1>2. CASE CancelExpired
  BY <1>2, SMTT(60) DEF CancelExpired, TypeOK, HistoryInv, connVars, historyVars
<1>3. ASSUME NEW s \in Slots, Defer(s) PROVE (HistoryInv)'
  BY <1>3, GenerationAssumption, SMTT(60) DEF Defer, TypeOK, HistoryInv, Generations, Peers, connVars
<1>4. ASSUME NEW s \in Slots, DrainReady(s) PROVE (HistoryInv)'
  BY <1>4, SMTT(60) DEF DrainReady, TypeOK, TokenInv, HistoryInv, Generations, Peers
<1>5. ASSUME NEW w \in Workers, Publish(w) PROVE (HistoryInv)'
  BY <1>5, SMTT(60) DEF Publish, TypeOK, WorkerInv, HistoryInv, connVars
<1> QED
  BY <1>1, <1>2, <1>3, <1>4, <1>5, QuietFrames, Zenon
     DEF Next, OwnerThread, OwnerVisits, NetworkStep, WorkerStep

\* No ticket is forgotten.
LEMMA SettledStep == TypeOK /\ TokenInv /\ WorkerInv /\ SettledInv /\ [Next]_vars => (SettledInv)'
<1> SUFFICES ASSUME TypeOK /\ TokenInv /\ WorkerInv /\ SettledInv, [Next]_vars
             PROVE  (SettledInv)'
  BY Zenon
<1>0. \A e \in admitted : e[1][1] \in Slots
  BY Zenon DEF TypeOK
<1>1. TokenFrame => (SettledInv)'
  BY <1>0, SMTT(60) DEF TokenFrame, SettledInv
<1>2. CASE CancelExpired
  BY <1>0, <1>2, SMTT(60) DEF CancelExpired, TypeOK, SettledInv, historyVars
<1>3. ASSUME NEW s \in Slots, Defer(s) PROVE (SettledInv)'
  BY <1>0, <1>3, GenerationAssumption, SMTT(60) DEF Defer, TypeOK, SettledInv
<1>4. ASSUME NEW s \in Slots, DrainReady(s) PROVE (SettledInv)'
  BY <1>0, <1>4, SMTT(60) DEF DrainReady, TypeOK, SettledInv
<1>5. ASSUME NEW w \in Workers, Publish(w) PROVE (SettledInv)'
  BY <1>0, <1>5, SMTT(60) DEF Publish, TypeOK, WorkerInv, SettledInv
<1> QED
  BY <1>1, <1>2, <1>3, <1>4, <1>5, QuietFrames, Zenon
     DEF Next, OwnerThread, OwnerVisits, NetworkStep, WorkerStep

\* The initial state satisfies the inductive invariant.
LEMMA InitInv == Init => IInv
BY GenerationAssumption, PeerAssumption, NoWorkerAssumption
   DEF Init, IInv, TypeOK, TokenInv, WorkerInv, DrainInv, HistoryInv, SettledInv,
       Generations, Peers, TokenStates, ConnStates

\* IInv is an invariant of the specification.
THEOREM Invariance == Spec => []IInv
<1>1. IInv /\ [Next]_vars => IInv'
  BY TypesStep, TokenStep, WorkerStepInv, DrainStep, HistoryStep, SettledStep, Zenon DEF IInv
<1> QED
  BY InitInv, <1>1, PTL DEF Spec

\* The type invariant holds in every reachable state, for any constants.
THEOREM TypeCorrect == Spec => []TypeOK
BY Invariance, PTL DEF IInv

\* chttp_server_deferred_claim() is exclusive and generation-checked: between
\* claim and publish a worker owns the token of its slot, alone.
THEOREM ClaimsAreExclusive == Spec => []ClaimIsExclusive
<1>1. IInv => ClaimIsExclusive
  BY Zenon DEF IInv, WorkerInv, ClaimIsExclusive
<1> QED
  BY Invariance, <1>1, PTL

\* The headers a worker copies stay sealed, whatever the owner does with the
\* connection and its slot meanwhile.
THEOREM HeadersStaySealed == Spec => []SealedHeadersIntact
<1>1. IInv => SealedHeadersIntact
  BY DEF IInv, TypeOK, TokenInv, WorkerInv, SealedHeadersIntact
<1> QED
  BY Invariance, <1>1, PTL

\* A ready token stands for the complete response of its own request.
THEOREM ReadyResponsesComplete == Spec => []ReadyIsComplete
<1>1. IInv => ReadyIsComplete
  BY Zenon DEF IInv, TokenInv, ReadyIsComplete
<1> QED
  BY Invariance, <1>1, PTL

\* A lane that finishes without an error has settled every handle and no
\* worker is left inside reply or cancel.
THEOREM CleanStopIsSettled == Spec => []CleanStopSettles
<1>1. IInv => CleanStopSettles
  <2> SUFFICES ASSUME IInv, mode = "done", "failed" \notin flags
               PROVE  /\ \A s \in Slots : phase[s] = "idle"
                      /\ \A w \in Workers : wpc[w] = "idle"
                      /\ \A e \in admitted : e[1] \in replied \/ e[1] \in canceled
    BY Zenon DEF CleanStopSettles
  <2>1. \A s \in Slots : phase[s] = "idle"
    BY Zenon DEF IInv, DrainInv
  <2>2. \A w \in Workers : wpc[w] = "idle"
    BY <2>1 DEF IInv, TypeOK, WorkerInv, DrainInv
  <2>3. \A e \in admitted : e[1] \in replied \/ e[1] \in canceled
    BY <2>1, SMTT(60) DEF IInv, TypeOK, SettledInv
  <2> QED
    BY <2>1, <2>2, <2>3, Zenon
<1> QED
  BY Invariance, <1>1, PTL

\* The lifecycle mutex keeps the owner's network up until the worker that
\* published last has woken it.
THEOREM WakeBeforeTeardown == Spec => NoTeardownDuringWake
<1>1. IInv /\ [Next]_vars =>
        [net' = "down" /\ net = "up" => \A w \in Workers : wpc[w] # "wake"]_vars
  <2> SUFFICES ASSUME IInv, Next, net' = "down", net = "up", NEW w \in Workers
               PROVE  wpc[w] # "wake"
    BY Zenon
  <2>1. CleanupNetwork
    BY ZenonT(60) DEF Next, OwnerThread, OwnerVisits, NetworkStep, WorkerStep, vars, ownerVars,
           PublishHandle, ChainReturns, ChainFails, CancelExpired, RequestStop, LoopFails,
           BeginShutdown, Drained, Terminated, Accept, Connected, CloseConnection,
           ConnectionClosed, Recycle, SendCompleted, Defer, DeadlinePasses, ExpireDeadline,
           DrainCanceled, DrainDisconnected, DrainUnserializable, DrainReady, CopyResponse,
           CopyFails, Publish, WakeAndUnlock, Claim
  <2> QED
    BY <2>1, NoWorkerAssumption, Zenon DEF CleanupNetwork, IInv, WorkerInv
<1> QED
  BY Invariance, <1>1, PTL DEF Spec, NoTeardownDuringWake


\* What the token of a slot guards is guarded in every behaviour: the theorems
\* above taken together.
THEOREM TokensAreSafe == Spec => TokensSafe
  BY ClaimsAreExclusive, HeadersStaySealed, ReadyResponsesComplete, CleanStopIsSettled,
     WakeBeforeTeardown, PTL DEF TokensSafe

-----------------------------------------------------------------------------

\* Steps the contract does not see: the history is unchanged and so is the
\* set of open connections.
Hidden == UNCHANGED <<OpenConnections, admitted, replied, canceled, delivered>>

\* A step that keeps every connection's incarnation and liveness keeps the
\* set of open connections.
LEMMA SameOpen ==
  ASSUME peer' = peer, Active' = Active
  PROVE  OpenConnections' = OpenConnections
BY Zenon DEF OpenConnections

\* Handlers that touch neither connections nor history.
LEMMA QuietSteps ==
  ASSUME IInv,
         \/ PublishHandle \/ ChainReturns \/ RequestStop \/ LoopFails \/ Drained \/ Terminated
         \/ UNCHANGED vars
         \/ \E s \in Slots : SendCompleted(s) \/ DeadlinePasses(s) \/ ExpireDeadline(s)
                             \/ DrainDisconnected(s)
         \/ \E w \in Workers : CopyResponse(w) \/ CopyFails(w) \/ WakeAndUnlock(w)
         \/ \E w \in Workers, s \in Slots, g \in Generations, op \in {"reply", "cancel"} :
               Claim(w, s, g, op)
  PROVE  Hidden
<1>1. UNCHANGED <<conn, peer, admitted, replied, canceled, delivered>>
  BY Zenon DEF PublishHandle, ChainReturns, RequestStop, LoopFails, Drained, Terminated, vars,
         SendCompleted, DeadlinePasses, ExpireDeadline, DrainDisconnected, CopyResponse,
         CopyFails, WakeAndUnlock, Claim, connVars, historyVars
<1>2. Active' = Active
  BY <1>1, Zenon DEF Active
<1> QED
  BY <1>1, <1>2, SameOpen, ZenonT(60) DEF Hidden

\* Handlers that move a connection between live states, or recycle a dead one.
LEMMA ConnectionSteps ==
  ASSUME IInv,
         \/ ChainFails \/ BeginShutdown
         \/ \E s \in Slots : Connected(s) \/ CloseConnection(s) \/ Recycle(s)
                             \/ DrainCanceled(s) \/ DrainUnserializable(s)
  PROVE  Hidden
<1>1. UNCHANGED <<peer, admitted, replied, canceled, delivered>>
  BY Zenon DEF ChainFails, BeginShutdown, Connected, CloseConnection, Recycle, DrainCanceled,
         DrainUnserializable, historyVars
<1>2. Active' = Active
  <2>1. conn \in [Slots -> ConnStates]
    BY Zenon DEF IInv, TypeOK
  <2>2. CASE ChainFails
    BY <2>1, <2>2, Zenon DEF ChainFails, Active, IInv, TypeOK, TokenInv
  <2>3. CASE BeginShutdown
    BY <2>1, <2>3, Zenon DEF BeginShutdown, Active
  <2>4. ASSUME NEW s \in Slots,
               \/ Connected(s) \/ CloseConnection(s) \/ Recycle(s)
               \/ DrainCanceled(s) \/ DrainUnserializable(s)
        PROVE  Active' = Active
    BY <2>1, <2>4, Zenon DEF Connected, CloseConnection, Recycle, DrainCanceled,
                      DrainUnserializable, Active
  <2> QED
    BY <2>2, <2>3, <2>4, Zenon
<1> QED
  BY <1>1, <1>2, SameOpen, Zenon DEF Hidden

\* The part of the invariant the set of open connections depends on.
LEMMA ConnectionFacts ==
  ASSUME IInv
  PROVE  /\ conn \in [Slots -> ConnStates]
         /\ peer \in [Slots -> 0 .. MaxPeer]
         /\ \A s \in Slots : conn[s] # "free" => <<s, peer[s]>> \in Slots \X Peers
<1>1. conn \in [Slots -> ConnStates] /\ peer \in [Slots -> 0 .. MaxPeer]
  BY Zenon DEF IInv, TypeOK
<1>2. \A s \in Slots : conn[s] # "free" => peer[s] # 0
  BY Zenon DEF IInv, TokenInv
<1>3. \A s \in Slots : conn[s] # "free" => peer[s] \in Peers
  BY <1>1, <1>2, PeerAssumption DEF Peers
<1> QED
  BY <1>1, <1>3, Zenon

\* The open connections are connections the contract knows.
LEMMA OpenKnown ==
  ASSUME IInv
  PROVE  OpenConnections \subseteq Slots \X Peers
<1>1. \A s \in Active : s \in Slots /\ conn[s] # "free"
  BY Zenon DEF Active
<1> QED
  BY <1>1, ConnectionFacts, Zenon DEF OpenConnections

\* Accepting adds one incarnation that was not open.
LEMMA AcceptOpens ==
  ASSUME IInv, NEW s \in Slots, Accept(s)
  PROVE  /\ <<s, peer'[s]>> \in Slots \X Peers
         /\ <<s, peer'[s]>> \notin OpenConnections
         /\ OpenConnections' = OpenConnections \cup {<<s, peer'[s]>>}
         /\ UNCHANGED historyVars
<1>1. /\ conn[s] = "free" /\ conn' = [conn EXCEPT ![s] = "opening"]
      /\ peer[s] < MaxPeer /\ peer' = [peer EXCEPT ![s] = @ + 1]
      /\ UNCHANGED historyVars
  BY Zenon DEF Accept
<1>2. conn \in [Slots -> ConnStates] /\ peer \in [Slots -> 0 .. MaxPeer]
  BY ConnectionFacts, Zenon
<1>3. s \notin Active /\ Active' = Active \cup {s}
  BY <1>1, <1>2, Zenon DEF Active
<1>4. peer'[s] \in Peers /\ \A r \in Active : r # s /\ peer'[r] = peer[r]
  BY <1>1, <1>2, <1>3, PeerAssumption DEF Peers, Active
<1>5. \A x : x \in OpenConnections <=> \E r \in Active : x = <<r, peer[r]>>
  BY Zenon DEF OpenConnections
<1>6. \A x : x \in OpenConnections' <=> \E r \in Active' : x = <<r, peer'[r]>>
  BY Zenon DEF OpenConnections
<1>7. <<s, peer'[s]>> \notin OpenConnections
  BY <1>4, <1>5
<1>8. \A x : x \in OpenConnections' <=> x \in OpenConnections \/ x = <<s, peer'[s]>>
  BY <1>3, <1>4, <1>5, <1>6
<1>9. OpenConnections' = OpenConnections \cup {<<s, peer'[s]>>}
  BY <1>8, Zenon
<1> QED
  BY <1>1, <1>4, <1>7, <1>9

\* A closed connection leaves the open ones and no other does.
LEMMA ClosedLeaves ==
  ASSUME IInv, NEW s \in Slots, ConnectionClosed(s)
  PROVE  /\ <<s, peer[s]>> \in Slots \X Peers
         /\ OpenConnections' = OpenConnections \ {<<s, peer[s]>>}
         /\ UNCHANGED historyVars
<1>1. /\ s \in Active /\ conn' = [conn EXCEPT ![s] = "retired"]
      /\ peer' = peer
      /\ UNCHANGED historyVars
  BY Zenon DEF ConnectionClosed
<1>2. conn \in [Slots -> ConnStates] /\ <<s, peer[s]>> \in Slots \X Peers
  BY <1>1, ConnectionFacts, Zenon DEF Active
<1>3. Active' = Active \ {s}
  BY <1>1, <1>2, Zenon DEF Active
<1>4. \A x : x \in OpenConnections <=> \E r \in Active : x = <<r, peer[r]>>
  BY Zenon DEF OpenConnections
<1>5. \A x : x \in OpenConnections' <=> \E r \in Active' : x = <<r, peer[r]>>
  BY <1>1, Zenon DEF OpenConnections
<1>6. \A x : x \in OpenConnections' <=> x \in OpenConnections /\ x # <<s, peer[s]>>
  BY <1>3, <1>4, <1>5
<1>7. OpenConnections' = OpenConnections \ {<<s, peer[s]>>}
  BY <1>6, Zenon
<1> QED
  BY <1>1, <1>2, <1>7, Zenon

\* Cleaning the network up leaves no connection open.
LEMMA CleanupCloses ==
  ASSUME CleanupNetwork
  PROVE  OpenConnections' = {} /\ UNCHANGED historyVars
<1>1. conn' = [s \in Slots |-> IF s \in Active THEN "retired" ELSE conn[s]]
  BY Zenon DEF CleanupNetwork
<1>2. Active' = {}
  BY <1>1, Zenon DEF Active
<1>3. UNCHANGED historyVars
  BY Zenon DEF CleanupNetwork
<1> QED
  BY <1>2, <1>3, Zenon DEF OpenConnections

\* A peer connecting, or connections ending, opens or closes the contract's.
LEMMA PeerSteps ==
  ASSUME IInv
  PROVE  /\ \A s \in Slots : Accept(s) => Contract!Open(<<s, peer'[s]>>)
         /\ \A s \in Slots : ConnectionClosed(s) => Contract!Close({<<s, peer[s]>>})
         /\ CleanupNetwork => Contract!Close(OpenConnections)
<1>1. ASSUME NEW s \in Slots, Accept(s) PROVE Contract!Open(<<s, peer'[s]>>)
  BY <1>1, AcceptOpens, Zenon DEF Contract!Open, historyVars
<1>2. ASSUME NEW s \in Slots, ConnectionClosed(s) PROVE Contract!Close({<<s, peer[s]>>})
  BY <1>2, ClosedLeaves, ZenonT(60) DEF Contract!Close, historyVars
<1>3. ASSUME CleanupNetwork PROVE Contract!Close(OpenConnections)
  BY <1>3, CleanupCloses, Zenon DEF Contract!Close, historyVars
<1> QED
  BY <1>1, <1>2, <1>3, Zenon

\* What the invariant says of a slot's token and its ticket.
LEMMA TicketFacts ==
  ASSUME IInv, NEW s \in Slots
  PROVE  /\ phase[s] # "idle" =>
              /\ << <<s, generation[s]>>, <<s, peer[s]>> >> \in admitted
              /\ << <<s, generation[s]>>, <<s, peer[s]>> >> \notin delivered
         /\ phase[s] \in {"pending", "writing"} => <<s, generation[s]>> \notin replied \cup canceled
         /\ phase[s] = "ready" => <<s, generation[s]>> \in replied /\ built[s] = generation[s]
<1>1. HistoryInv /\ TokenInv
  BY Zenon DEF IInv
<1>2. phase[s] = "ready" => built[s] = generation[s]
  BY <1>1, Zenon DEF TokenInv
<1> QED
  BY <1>1, <1>2, Zenon DEF HistoryInv

\* Deferring admits a new ticket for the slot's open connection.
LEMMA DeferAdmits ==
  ASSUME IInv, NEW s \in Slots, Defer(s)
  PROVE  Contract!Admit(<<s, generation[s] + 1>>, <<s, peer[s]>>)
<1>1. Active' = Active /\ peer' = peer /\ s \in Active
  BY Zenon DEF Defer, Active
<1>2. \A c \in Slots \X Peers : << <<s, generation[s] + 1>>, c>> \notin admitted
  BY GenerationAssumption DEF Defer, IInv, TypeOK, HistoryInv, Generations
<1> QED
  <2>1. OpenConnections' = OpenConnections /\ <<s, peer[s]>> \in OpenConnections
    BY <1>1, SameOpen, Zenon DEF OpenConnections
  <2>2. /\ admitted' = admitted \cup {<< <<s, generation[s] + 1>>, <<s, peer[s]>> >>}
        /\ UNCHANGED <<replied, canceled, delivered>>
    BY Zenon DEF Defer
  <2> QED
    BY <1>2, <2>1, <2>2, Zenon DEF Contract!Admit

\* Publishing settles an unsettled ticket, as a reply or as a cancel.
LEMMA PublishSettles ==
  ASSUME IInv, NEW w \in Workers, Publish(w)
  PROVE  \/ Contract!Reply(<<wslot[w], wgen[w]>>)
         \/ Contract!Cancel(<<wslot[w], wgen[w]>>)
<1>1. Active' = Active /\ peer' = peer
  BY Zenon DEF Publish, connVars, Active
<1>2. wslot[w] \in Slots /\ phase[wslot[w]] = "writing" /\ generation[wslot[w]] = wgen[w]
  BY Zenon DEF Publish, IInv, TypeOK, WorkerInv
<1>3. <<wslot[w], peer[wslot[w]]>> \in Slots \X Peers
  BY <1>2, PeerAssumption DEF IInv, TypeOK, TokenInv, Peers
<1>4. Contract!Unsettled(<<wslot[w], wgen[w]>>)
  BY <1>2, <1>3, ZenonT(60) DEF Contract!Unsettled, IInv, HistoryInv
<1> QED
  <2>1. OpenConnections' = OpenConnections
    BY <1>1, SameOpen, Zenon
  <2>2. \/ /\ replied' = replied \cup {<<wslot[w], wgen[w]>>}
           /\ UNCHANGED <<admitted, canceled, delivered>>
        \/ /\ canceled' = canceled \cup {<<wslot[w], wgen[w]>>}
           /\ UNCHANGED <<admitted, replied, delivered>>
    BY Zenon DEF Publish
  <2> QED
    BY <1>4, <2>1, <2>2, Zenon DEF Contract!Reply, Contract!Cancel

\* The deadline settles an unsettled ticket by a cancel, or does nothing.
LEMMA ExpirySettles ==
  ASSUME IInv, CancelExpired
  PROVE  Contract!Cancel(<<oslot, generation[oslot]>>) \/ Hidden
<1>1. Active' = Active /\ peer' = peer
  BY Zenon DEF CancelExpired, connVars, Active
<1>2. CASE phase[oslot] = "pending"
  <2>1. <<oslot, peer[oslot]>> \in Slots \X Peers
    BY <1>2, PeerAssumption DEF IInv, TypeOK, TokenInv, Peers
  <2>2. Contract!Unsettled(<<oslot, generation[oslot]>>)
    <3>1. oslot \in Slots
      BY Zenon DEF IInv, TypeOK
    <3>2. /\ << <<oslot, generation[oslot]>>, <<oslot, peer[oslot]>> >> \in admitted
          /\ <<oslot, generation[oslot]>> \notin replied \cup canceled
      BY <1>2, <3>1, TicketFacts, Zenon
    <3> QED
      BY <2>1, <3>2, ZenonT(60) DEF Contract!Unsettled
  <2> QED
    BY <1>1, <1>2, <2>2, SameOpen, Zenon DEF CancelExpired, Contract!Cancel
<1>3. CASE phase[oslot] # "pending"
  BY <1>1, <1>3, SameOpen, Zenon DEF CancelExpired, Hidden
<1> QED
  BY <1>2, <1>3, Zenon

\* A drained response goes to the connection its ticket was admitted for.
LEMMA DrainDelivers ==
  ASSUME IInv, NEW s \in Slots, DrainReady(s)
  PROVE  Contract!Deliver(<<s, built[s]>>, <<s, peer[s]>>)
<1>1. Active' = Active /\ peer' = peer /\ s \in Active
  <2>1. conn[s] \in {"open", "closing"} /\ peer' = peer /\ conn' \in {conn, [conn EXCEPT ![s] = "closing"]}
    BY Zenon DEF DrainReady
  <2>2. conn \in [Slots -> ConnStates]
    BY ConnectionFacts, Zenon
  <2> QED
    BY <2>1, <2>2, Zenon DEF Active
<1>2. phase[s] = "ready"
  BY Zenon DEF DrainReady
<1> QED
  <2>1. OpenConnections' = OpenConnections /\ <<s, peer[s]>> \in OpenConnections
    BY <1>1, SameOpen, Zenon DEF OpenConnections
  <2>2. /\ <<s, built[s]>> \in replied
        /\ << <<s, built[s]>>, <<s, peer[s]>> >> \in admitted
        /\ << <<s, built[s]>>, <<s, peer[s]>> >> \notin delivered
    BY <1>2, TicketFacts, ZenonT(60)
  <2>3. /\ delivered' = delivered \cup {<< <<s, built[s]>>, <<s, peer[s]>> >>}
        /\ UNCHANGED <<admitted, replied, canceled>>
    BY Zenon DEF DrainReady
  <2> QED
    BY <2>1, <2>2, <2>3, Zenon DEF Contract!Deliver

\* A step of one ticket is a step of the contract.
LEMMA TicketStep ==
  ASSUME NEW t \in Slots \X Generations, Contract!Reply(t) \/ Contract!Cancel(t)
  PROVE  Contract!ContractNext
<1>1. \E u \in Slots \X Generations : Contract!Reply(u) \/ Contract!Cancel(u)
  BY Zenon
<1> QED
  BY <1>1, Zenon DEF Contract!ContractNext

\* So is a step of a ticket and its connection.
LEMMA HandStep ==
  ASSUME NEW t \in Slots \X Generations, NEW c \in Slots \X Peers,
         Contract!Admit(t, c) \/ Contract!Deliver(t, c)
  PROVE  Contract!ContractNext
<1>1. \E u \in Slots \X Generations, d \in Slots \X Peers : Contract!Admit(u, d) \/ Contract!Deliver(u, d)
  BY Zenon
<1> QED
  BY <1>1, Zenon DEF Contract!ContractNext

\* DeferredResponse implements DeferredContract: every handle is settled at
\* most once and its response reaches only the connection of its request.
THEOREM ContractImplemented == Spec => ContractHolds
<1>1. Init => Contract!ContractInit
  <2> SUFFICES ASSUME Init PROVE Contract!ContractInit
    BY Zenon
  <2>1. conn = [s \in Slots |-> "free"]
    BY Zenon DEF Init
  <2>2. Active = {}
    BY <2>1, Zenon DEF Active
  <2>3. OpenConnections = {}
    BY <2>2, Zenon DEF OpenConnections
  <2>4. admitted = {} /\ replied = {} /\ canceled = {} /\ delivered = {}
    BY Zenon DEF Init
  <2> QED
    BY <2>3, <2>4, Zenon DEF Contract!ContractInit
<1>2. IInv /\ IInv' /\ [Next]_vars => [Contract!ContractNext]_(Contract!contractVars)
  <2> SUFFICES ASSUME IInv, IInv', [Next]_vars
               PROVE  Contract!ContractNext \/ UNCHANGED Contract!contractVars
    BY Zenon
  <2>1. Hidden => UNCHANGED Contract!contractVars
    BY Zenon DEF Hidden, Contract!contractVars
  <2>2. ASSUME NEW s \in Slots, Accept(s) PROVE Contract!ContractNext
    <3>1. <<s, peer'[s]>> \in Slots \X Peers
      BY <2>2, AcceptOpens, Zenon
    <3>2. Contract!Open(<<s, peer'[s]>>)
      BY <2>2, PeerSteps, Zenon
    <3>3. \E c \in Slots \X Peers : Contract!Open(c)
      BY <3>1, <3>2, Zenon
    <3> QED
      BY <3>3, Zenon DEF Contract!ContractNext
  <2>3. ASSUME NEW s \in Slots, ConnectionClosed(s) PROVE Contract!ContractNext
    <3>1. {<<s, peer[s]>>} \in SUBSET (Slots \X Peers)
      BY <2>3, ClosedLeaves, Zenon
    <3>2. Contract!Close({<<s, peer[s]>>})
      BY <2>3, PeerSteps, Zenon
    <3>3. \E C \in SUBSET (Slots \X Peers) : Contract!Close(C)
      BY <3>1, <3>2, Zenon
    <3> QED
      BY <3>3, Zenon DEF Contract!ContractNext
  <2>4. ASSUME CleanupNetwork PROVE Contract!ContractNext
    <3>1. OpenConnections \in SUBSET (Slots \X Peers)
      BY OpenKnown, Zenon
    <3>2. Contract!Close(OpenConnections)
      BY <2>4, PeerSteps, Zenon
    <3>3. \E C \in SUBSET (Slots \X Peers) : Contract!Close(C)
      BY <3>1, <3>2, Zenon
    <3> QED
      BY <3>3, Zenon DEF Contract!ContractNext
  <2>5. ASSUME NEW s \in Slots, Defer(s) PROVE Contract!ContractNext
    <3>1. <<s, peer[s]>> \in Slots \X Peers /\ <<s, generation[s] + 1>> \in Slots \X Generations
      BY <2>5, DeferTyped, Zenon
    <3>2. Contract!Admit(<<s, generation[s] + 1>>, <<s, peer[s]>>)
      BY <2>5, DeferAdmits, Zenon
    <3> QED
      BY <3>1, <3>2, HandStep, ZenonT(60)
  <2>6. ASSUME NEW w \in Workers, Publish(w) PROVE Contract!ContractNext
    <3>1. <<wslot[w], wgen[w]>> \in Slots \X Generations
      BY <2>6, GenerationAssumption
        , Zenon DEF Publish, IInv, TypeOK, TokenInv, WorkerInv, Generations
    <3>2. Contract!Reply(<<wslot[w], wgen[w]>>) \/ Contract!Cancel(<<wslot[w], wgen[w]>>)
      BY <2>6, PublishSettles, Zenon
    <3> QED
      BY <3>1, <3>2, TicketStep, ZenonT(60)
  <2>7. ASSUME CancelExpired PROVE Contract!ContractNext \/ Hidden
    <3>1. CASE phase[oslot] = "pending"
      <4>1. <<oslot, generation[oslot]>> \in Slots \X Generations
        BY <3>1, ExpiredTyped, Zenon
      <4>2. Contract!Cancel(<<oslot, generation[oslot]>>) \/ Hidden
        BY <2>7, ExpirySettles, Zenon
      <4> QED
        BY <4>1, <4>2, TicketStep, ZenonT(60)
    <3>2. CASE phase[oslot] # "pending"
      <4>1. UNCHANGED <<conn, peer, admitted, replied, canceled, delivered>>
        BY <2>7, <3>2, LateExpiry, Zenon
      <4> QED
        <5>1. Active' = Active
          BY <4>1, ZenonT(60) DEF Active
        <5> QED
          BY <4>1, <5>1, SameOpen, Zenon DEF Hidden
    <3> QED
      BY <3>1, <3>2, Zenon
  <2>8. ASSUME NEW s \in Slots, DrainReady(s) PROVE Contract!ContractNext
    <3>1. <<s, peer[s]>> \in Slots \X Peers /\ <<s, built[s]>> \in Slots \X Generations
      BY <2>8, GenerationAssumption, PeerAssumption
        , Zenon DEF DrainReady, IInv, TypeOK, TokenInv, Peers, Generations
    <3>2. Contract!Deliver(<<s, built[s]>>, <<s, peer[s]>>)
      BY <2>8, DrainDelivers, Zenon
    <3> QED
      BY <3>1, <3>2, HandStep, ZenonT(60)
  <2> QED
    BY <2>1, <2>2, <2>3, <2>4, <2>5, <2>6, <2>7, <2>8, QuietSteps, ConnectionSteps
      , Zenon DEF Next, OwnerThread, OwnerVisits, NetworkStep, WorkerStep
<1> QED
  BY Invariance, <1>1, <1>2, PTL DEF Spec, ContractHolds, Contract!ContractSpec

=============================================================================
