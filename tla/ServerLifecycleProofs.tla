----------------------- MODULE ServerLifecycleProofs -----------------------
(***************************************************************************)
(* The safety of the server's lifecycle, for any number of owners, slots   *)
(* and streams.  The safety invariants of ServerLifecycle are not          *)
(* inductive; IInv adds what ties the position of every thread to the      *)
(* flags, the owner's runtime state, its network and its streams.          *)
(***************************************************************************)
EXTENDS ServerLifecycle, TLAPS

-----------------------------------------------------------------------------
(* The inductive invariant, by the piece of the protocol it is about.      *)

Early == {"startup", "waitGo", "abortCleanup"}        \* before startup_go is acted on
Serving == {"waitStart", "loop", "failed", "barrier"} \* READY, network published
Late == {"shutdown", "drain", "cleanup", "finish"}    \* past the listener_done barrier
Gone == {"none", "finished"}
ListenerServing == {"loop", "place", "publish", "wake", "failed"}

\* How far start has come decides which flags can be set.
PhaseInv ==
  /\ "start_called" \in serverFlags =>
       /\ "startup_go" \in serverFlags
       /\ ctl \in {"idle", "stopWait", "stopJoin", "destroyJoin", "freed"}
  /\ "start_called" \notin serverFlags =>
       /\ ctl \notin {"stopWait", "stopJoin"}
       /\ "worker_done" \notin serverFlags /\ "stop_requested" \notin serverFlags
  /\ ctl \in {"creating", "waitReports", "abortJoin"} => "startup_go" \notin serverFlags
  /\ ctl = "waitReady" => "startup_go" \in serverFlags
  /\ ctl = "abortJoin" => "startup_abort" \in serverFlags
  /\ "startup_abort" \in serverFlags => ctl \in {"creating", "waitReports", "abortJoin"}
  /\ ctl \in {"idle", "destroyJoin", "freed"} /\ "start_called" \notin serverFlags =>
       /\ serverFlags \subseteq {"acceptor"}
       /\ lpc = "none" /\ \A o \in Owners : ownerPc[o] = "none" /\ rt[o] = "IDLE"
  /\ ctl = "stopJoin" => "worker_done" \in serverFlags
  /\ ctl \in {"destroyJoin", "freed"} /\ "start_called" \in serverFlags => "worker_done" \in serverFlags
  /\ "stopping" \in serverFlags => "start_called" \in serverFlags

\* What a thread has reported, and where it must be by then.
ReportInv ==
  /\ "start_called" \notin serverFlags =>
       \A o \in reported \cup ready \cup finished : ownerPc[o] # "none"
  /\ \A o \in reported : ownerPc[o] # "startup"
  /\ \A o \in ready : ownerPc[o] \in Serving \cup Late \cup Gone
  /\ "listener_startup_reported" \in serverFlags => lpc \notin {"none", "open"} \/ "start_called" \in serverFlags
  /\ "listener_ready" \in serverFlags => lpc \notin {"open", "waitGo"}
  /\ "startup_go" \in serverFlags => \A o \in Owners : ownerPc[o] # "startup"
  /\ "startup_go" \in serverFlags => lpc # "open"
  /\ "start_called" \in serverFlags => \A o \in Owners : ownerPc[o] \notin Early
  /\ "start_called" \in serverFlags => lpc # "waitGo"
  /\ finished \subseteq {o \in Owners : ownerPc[o] \in Gone}
  /\ ctl = "creating" =>
       \A o, p \in Owners : o < p /\ ownerPc[p] # "none" => ownerPc[o] # "none"

\* A thread that is past a wait found the flag it waited for.
ThreadInv ==
  /\ \A o \in Owners :
       /\ ownerPc[o] = "abortCleanup" => "startup_abort" \in serverFlags
       /\ ownerPc[o] = "waitStart" => "startup_go" \in serverFlags
       /\ ownerPc[o] \in {"loop", "failed", "barrier"} \cup Late => "start_called" \in serverFlags
       /\ ownerPc[o] \in Late => "listener_done" \in serverFlags
       /\ ownerPc[o] = "finished" =>
            IF "start_called" \in serverFlags THEN "listener_done" \in serverFlags
                                              ELSE "startup_abort" \in serverFlags
       /\ ownerPc[o] = "none" /\ "start_called" \in serverFlags => "worker_done" \in serverFlags
       /\ ownerPc[o] = "none" => ctl \notin {"waitReports", "waitReady"}
  /\ lpc = "waitStart" => "startup_go" \in serverFlags
  /\ lpc \in ListenerServing => "start_called" \in serverFlags
  /\ lpc \in {"cleanup", "finished"} =>
       "startup_abort" \in serverFlags \/ "start_called" \in serverFlags
  /\ "listener_done" \in serverFlags => lpc \in Gone
  /\ lpc = "none" /\ "start_called" \in serverFlags => "worker_done" \in serverFlags
  /\ lpc = "none" => ctl \notin {"creating", "waitReports", "waitReady", "abortJoin"}
  /\ lpc = "finished" => "listener_done" \in serverFlags
  /\ "worker_done" \in serverFlags =>
       /\ "start_called" \in serverFlags /\ "listener_done" \in serverFlags
       /\ "running" \notin serverFlags /\ "stopping" \notin serverFlags
       /\ \A o \in Owners : ownerPc[o] \in Gone
  /\ ctl = "freed" => ThreadsExited

\* The runtime state and the network follow the owner's thread.
RuntimeInv ==
  \A o \in Owners :
    /\ ownerPc[o] \in Early => rt[o] = "STARTING"
    /\ ownerPc[o] \in Serving => rt[o] = "READY"
    /\ ownerPc[o] \in {"shutdown", "drain", "cleanup"} => rt[o] = "STOPPING"
    /\ ownerPc[o] = "finished" /\ "start_called" \notin serverFlags => rt[o] = "IDLE"
    /\ ownerPc[o] = "none" /\ ctl = "creating" => rt[o] = "STARTING"
    /\ ownerPc[o] = "none" /\ ctl = "abortJoin" => rt[o] = "IDLE"
    /\ ownerPc[o] \in Serving \cup {"waitGo", "shutdown", "drain", "cleanup"} => o \in networks
    /\ o \in sealed => "start_called" \in serverFlags /\ ownerPc[o] \in Late \cup Gone
    /\ o \in sealed => ownerPc[o] # "shutdown"

\* Every stream is in one place, with a ticket exactly while it needs one.
StreamInv ==
  /\ lpc \in {"place", "publish"} => held \in Streams /\ stream[held] = "held"
  /\ lpc \notin {"place", "publish"} => held = NoStream
  /\ lpc \in {"publish", "wake"} => target \in Owners
  /\ lpc = "publish" => ticket[held] = target
  /\ \A s \in Streams :
       /\ stream[s] = "held" => held = s
       /\ ticket[s] # 0 <=> stream[s] \in {"queued", "open"} \/ (lpc = "publish" /\ held = s)
       /\ stream[s] = "queued" => ticket[s] \notin sealed
       /\ stream[s] # "new" => "start_called" \in serverFlags

\* An owner whose status is still SALTS_OK past the drain has nothing left.
DrainedInv ==
  \A o \in Owners \ failed :
    /\ ownerPc[o] = "drain" => o \in sealed
    /\ "start_called" \in serverFlags /\ ownerPc[o] \in {"cleanup", "finish"} \cup Gone =>
         /\ o \in sealed
         /\ \A s \in Streams : ticket[s] # o /\ lingering[s] # o

\* A freed server left nothing behind.
FreedInv ==
  ctl = "freed" =>
    /\ "acceptor" \notin serverFlags /\ networks = {}
    /\ \A s \in Streams : ticket[s] = 0

IInv == /\ LifecycleTypeOK /\ PhaseInv /\ ReportInv /\ ThreadInv /\ RuntimeInv /\ StreamInv
        /\ DrainedInv /\ FreedInv

-----------------------------------------------------------------------------
\* The initial state satisfies the invariant.
LEMMA InitInv == LifecycleInit => IInv
  BY OwnerCountAssumption, NoStreamAssumption, SMTT(60)
  DEF LifecycleInit, IInv, LifecycleTypeOK, Flags, CtlStates, ListenerStates, OwnerStates,
      RuntimeStates, StreamStates,
      Early, Serving, Late, Gone, ListenerServing, PhaseInv, ReportInv, ThreadInv,
      RuntimeInv, StreamInv, DrainedInv, FreedInv, ThreadsExited

\* Every step keeps the types.
LEMMA TypesStep == LifecycleTypeOK /\ [LifecycleNext]_lifecycleVars => (LifecycleTypeOK)'
<1> SUFFICES ASSUME LifecycleTypeOK, [LifecycleNext]_lifecycleVars
             PROVE  (LifecycleTypeOK)'
  OBVIOUS
<1> USE OwnerCountAssumption
    DEF LifecycleTypeOK, Flags, CtlStates, ListenerStates, OwnerStates, RuntimeStates, StreamStates,
        reportVars, listenerVars, ownerThreadVars, streamVars
<1>1. CASE StartListener
  BY <1>1 DEF StartListener, MayStart, ResetState
<1>2. CASE StartListenerFails
  BY <1>2 DEF StartListenerFails, MayStart, ResetState
<1>3. CASE WaitReports
  BY <1>3 DEF WaitReports
<1>4. CASE WaitReady
  BY <1>4 DEF WaitReady
<1>5. CASE StartAborts
  BY <1>5 DEF StartAborts
<1>6. CASE AbortJoin
  BY <1>6 DEF AbortJoin, JoinThreads, ThreadsExited, ResetState
<1>7. CASE Stop
  BY <1>7 DEF Stop
<1>8. CASE StopTimesOut
  BY <1>8 DEF StopTimesOut
<1>9. CASE StopSeesDone
  BY <1>9 DEF StopSeesDone
<1>10. CASE StopJoin
  BY <1>10 DEF StopJoin, JoinThreads, ThreadsExited
<1>11. CASE Destroy
  BY <1>11 DEF Destroy
<1>12. CASE DestroyJoin
  BY <1>12 DEF DestroyJoin, JoinThreads, ThreadsExited, Leases
<1>13. CASE ListenerOpens
  BY <1>13 DEF ListenerOpens
<1>14. CASE ListenerOpenFails
  BY <1>14, ZenonT(60) DEF ListenerOpenFails
<1>15. CASE ListenerGo
  BY <1>15 DEF ListenerGo
<1>16. CASE ListenerStarts
  BY <1>16 DEF ListenerStarts
<1>17. CASE ListenerAborts
  BY <1>17 DEF ListenerAborts
<1>18. CASE ListenerSeesStop
  BY <1>18 DEF ListenerSeesStop
<1>19. CASE ListenerAcceptFails
  BY <1>19 DEF ListenerAcceptFails
<1>20. CASE ListenerRejects
  BY <1>20, ZenonT(60) DEF ListenerRejects
<1>21. CASE ListenerPublishes
  BY <1>21 DEF ListenerPublishes
<1>22. CASE ListenerWakes
  BY <1>22 DEF ListenerWakes
<1>23. CASE ListenerFails
  BY <1>23 DEF ListenerFails, RequestGlobalStop
<1>24. CASE ListenerFinishes
  BY <1>24, ZenonT(60) DEF ListenerFinishes, AfterFinish
<1>25. CASE \E o \in Owners : StartOwner(o)
  BY <1>25 DEF StartOwner, NextToCreate
<1>26. CASE \E o \in Owners : StartOwnerFails(o)
  BY <1>26 DEF StartOwnerFails, NextToCreate
<1>27. CASE \E o \in Owners : ListenerReserves(o)
  <2>1. PICK o \in Owners : ListenerReserves(o)
    BY <1>27
  <2>2. target' \in {0} \cup Owners /\ lpc' = "publish"
    BY <2>1 DEF ListenerReserves
  <2>3. ticket' \in [Streams -> {0} \cup Owners]
    BY <2>1, ZenonT(60) DEF ListenerReserves
  <2> QED
    BY <2>1, <2>2, <2>3 DEF ListenerReserves
<1>28. CASE \E o \in Owners : OwnerStarts(o)
  BY <1>28 DEF OwnerStarts
<1>29. CASE \E o \in Owners : OwnerStartFails(o)
  BY <1>29 DEF OwnerStartFails
<1>30. CASE \E o \in Owners : OwnerGo(o)
  BY <1>30 DEF OwnerGo
<1>31. CASE \E o \in Owners : OwnerSeesAbort(o)
  BY <1>31 DEF OwnerSeesAbort
<1>32. CASE \E o \in Owners : OwnerAborts(o)
  BY <1>32 DEF OwnerAborts, AfterFinish
<1>33. CASE \E o \in Owners : OwnerEntersLoop(o)
  BY <1>33 DEF OwnerEntersLoop
<1>34. CASE \E o \in Owners : OwnerSeesStop(o)
  BY <1>34 DEF OwnerSeesStop
<1>35. CASE \E o \in Owners : OwnerFails(o)
  BY <1>35 DEF OwnerFails, RequestGlobalStop
<1>36. CASE \E o \in Owners : OwnerPassesBarrier(o)
  BY <1>36 DEF OwnerPassesBarrier
<1>37. CASE \E o \in Owners : OwnerBeginsShutdown(o)
  BY <1>37 DEF OwnerBeginsShutdown, CloseAll
<1>38. CASE \E o \in Owners : OwnerShutdownFails(o)
  BY <1>38 DEF OwnerShutdownFails
<1>39. CASE \E o \in Owners : OwnerDrained(o)
  BY <1>39 DEF OwnerDrained, ConnectionsActive
<1>40. CASE \E o \in Owners : OwnerCleansUp(o)
  BY <1>40 DEF OwnerCleansUp, CloseAll
<1>41. CASE \E o \in Owners : OwnerCleanupFails(o)
  BY <1>41 DEF OwnerCleanupFails, CloseAll
<1>42. CASE \E o \in Owners : OwnerFinishes(o)
  BY <1>42 DEF OwnerFinishes, AfterFinish
<1>43. CASE \E o \in Owners : OwnerLoopFails(o)
  BY <1>43 DEF OwnerLoopFails
<1>44. CASE \E o \in Owners : OwnerDrainFails(o)
  BY <1>44 DEF OwnerDrainFails, ConnectionsActive
<1>45. CASE \E s \in Streams : ListenerAccepts(s)
  BY <1>45 DEF ListenerAccepts
<1>46. CASE \E o \in Owners, s \in Streams : OwnerAdmits(o, s)
  BY <1>46 DEF OwnerAdmits, Admissible
<1>47. CASE \E o \in Owners, s \in Streams : OwnerAdmitFails(o, s)
  BY <1>47 DEF OwnerAdmitFails, Admissible
<1>48. CASE \E o \in Owners, s \in Streams : ConnectionCloses(o, s)
  BY <1>48 DEF ConnectionCloses
<1>49. CASE \E o \in Owners, s \in Streams : SlotReleased(o, s)
  BY <1>49 DEF SlotReleased
<1>50. CASE UNCHANGED lifecycleVars
  BY <1>50, SMTT(60) DEF lifecycleVars
<1> QED
  BY <1>1, <1>2, <1>3, <1>4, <1>5, <1>6, <1>7, <1>8, <1>9, <1>10, <1>11, <1>12, <1>13, ZenonT(60),
     <1>14, <1>15, <1>16, <1>17, <1>18, <1>19, <1>20, <1>21, <1>22, <1>23, <1>24, <1>25,
     <1>26, <1>27, <1>28, <1>29, <1>30, <1>31, <1>32, <1>33, <1>34, <1>35, <1>36, <1>37,
     <1>38, <1>39, <1>40, <1>41, <1>42, <1>43, <1>44, <1>45, <1>46, <1>47, <1>48, <1>49, <1>50
  DEF LifecycleNext, StartStep, StopStep, ControlCall, ListenerStep, ListenerEvent, OwnerStep,
      OwnerEvent, ServerTerminated

\* The part of the invariant that is about the threads and not about their streams.
ControlInv == LifecycleTypeOK /\ PhaseInv /\ ReportInv /\ ThreadInv /\ RuntimeInv

\* Every step keeps the flags in step with how far start has come.
LEMMA PhaseStep ==
  ControlInv /\ [LifecycleNext]_lifecycleVars => PhaseInv'
<1> SUFFICES ASSUME ControlInv, [LifecycleNext]_lifecycleVars PROVE PhaseInv'
  OBVIOUS
<1> USE DEF ControlInv, LifecycleTypeOK, PhaseInv,
        reportVars, listenerVars, ownerThreadVars, streamVars
<1>1. CASE StartListener \/ StartListenerFails \/ WaitReports \/ WaitReady
  BY <1>1 DEF StartListener, StartListenerFails, WaitReports, WaitReady, MayStart,
      ResetState
<1>2. CASE AbortJoin
  BY <1>2 DEF AbortJoin, JoinThreads, ThreadsExited, ResetState, RuntimeInv, Early, Serving,
      Late, Gone
<1>3. CASE StartAborts \/ Stop \/ StopTimesOut \/ StopSeesDone
  BY <1>3 DEF StartAborts, Stop, StopTimesOut, StopSeesDone
<1>4. CASE StopJoin \/ Destroy \/ DestroyJoin
  BY <1>4 DEF StopJoin, Destroy, DestroyJoin, JoinThreads, ThreadsExited, Leases
<1>5. CASE ListenerOpenFails
  BY <1>5 DEF ListenerOpenFails, ReportInv, CtlStates
<1>6. CASE ListenerOpens \/ ListenerGo \/ ListenerStarts \/ ListenerAborts
  BY <1>6 DEF ListenerOpens, ListenerGo, ListenerStarts, ListenerAborts
<1>7. CASE ListenerSeesStop \/ ListenerAcceptFails \/ ListenerRejects \/ ListenerPublishes
  BY <1>7 DEF ListenerSeesStop, ListenerAcceptFails, ListenerRejects, ListenerPublishes
<1>8. CASE ListenerFails
  BY <1>8 DEF ListenerFails, RequestGlobalStop, ThreadInv, Late, Gone, ListenerServing,
      ThreadsExited
<1>9. CASE ListenerWakes \/ ListenerFinishes
  BY <1>9 DEF ListenerWakes, ListenerFinishes, AfterFinish
<1>10. CASE \E o \in Owners : StartOwner(o) \/ StartOwnerFails(o) \/ ListenerReserves(o)
            \/ OwnerStarts(o)
  BY <1>10 DEF StartOwner, StartOwnerFails, ListenerReserves, OwnerStarts, NextToCreate,
      Reservable
<1>11. CASE \E o \in Owners : OwnerStartFails(o)
  BY <1>11 DEF OwnerStartFails, ReportInv, CtlStates
<1>12. CASE \E o \in Owners : OwnerGo(o) \/ OwnerSeesAbort(o) \/ OwnerAborts(o)
            \/ OwnerEntersLoop(o)
  BY <1>12 DEF OwnerGo, OwnerSeesAbort, OwnerAborts, OwnerEntersLoop, AfterFinish
<1>13. CASE \E o \in Owners : OwnerFails(o)
  BY <1>13 DEF OwnerFails, RequestGlobalStop, ThreadInv, Late, Gone, ListenerServing,
      ThreadsExited
<1>14. CASE \E o \in Owners : OwnerSeesStop(o) \/ OwnerPassesBarrier(o)
            \/ OwnerBeginsShutdown(o) \/ OwnerShutdownFails(o)
  BY <1>14 DEF OwnerSeesStop, OwnerPassesBarrier, OwnerBeginsShutdown, OwnerShutdownFails,
      CloseAll
<1>15. CASE \E o \in Owners : OwnerDrained(o) \/ OwnerCleansUp(o) \/ OwnerCleanupFails(o)
            \/ OwnerFinishes(o)
  BY <1>15 DEF OwnerDrained, OwnerCleansUp, OwnerCleanupFails, OwnerFinishes,
      ConnectionsActive, CloseAll, AfterFinish
<1>16. CASE \E o \in Owners : OwnerLoopFails(o) \/ OwnerDrainFails(o)
  BY <1>16 DEF OwnerLoopFails, OwnerDrainFails, ConnectionsActive
<1>17. CASE \E o \in Owners, s \in Streams : OwnerAdmits(o, s) \/ OwnerAdmitFails(o, s)
            \/ ConnectionCloses(o, s) \/ SlotReleased(o, s)
  BY <1>17 DEF OwnerAdmits, OwnerAdmitFails, ConnectionCloses, SlotReleased, Admissible
<1>18. CASE \E s \in Streams : ListenerAccepts(s)
  BY <1>18 DEF ListenerAccepts
<1>19. CASE UNCHANGED lifecycleVars
  BY <1>19 DEF lifecycleVars
<1> HIDE DEF ControlInv, LifecycleTypeOK, PhaseInv
<1> QED
  BY <1>1, <1>2, <1>3, <1>4, <1>5, <1>6, <1>7, <1>8, <1>9, <1>10, <1>11, <1>12, <1>13,
     <1>14, <1>15, <1>16, <1>17, <1>18, <1>19, ZenonT(60)
  DEF LifecycleNext, StartStep, StopStep, ControlCall, ListenerStep, ListenerEvent, OwnerStep,
      OwnerEvent, ServerTerminated

\* Every step keeps the reports in step with the threads that made them.
LEMMA ReportStep ==
  ControlInv /\ [LifecycleNext]_lifecycleVars => ReportInv'
<1> SUFFICES ASSUME ControlInv, [LifecycleNext]_lifecycleVars PROVE ReportInv'
  OBVIOUS
<1> USE DEF ControlInv, LifecycleTypeOK, ReportInv, Early, Serving, Late, Gone,
        reportVars, listenerVars, ownerThreadVars, streamVars
<1>1. CASE StartListener
  BY <1>1 DEF StartListener, MayStart, ResetState, PhaseInv
<1>2. CASE WaitReports
  BY <1>2 DEF WaitReports, PhaseInv
<1>3. CASE StartListenerFails \/ WaitReady \/ StartAborts
  BY <1>3 DEF StartListenerFails, WaitReady, StartAborts, MayStart, ResetState
<1>4. CASE AbortJoin \/ Stop \/ StopTimesOut
  BY <1>4 DEF AbortJoin, Stop, StopTimesOut, JoinThreads, ThreadsExited, ResetState
<1>5. CASE StopJoin
  BY <1>5 DEF StopJoin, JoinThreads, ThreadsExited, PhaseInv
<1>6. CASE DestroyJoin
  BY <1>6 DEF DestroyJoin, JoinThreads, ThreadsExited, Leases, PhaseInv
<1>7. CASE StopSeesDone \/ Destroy
  BY <1>7 DEF StopSeesDone, Destroy
<1>8. CASE ListenerOpens
  BY <1>8 DEF ListenerOpens, PhaseInv
<1>9. CASE ListenerOpenFails \/ ListenerGo \/ ListenerStarts
  BY <1>9 DEF ListenerOpenFails, ListenerGo, ListenerStarts
<1>10. CASE ListenerAborts \/ ListenerSeesStop \/ ListenerAcceptFails
  BY <1>10 DEF ListenerAborts, ListenerSeesStop, ListenerAcceptFails
<1>11. CASE ListenerRejects \/ ListenerPublishes \/ ListenerWakes
  BY <1>11 DEF ListenerRejects, ListenerPublishes, ListenerWakes
<1>12. CASE ListenerFails \/ ListenerFinishes
  BY <1>12 DEF ListenerFails, ListenerFinishes, RequestGlobalStop, AfterFinish
<1>13. CASE \E o \in Owners : StartOwner(o)
  BY <1>13 DEF StartOwner, NextToCreate, PhaseInv
<1>14. CASE \E o \in Owners : StartOwnerFails(o) \/ ListenerReserves(o) \/ OwnerStarts(o)
  BY <1>14 DEF StartOwnerFails, ListenerReserves, OwnerStarts, NextToCreate, Reservable
<1>15. CASE \E o \in Owners : OwnerStartFails(o) \/ OwnerGo(o) \/ OwnerSeesAbort(o)
  BY <1>15 DEF OwnerStartFails, OwnerGo, OwnerSeesAbort
<1>16. CASE \E o \in Owners : OwnerAborts(o) \/ OwnerEntersLoop(o) \/ OwnerSeesStop(o)
  BY <1>16 DEF OwnerAborts, OwnerEntersLoop, OwnerSeesStop, AfterFinish
<1>17. CASE \E o \in Owners : OwnerFails(o) \/ OwnerPassesBarrier(o)
            \/ OwnerBeginsShutdown(o)
  BY <1>17 DEF OwnerFails, OwnerPassesBarrier, OwnerBeginsShutdown, RequestGlobalStop,
      CloseAll
<1>18. CASE \E o \in Owners : OwnerShutdownFails(o) \/ OwnerDrained(o) \/ OwnerCleansUp(o)
  BY <1>18 DEF OwnerShutdownFails, OwnerDrained, OwnerCleansUp, ConnectionsActive, CloseAll
<1>19. CASE \E o \in Owners : OwnerCleanupFails(o) \/ OwnerFinishes(o) \/ OwnerLoopFails(o)
  BY <1>19 DEF OwnerCleanupFails, OwnerFinishes, OwnerLoopFails, CloseAll, AfterFinish
<1>20. CASE \E o \in Owners : OwnerDrainFails(o)
  BY <1>20 DEF OwnerDrainFails, ConnectionsActive
<1>21. CASE \E o \in Owners, s \in Streams : OwnerAdmitFails(o, s)
  BY <1>21 DEF OwnerAdmitFails, Admissible, PhaseInv
<1>22. CASE \E o \in Owners, s \in Streams : OwnerAdmits(o, s) \/ ConnectionCloses(o, s)
            \/ SlotReleased(o, s)
  BY <1>22 DEF OwnerAdmits, Admissible, ConnectionCloses, SlotReleased
<1>23. CASE \E s \in Streams : ListenerAccepts(s)
  BY <1>23 DEF ListenerAccepts
<1>24. CASE UNCHANGED lifecycleVars
  BY <1>24 DEF lifecycleVars
<1> HIDE DEF ControlInv, LifecycleTypeOK, ReportInv
<1> QED
  BY <1>1, <1>2, <1>3, <1>4, <1>5, <1>6, <1>7, <1>8, <1>9, <1>10, <1>11, <1>12, <1>13,
     <1>14, <1>15, <1>16, <1>17, <1>18, <1>19, <1>20, <1>21, <1>22, <1>23, <1>24, ZenonT(60)
  DEF LifecycleNext, StartStep, StopStep, ControlCall, ListenerStep, ListenerEvent, OwnerStep,
      OwnerEvent, ServerTerminated

\* Every step keeps the threads behind the flags they waited for.
LEMMA ThreadStep ==
  ControlInv /\ [LifecycleNext]_lifecycleVars => ThreadInv'
<1> SUFFICES ASSUME ControlInv, [LifecycleNext]_lifecycleVars PROVE ThreadInv'
  OBVIOUS
<1> USE DEF ControlInv, LifecycleTypeOK, ThreadInv, Late, Gone, ListenerServing, ThreadsExited,
        reportVars, listenerVars, ownerThreadVars, streamVars
<1>1. CASE StartListener
  BY <1>1 DEF StartListener, MayStart, ResetState, PhaseInv
<1>2. CASE StartListenerFails
  BY <1>2 DEF StartListenerFails, MayStart, ResetState, PhaseInv
<1>3. CASE WaitReports
  BY <1>3 DEF WaitReports, PhaseInv
<1>4. CASE StartAborts
  BY <1>4 DEF StartAborts, PhaseInv
<1>5. CASE AbortJoin
  BY <1>5 DEF AbortJoin, JoinThreads, ResetState, PhaseInv
<1>6. CASE WaitReady \/ Stop \/ StopTimesOut
  BY <1>6 DEF WaitReady, Stop, StopTimesOut
<1>7. CASE StopJoin
  BY <1>7 DEF StopJoin, JoinThreads, PhaseInv
<1>8. CASE DestroyJoin
  BY <1>8 DEF DestroyJoin, JoinThreads, Leases, PhaseInv
<1>9. CASE StopSeesDone \/ Destroy
  BY <1>9 DEF StopSeesDone, Destroy
<1>10. CASE ListenerOpens \/ ListenerOpenFails \/ ListenerGo
  BY <1>10 DEF ListenerOpens, ListenerOpenFails, ListenerGo
<1>11. CASE ListenerStarts \/ ListenerAborts \/ ListenerSeesStop
  BY <1>11 DEF ListenerStarts, ListenerAborts, ListenerSeesStop
<1>12. CASE ListenerAcceptFails \/ ListenerRejects \/ ListenerPublishes
  BY <1>12 DEF ListenerAcceptFails, ListenerRejects, ListenerPublishes
<1>13. CASE ListenerFinishes
  BY <1>13 DEF ListenerFinishes, AfterFinish, ReportInv, Early, Serving
<1>14. CASE ListenerWakes \/ ListenerFails
  BY <1>14 DEF ListenerWakes, ListenerFails, RequestGlobalStop
<1>15. CASE \E o \in Owners : StartOwner(o)
  BY <1>15, OwnerCountAssumption, SMTT(60) DEF Owners, StartOwner, NextToCreate, PhaseInv
<1>16. CASE \E o \in Owners : StartOwnerFails(o) \/ ListenerReserves(o) \/ OwnerStarts(o)
  BY <1>16, SMTT(60) DEF StartOwnerFails, ListenerReserves, OwnerStarts, NextToCreate, Reservable
<1>17. CASE \E o \in Owners : OwnerStartFails(o) \/ OwnerGo(o) \/ OwnerSeesAbort(o)
  BY <1>17 DEF OwnerStartFails, OwnerGo, OwnerSeesAbort
<1>18. CASE \E o \in Owners : OwnerAborts(o)
  BY <1>18 DEF OwnerAborts, AfterFinish, PhaseInv
<1>19. CASE \E o \in Owners : OwnerEntersLoop(o)
  BY <1>19 DEF OwnerEntersLoop, PhaseInv
<1>20. CASE \E o \in Owners : OwnerSeesStop(o) \/ OwnerFails(o) \/ OwnerPassesBarrier(o)
  BY <1>20, SMTT(60) DEF OwnerSeesStop, OwnerFails, OwnerPassesBarrier, RequestGlobalStop
<1>21. CASE \E o \in Owners : OwnerBeginsShutdown(o) \/ OwnerShutdownFails(o)
            \/ OwnerDrained(o)
  BY <1>21, SMTT(60) DEF OwnerBeginsShutdown, OwnerShutdownFails, OwnerDrained, CloseAll,
      ConnectionsActive
<1>22. CASE \E o \in Owners : OwnerFinishes(o)
  BY <1>22, SMTT(60) DEF OwnerFinishes, AfterFinish, ReportInv, Early, Serving
<1>23. CASE \E o \in Owners : OwnerCleansUp(o) \/ OwnerCleanupFails(o) \/ OwnerLoopFails(o)
  BY <1>23 DEF OwnerCleansUp, OwnerCleanupFails, OwnerLoopFails, CloseAll
<1>24. CASE \E o \in Owners : OwnerDrainFails(o)
  BY <1>24, SMTT(60) DEF OwnerDrainFails, ConnectionsActive
<1>25. CASE \E o \in Owners, s \in Streams : OwnerAdmits(o, s) \/ OwnerAdmitFails(o, s)
            \/ ConnectionCloses(o, s) \/ SlotReleased(o, s)
  BY <1>25 DEF OwnerAdmits, OwnerAdmitFails, ConnectionCloses, SlotReleased, Admissible
<1>26. CASE \E s \in Streams : ListenerAccepts(s)
  BY <1>26 DEF ListenerAccepts
<1>27. CASE UNCHANGED lifecycleVars
  BY <1>27 DEF lifecycleVars
<1> HIDE DEF ControlInv, LifecycleTypeOK, ThreadInv
<1> QED
  BY <1>1, <1>2, <1>3, <1>4, <1>5, <1>6, <1>7, <1>8, <1>9, <1>10, <1>11, <1>12, <1>13,
     <1>14, <1>15, <1>16, <1>17, <1>18, <1>19, <1>20, <1>21, <1>22, <1>23, <1>24, <1>25,
     <1>26, <1>27, ZenonT(60)
  DEF LifecycleNext, StartStep, StopStep, ControlCall, ListenerStep, ListenerEvent, OwnerStep,
      OwnerEvent, ServerTerminated

\* Every step keeps the runtime state and the network in step with the owner's thread.
LEMMA RuntimeStep ==
  ControlInv /\ [LifecycleNext]_lifecycleVars => RuntimeInv'
<1> SUFFICES ASSUME ControlInv, [LifecycleNext]_lifecycleVars PROVE RuntimeInv'
  OBVIOUS
<1> USE DEF ControlInv, LifecycleTypeOK, RuntimeInv, Early, Serving, Late, Gone,
        reportVars, listenerVars, ownerThreadVars, streamVars
<1>1. CASE StartListener
  BY <1>1 DEF StartListener, MayStart, ResetState, PhaseInv
<1>2. CASE StartListenerFails \/ WaitReports \/ WaitReady
  BY <1>2 DEF StartListenerFails, WaitReports, WaitReady, MayStart, ResetState
<1>3. CASE StartAborts
  BY <1>3 DEF StartAborts, ThreadInv, ListenerServing, ThreadsExited
<1>4. CASE AbortJoin \/ Stop \/ StopTimesOut
  BY <1>4 DEF AbortJoin, Stop, StopTimesOut, JoinThreads, ThreadsExited, ResetState
<1>5. CASE StopSeesDone \/ StopJoin \/ Destroy
  BY <1>5 DEF StopSeesDone, StopJoin, Destroy, JoinThreads, ThreadsExited
<1>6. CASE DestroyJoin
  BY <1>6 DEF DestroyJoin, JoinThreads, ThreadsExited, Leases
<1>7. CASE ListenerOpens \/ ListenerOpenFails \/ ListenerGo
  BY <1>7 DEF ListenerOpens, ListenerOpenFails, ListenerGo
<1>8. CASE ListenerStarts \/ ListenerAborts \/ ListenerSeesStop
  BY <1>8, SMTT(60) DEF ListenerStarts, ListenerAborts, ListenerSeesStop
<1>9. CASE ListenerAcceptFails \/ ListenerRejects \/ ListenerPublishes
  BY <1>9 DEF ListenerAcceptFails, ListenerRejects, ListenerPublishes
<1>10. CASE ListenerWakes \/ ListenerFails \/ ListenerFinishes
  BY <1>10 DEF ListenerWakes, ListenerFails, ListenerFinishes, RequestGlobalStop,
      AfterFinish
<1>11. CASE \E o \in Owners : StartOwner(o)
  BY <1>11, SMTT(60) DEF StartOwner, NextToCreate, PhaseInv
<1>12. CASE \E o \in Owners : StartOwnerFails(o)
  BY <1>12, OwnerCountAssumption, SMTT(60) DEF Owners, StartOwnerFails, NextToCreate, ReportInv
<1>13. CASE \E o \in Owners : ListenerReserves(o) \/ OwnerStarts(o) \/ OwnerStartFails(o)
  BY <1>13, SMTT(60) DEF ListenerReserves, OwnerStarts, OwnerStartFails, Reservable
<1>14. CASE \E o \in Owners : OwnerGo(o) \/ OwnerSeesAbort(o) \/ OwnerAborts(o)
  BY <1>14, SMTT(60) DEF OwnerGo, OwnerSeesAbort, OwnerAborts, AfterFinish
<1>15. CASE \E o \in Owners : OwnerEntersLoop(o)
  BY <1>15, SMTT(60) DEF OwnerEntersLoop, PhaseInv, ThreadInv, ListenerServing, ThreadsExited
<1>16. CASE \E o \in Owners : OwnerSeesStop(o) \/ OwnerFails(o) \/ OwnerPassesBarrier(o)
  BY <1>16, SMTT(60) DEF OwnerSeesStop, OwnerFails, OwnerPassesBarrier, RequestGlobalStop
<1>17. CASE \E o \in Owners : OwnerBeginsShutdown(o)
  BY <1>17, SMTT(60) DEF OwnerBeginsShutdown, CloseAll, ThreadInv, ListenerServing, ThreadsExited
<1>18. CASE \E o \in Owners : OwnerShutdownFails(o) \/ OwnerDrained(o) \/ OwnerCleansUp(o)
  BY <1>18, SMTT(60) DEF OwnerShutdownFails, OwnerDrained, OwnerCleansUp, ConnectionsActive, CloseAll
<1>19. CASE \E o \in Owners : OwnerFinishes(o)
  BY <1>19, SMTT(60) DEF OwnerFinishes, AfterFinish, ThreadInv, ListenerServing, ThreadsExited
<1>20. CASE \E o \in Owners : OwnerCleanupFails(o) \/ OwnerLoopFails(o)
            \/ OwnerDrainFails(o)
  BY <1>20, SMTT(60) DEF OwnerCleanupFails, OwnerLoopFails, OwnerDrainFails, CloseAll,
      ConnectionsActive
<1>21. CASE \E o \in Owners, s \in Streams : OwnerAdmits(o, s) \/ OwnerAdmitFails(o, s)
            \/ ConnectionCloses(o, s) \/ SlotReleased(o, s)
  BY <1>21 DEF OwnerAdmits, OwnerAdmitFails, ConnectionCloses, SlotReleased, Admissible
<1>22. CASE \E s \in Streams : ListenerAccepts(s)
  BY <1>22, SMTT(60) DEF ListenerAccepts
<1>23. CASE UNCHANGED lifecycleVars
  BY <1>23 DEF lifecycleVars
<1> HIDE DEF ControlInv, LifecycleTypeOK, RuntimeInv
<1> QED
  BY <1>1, <1>2, <1>3, <1>4, <1>5, <1>6, <1>7, <1>8, <1>9, <1>10, <1>11, <1>12, <1>13,
     <1>14, <1>15, <1>16, <1>17, <1>18, <1>19, <1>20, <1>21, <1>22, <1>23, ZenonT(60)
  DEF LifecycleNext, StartStep, StopStep, ControlCall, ListenerStep, ListenerEvent, OwnerStep,
      OwnerEvent, ServerTerminated

\* Every step keeps every stream in one place, with its ticket.
LEMMA StreamStep ==
  IInv /\ [LifecycleNext]_lifecycleVars => StreamInv'
<1> SUFFICES ASSUME IInv, [LifecycleNext]_lifecycleVars PROVE StreamInv'
  OBVIOUS
<1>0. 0 \notin Owners
  BY SMTT(60) DEF Owners
<1> USE <1>0, NoStreamAssumption DEF IInv, LifecycleTypeOK, StreamInv,
        reportVars, listenerVars, ownerThreadVars, streamVars
<1>1. CASE StartListener \/ StartListenerFails \/ WaitReports
  BY <1>1 DEF StartListener, StartListenerFails, WaitReports, MayStart, ResetState
<1>2. CASE WaitReady \/ StartAborts \/ AbortJoin
  BY <1>2 DEF WaitReady, StartAborts, AbortJoin, JoinThreads, ThreadsExited, ResetState
<1>3. CASE Stop \/ StopTimesOut \/ StopSeesDone
  BY <1>3 DEF Stop, StopTimesOut, StopSeesDone
<1>4. CASE StopJoin \/ Destroy \/ DestroyJoin
  BY <1>4, SMTT(60) DEF StopJoin, Destroy, DestroyJoin, JoinThreads, ThreadsExited, Leases
<1>5. CASE ListenerOpens \/ ListenerOpenFails \/ ListenerGo
  BY <1>5 DEF ListenerOpens, ListenerOpenFails, ListenerGo
<1>6. CASE ListenerStarts \/ ListenerAborts \/ ListenerSeesStop
  BY <1>6, SMTT(60) DEF ListenerStarts, ListenerAborts, ListenerSeesStop
<1>7. CASE ListenerAcceptFails \/ ListenerRejects \/ ListenerPublishes
  BY <1>7, SMTT(60) DEF ListenerAcceptFails, ListenerRejects, ListenerPublishes
<1>8. CASE ListenerWakes \/ ListenerFails \/ ListenerFinishes
  BY <1>8, SMTT(60) DEF ListenerWakes, ListenerFails, ListenerFinishes, RequestGlobalStop, AfterFinish
<1>9. CASE \E o \in Owners : StartOwner(o) \/ StartOwnerFails(o) \/ ListenerReserves(o)
  BY <1>9, SMTT(60) DEF StartOwner, StartOwnerFails, ListenerReserves, NextToCreate, Reservable
<1>10. CASE \E o \in Owners : OwnerStarts(o) \/ OwnerStartFails(o) \/ OwnerGo(o)
  BY <1>10, SMTT(60) DEF OwnerStarts, OwnerStartFails, OwnerGo
<1>11. CASE \E o \in Owners : OwnerSeesAbort(o) \/ OwnerAborts(o) \/ OwnerEntersLoop(o)
  BY <1>11, SMTT(60) DEF OwnerSeesAbort, OwnerAborts, OwnerEntersLoop, AfterFinish
<1>12. CASE \E o \in Owners : OwnerSeesStop(o) \/ OwnerFails(o) \/ OwnerPassesBarrier(o)
  BY <1>12, SMTT(60) DEF OwnerSeesStop, OwnerFails, OwnerPassesBarrier, RequestGlobalStop
<1>13. CASE \E o \in Owners : OwnerBeginsShutdown(o) \/ OwnerShutdownFails(o)
            \/ OwnerDrained(o)
  BY <1>13, SMTT(60) DEF OwnerBeginsShutdown, OwnerShutdownFails, OwnerDrained, CloseAll,
      ConnectionsActive
<1>14. CASE \E o \in Owners : OwnerCleansUp(o) \/ OwnerCleanupFails(o) \/ OwnerFinishes(o)
  BY <1>14, SMTT(60) DEF OwnerCleansUp, OwnerCleanupFails, OwnerFinishes, CloseAll, AfterFinish
<1>15. CASE \E o \in Owners : OwnerLoopFails(o) \/ OwnerDrainFails(o)
  BY <1>15, SMTT(60) DEF OwnerLoopFails, OwnerDrainFails, ConnectionsActive
<1>16. CASE \E o \in Owners, s \in Streams : OwnerAdmits(o, s) \/ OwnerAdmitFails(o, s)
            \/ ConnectionCloses(o, s) \/ SlotReleased(o, s)
  BY <1>16, SMTT(60) DEF OwnerAdmits, OwnerAdmitFails, ConnectionCloses, SlotReleased, Admissible
<1>17. CASE \E s \in Streams : ListenerAccepts(s)
  BY <1>17 DEF ListenerAccepts, ThreadInv, ListenerServing
<1>18. CASE UNCHANGED lifecycleVars
  BY <1>18 DEF lifecycleVars
<1> HIDE DEF IInv, LifecycleTypeOK, StreamInv
<1> QED
  BY <1>1, <1>2, <1>3, <1>4, <1>5, <1>6, <1>7, <1>8, <1>9, <1>10, <1>11, <1>12, <1>13,
     <1>14, <1>15, <1>16, <1>17, <1>18, ZenonT(60)
  DEF LifecycleNext, StartStep, StopStep, ControlCall, ListenerStep, ListenerEvent, OwnerStep,
      OwnerEvent, ServerTerminated

\* Every step keeps the owners that are past the drain empty.
LEMMA DrainedStep ==
  IInv /\ [LifecycleNext]_lifecycleVars => DrainedInv'
<1> SUFFICES ASSUME IInv, [LifecycleNext]_lifecycleVars PROVE DrainedInv'
  OBVIOUS
<1>0. 0 \notin Owners
  BY SMTT(60) DEF Owners
<1> USE <1>0 DEF IInv, LifecycleTypeOK, DrainedInv, Gone,
        reportVars, listenerVars, ownerThreadVars, streamVars
<1>1. CASE WaitReady
  BY <1>1, SMTT(60) DEF WaitReady, ThreadInv, Late
<1>2. CASE StartListener \/ StartListenerFails \/ WaitReports \/ StartAborts
  BY <1>2, SMTT(60) DEF StartListener, StartListenerFails, WaitReports, StartAborts, MayStart,
      ResetState
<1>3. CASE AbortJoin \/ Stop \/ StopTimesOut \/ StopSeesDone
  BY <1>3, SMTT(60) DEF AbortJoin, Stop, StopTimesOut, StopSeesDone, JoinThreads, ThreadsExited,
      ResetState
<1>4. CASE StopJoin \/ Destroy \/ DestroyJoin
  BY <1>4, SMTT(60) DEF StopJoin, Destroy, DestroyJoin, JoinThreads, ThreadsExited, Leases
<1>5. CASE ListenerOpens \/ ListenerOpenFails \/ ListenerGo \/ ListenerStarts
  BY <1>5, SMTT(60) DEF ListenerOpens, ListenerOpenFails, ListenerGo, ListenerStarts
<1>6. CASE ListenerAborts \/ ListenerSeesStop \/ ListenerAcceptFails \/ ListenerRejects
  BY <1>6, SMTT(60) DEF ListenerAborts, ListenerSeesStop, ListenerAcceptFails, ListenerRejects
<1>7. CASE ListenerPublishes \/ ListenerWakes \/ ListenerFails \/ ListenerFinishes
  BY <1>7, SMTT(60) DEF ListenerPublishes, ListenerWakes, ListenerFails, ListenerFinishes,
      RequestGlobalStop, AfterFinish
<1>8. CASE \E o \in Owners : StartOwner(o) \/ StartOwnerFails(o) \/ ListenerReserves(o)
           \/ OwnerStarts(o)
  BY <1>8 DEF StartOwner, StartOwnerFails, ListenerReserves, OwnerStarts, NextToCreate,
      Reservable
<1>9. CASE \E o \in Owners : OwnerAborts(o)
  BY <1>9, SMTT(60) DEF OwnerAborts, AfterFinish, ReportInv, Early
<1>10. CASE \E o \in Owners : OwnerStartFails(o) \/ OwnerGo(o) \/ OwnerSeesAbort(o)
            \/ OwnerEntersLoop(o)
  BY <1>10, SMTT(60) DEF OwnerStartFails, OwnerGo, OwnerSeesAbort, OwnerEntersLoop
<1>11. CASE \E o \in Owners : OwnerSeesStop(o) \/ OwnerFails(o) \/ OwnerPassesBarrier(o)
            \/ OwnerBeginsShutdown(o)
  BY <1>11, SMTT(60) DEF OwnerSeesStop, OwnerFails, OwnerPassesBarrier, OwnerBeginsShutdown,
      RequestGlobalStop, CloseAll
<1>12. CASE \E o \in Owners : OwnerDrained(o)
  BY <1>12, SMTT(60) DEF OwnerDrained, ConnectionsActive, Occupants, ThreadInv, StreamInv, Late
<1>13. CASE \E o \in Owners : OwnerShutdownFails(o) \/ OwnerCleansUp(o)
            \/ OwnerCleanupFails(o) \/ OwnerFinishes(o)
  BY <1>13 DEF OwnerShutdownFails, OwnerCleansUp, OwnerCleanupFails, OwnerFinishes,
      CloseAll, AfterFinish
<1>14. CASE \E o \in Owners : OwnerLoopFails(o) \/ OwnerDrainFails(o)
  BY <1>14, SMTT(60) DEF OwnerLoopFails, OwnerDrainFails, ConnectionsActive
<1>15. CASE \E o \in Owners, s \in Streams : OwnerAdmits(o, s) \/ OwnerAdmitFails(o, s)
            \/ ConnectionCloses(o, s) \/ SlotReleased(o, s)
  BY <1>15 DEF OwnerAdmits, OwnerAdmitFails, ConnectionCloses, SlotReleased, Admissible
<1>16. CASE \E s \in Streams : ListenerAccepts(s)
  BY <1>16 DEF ListenerAccepts
<1>17. CASE UNCHANGED lifecycleVars
  BY <1>17 DEF lifecycleVars
<1> HIDE DEF IInv, LifecycleTypeOK, DrainedInv
<1> QED
  BY <1>1, <1>2, <1>3, <1>4, <1>5, <1>6, <1>7, <1>8, <1>9, <1>10, <1>11, <1>12, <1>13,
     <1>14, <1>15, <1>16, <1>17, ZenonT(60)
  DEF LifecycleNext, StartStep, StopStep, ControlCall, ListenerStep, ListenerEvent, OwnerStep,
      OwnerEvent, ServerTerminated

\* Every step keeps a freed server empty.
LEMMA FreedStep ==
  IInv /\ [LifecycleNext]_lifecycleVars => FreedInv'
<1> SUFFICES ASSUME IInv, [LifecycleNext]_lifecycleVars PROVE FreedInv'
  OBVIOUS
<1>0. 0 \notin Owners
  BY DEF Owners
<1> USE <1>0 DEF IInv, LifecycleTypeOK, FreedInv,
        reportVars, listenerVars, ownerThreadVars, streamVars
<1>1. CASE StartListener \/ StartListenerFails \/ WaitReports
  BY <1>1 DEF StartListener, StartListenerFails, WaitReports, MayStart, ResetState
<1>2. CASE WaitReady \/ StartAborts \/ AbortJoin
  BY <1>2 DEF WaitReady, StartAborts, AbortJoin, JoinThreads, ThreadsExited, ResetState
<1>3. CASE Stop \/ StopTimesOut \/ StopSeesDone
  BY <1>3 DEF Stop, StopTimesOut, StopSeesDone
<1>4. CASE StopJoin \/ Destroy \/ DestroyJoin
  BY <1>4 DEF StopJoin, Destroy, DestroyJoin, JoinThreads, ThreadsExited, Leases
<1>5. CASE ListenerOpens
  BY <1>5 DEF ListenerOpens, ThreadInv, ThreadsExited
<1>6. CASE ListenerOpenFails
  BY <1>6 DEF ListenerOpenFails, ThreadInv, ThreadsExited
<1>7. CASE ListenerGo \/ ListenerStarts \/ ListenerAborts
  BY <1>7 DEF ListenerGo, ListenerStarts, ListenerAborts
<1>8. CASE ListenerSeesStop \/ ListenerAcceptFails \/ ListenerRejects
  BY <1>8, SMTT(60) DEF ListenerSeesStop, ListenerAcceptFails, ListenerRejects
<1>9. CASE ListenerPublishes \/ ListenerWakes \/ ListenerFails
  BY <1>9 DEF ListenerPublishes, ListenerWakes, ListenerFails, RequestGlobalStop
<1>10. CASE ListenerFinishes
  BY <1>10, SMTT(60) DEF ListenerFinishes, AfterFinish
<1>11. CASE \E o \in Owners : ListenerReserves(o)
  BY <1>11 DEF ListenerReserves, Reservable, ThreadInv, ThreadsExited
<1>12. CASE \E o \in Owners : OwnerStarts(o)
  BY <1>12 DEF OwnerStarts, ThreadInv, ThreadsExited
<1>13. CASE \E o \in Owners : OwnerStartFails(o)
  BY <1>13, SMTT(60) DEF OwnerStartFails, ThreadInv, ThreadsExited
<1>14. CASE \E o \in Owners : StartOwner(o) \/ StartOwnerFails(o) \/ OwnerGo(o)
  BY <1>14 DEF StartOwner, StartOwnerFails, OwnerGo, NextToCreate
<1>15. CASE \E o \in Owners : OwnerSeesAbort(o) \/ OwnerAborts(o) \/ OwnerEntersLoop(o)
  BY <1>15, SMTT(60) DEF OwnerSeesAbort, OwnerAborts, OwnerEntersLoop, AfterFinish
<1>16. CASE \E o \in Owners : OwnerSeesStop(o) \/ OwnerFails(o) \/ OwnerPassesBarrier(o)
  BY <1>16, SMTT(60) DEF OwnerSeesStop, OwnerFails, OwnerPassesBarrier, RequestGlobalStop
<1>17. CASE \E o \in Owners : OwnerBeginsShutdown(o) \/ OwnerShutdownFails(o)
            \/ OwnerDrained(o)
  BY <1>17, SMTT(60) DEF OwnerBeginsShutdown, OwnerShutdownFails, OwnerDrained, CloseAll,
      ConnectionsActive
<1>18. CASE \E o \in Owners : OwnerCleansUp(o) \/ OwnerCleanupFails(o) \/ OwnerFinishes(o)
  BY <1>18 DEF OwnerCleansUp, OwnerCleanupFails, OwnerFinishes, CloseAll, AfterFinish
<1>19. CASE \E o \in Owners : OwnerLoopFails(o) \/ OwnerDrainFails(o)
  BY <1>19, SMTT(60) DEF OwnerLoopFails, OwnerDrainFails, ConnectionsActive
<1>20. CASE \E o \in Owners, s \in Streams : OwnerAdmits(o, s) \/ OwnerAdmitFails(o, s)
            \/ ConnectionCloses(o, s) \/ SlotReleased(o, s)
  BY <1>20 DEF OwnerAdmits, OwnerAdmitFails, ConnectionCloses, SlotReleased, Admissible
<1>21. CASE \E s \in Streams : ListenerAccepts(s)
  BY <1>21 DEF ListenerAccepts
<1>22. CASE UNCHANGED lifecycleVars
  BY <1>22 DEF lifecycleVars
<1> HIDE DEF IInv, LifecycleTypeOK, FreedInv
<1> QED
  BY <1>1, <1>2, <1>3, <1>4, <1>5, <1>6, <1>7, <1>8, <1>9, <1>10, <1>11, <1>12, <1>13,
     <1>14, <1>15, <1>16, <1>17, <1>18, <1>19, <1>20, <1>21, <1>22, ZenonT(60)
  DEF LifecycleNext, StartStep, StopStep, ControlCall, ListenerStep, ListenerEvent, OwnerStep,
      OwnerEvent, ServerTerminated

\* IInv is an invariant of the server.
THEOREM Invariance == LifecycleSpec => []IInv
<1>1. LifecycleInit => IInv
  BY InitInv
<1>2. IInv /\ [LifecycleNext]_lifecycleVars => IInv'
  BY TypesStep, PhaseStep, ReportStep, ThreadStep, RuntimeStep, StreamStep, DrainedStep, FreedStep
  DEF IInv, ControlInv
<1> QED
  BY <1>1, <1>2, PTL DEF LifecycleSpec

\* Every variable keeps its type.
THEOREM TypeCorrect == LifecycleSpec => []LifecycleTypeOK
<1>1. IInv => LifecycleTypeOK
  BY DEF IInv
<1> QED
  BY <1>1, Invariance, PTL

\* While the listener publishes to an owner and wakes it, the owner is READY, its
\* handoff open and its network alive.
THEOREM WakeIsSafe == LifecycleSpec => []WakeTargetAlive
<1>1. IInv => WakeTargetAlive
  <2> SUFFICES ASSUME IInv, lpc \in {"publish", "wake"}
               PROVE  rt[target] = "READY" /\ target \in networks /\ target \notin sealed
    BY SMTT(60) DEF WakeTargetAlive
  <2>1. target \in Owners /\ "start_called" \in serverFlags /\ "listener_done" \notin serverFlags
    BY SMTT(60) DEF IInv, StreamInv, ThreadInv, ListenerServing, Gone
  <2>2. ownerPc[target] \in Serving
    BY <2>1 DEF IInv, LifecycleTypeOK, OwnerStates, ThreadInv, ReportInv, Early, Serving, Late, Gone
  <2> QED
    BY <2>1, <2>2 DEF IInv, RuntimeInv, Serving, Late, Gone
<1> QED
  BY <1>1, Invariance, PTL

\* startup_go and startup_abort are never both set.
THEOREM GoOrAbort == LifecycleSpec => []GoExcludesAbort
<1>1. IInv => GoExcludesAbort
  BY DEF IInv, PhaseInv, GoExcludesAbort
<1> QED
  BY <1>1, Invariance, PTL

\* worker_done is set only when every thread has finished.
THEOREM DoneIsFinal == LifecycleSpec => []DoneMeansExited
<1>1. IInv => DoneMeansExited
  BY DEF IInv, ThreadInv, DoneMeansExited, ThreadsExited, Gone
<1> QED
  BY <1>1, Invariance, PTL

\* A freed server has no thread, no network and no open stream.
THEOREM FreeIsSafe == LifecycleSpec => []FreedIsClean
<1>1. IInv => FreedIsClean
  <2> SUFFICES ASSUME IInv, ctl = "freed"
               PROVE  /\ ThreadsExited /\ "acceptor" \notin serverFlags /\ networks = {}
                      /\ \A s \in Streams : stream[s] \in {"new", "closed"}
    BY DEF FreedIsClean
  <2>1. ThreadsExited /\ "acceptor" \notin serverFlags /\ networks = {}
    BY DEF IInv, ThreadInv, FreedInv
  <2>2. held = NoStream /\ \A s \in Streams : ticket[s] = 0
    BY <2>1 DEF IInv, StreamInv, FreedInv, ThreadsExited
  <2>3. \A s \in Streams : stream[s] \in {"new", "closed"}
    BY <2>2, NoStreamAssumption DEF IInv, StreamInv, LifecycleTypeOK, StreamStates
  <2> QED
    BY <2>1, <2>3
<1> QED
  BY <1>1, Invariance, PTL

\* A stream holds a credit exactly from its reservation to its close.
THEOREM CreditsKept == LifecycleSpec => []CreditsConserved
<1>1. IInv => CreditsConserved
  BY DEF IInv, StreamInv, CreditsConserved
<1> QED
  BY <1>1, Invariance, PTL

\* No stream waits in the inbox of an owner that has cancelled it.
THEOREM InboxCancelled == LifecycleSpec => []SealedInboxEmpty
<1>1. IInv => SealedInboxEmpty
  BY DEF IInv, StreamInv, SealedInboxEmpty
<1> QED
  BY <1>1, Invariance, PTL

\* A server whose owners all ended with SALTS_OK has closed every stream and freed
\* every slot.
THEOREM StopIsClean == LifecycleSpec => []CleanStop
<1>1. IInv => CleanStop
  <2> SUFFICES ASSUME IInv, "worker_done" \in serverFlags, failed = {}, NEW s \in Streams
               PROVE  stream[s] \in {"new", "closed"} /\ lingering[s] = 0
    BY DEF CleanStop
  <2>1. "start_called" \in serverFlags /\ \A o \in Owners : ownerPc[o] \in Gone
    BY DEF IInv, ThreadInv
  <2>2. \A o \in Owners : ticket[s] # o /\ lingering[s] # o
    BY <2>1 DEF IInv, DrainedInv
  <2>3. ticket[s] = 0 /\ lingering[s] = 0
    BY <2>2 DEF IInv, LifecycleTypeOK
  <2>4. held = NoStream
    BY DEF IInv, ThreadInv, StreamInv, Gone
  <2> QED
    BY <2>3, <2>4, NoStreamAssumption DEF IInv, StreamInv, LifecycleTypeOK, StreamStates
<1> QED
  BY <1>1, Invariance, PTL

\* A failed start leaves a server that can be started again.
THEOREM StartIsRestartable == LifecycleSpec => []FailedStartRestartable
<1>1. IInv => FailedStartRestartable
  BY DEF IInv, PhaseInv, FailedStartRestartable, ThreadsExited
<1> QED
  BY <1>1, Invariance, PTL

\* Every owner state transition finds the state it expects.
THEOREM TransitionsFindTheirState == LifecycleSpec => []TransitionsSucceed
<1>1. IInv => TransitionsSucceed
  BY DEF IInv, RuntimeInv, TransitionsSucceed, Early, Serving
<1> QED
  BY <1>1, Invariance, PTL

\* What the threads of one server owe each other holds in every reachable state:
\* the theorems above taken together.
THEOREM LifecycleIsSafe == LifecycleSpec => []LifecycleSafe
<1>1. /\ WakeTargetAlive /\ GoExcludesAbort /\ DoneMeansExited /\ FreedIsClean
      /\ CreditsConserved /\ SealedInboxEmpty /\ CleanStop
      /\ FailedStartRestartable /\ TransitionsSucceed
      => LifecycleSafe
  BY DEF LifecycleSafe
<1> QED
  BY <1>1, WakeIsSafe, GoOrAbort, DoneIsFinal, FreeIsSafe, CreditsKept, InboxCancelled,
     StopIsClean, StartIsRestartable, TransitionsFindTheirState, PTL
=============================================================================
