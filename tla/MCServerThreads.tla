--------------------------- MODULE MCServerThreads ---------------------------
(***************************************************************************)
(* Model-checking instance of the server's threads: how they start, hand   *)
(* connections over and stop (ServerLifecycle), and how an owner and its   *)
(* workers settle deferred responses (DeferredResponse).  A behaviour      *)
(* exercises one of the two; the other stays in its initial state, in      *)
(* which no step of it is owed.                                            *)
(***************************************************************************)
EXTENDS ServerLifecycle, DeferredResponse

VARIABLE side

ThreadsInit ==
  /\ side \in {"lifecycle", "deferred"}
  /\ LifecycleInit /\ Init

ThreadsNext ==
  /\ UNCHANGED side
  /\ \/ side = "lifecycle" /\ LifecycleNext /\ UNCHANGED vars
     \/ side = "deferred" /\ Next /\ UNCHANGED lifecycleVars

ThreadsSpec ==
  /\ ThreadsInit /\ [][ThreadsNext]_<<side, lifecycleVars, vars>>
  /\ LifecycleFairness /\ SettlingFairness
=============================================================================
