---------------------------- MODULE MCConnections ----------------------------
(***************************************************************************)
(* Model-checking instance of the HTTP/2 connections: requests between     *)
(* this client and this server, and the WebSocket pool's streams.  A       *)
(* behaviour exercises one of them; the other stays in an initial state.   *)
(***************************************************************************)
EXTENDS MCH2Link, MCWebSocketPool

VARIABLE part

connectionsVars == <<part, linkVars, poolVars>>

ConnectionsInit ==
  /\ part \in {"requests", "pool"}
  /\ LinkInit /\ (part # "requests" => scenario = CHOOSE s \in Scenarios : TRUE)
  /\ PoolInit /\ (part # "pool" => poolPlan = CHOOSE p \in PoolPlans : TRUE)

ConnectionsNext ==
  /\ UNCHANGED part
  /\ \/ part = "requests" /\ LinkNext /\ UNCHANGED poolVars
     \/ part = "pool" /\ PoolNext /\ UNCHANGED linkVars

ConnectionsSpec == ConnectionsInit /\ [][ConnectionsNext]_connectionsVars
=============================================================================
