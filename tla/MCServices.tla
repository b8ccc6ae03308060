----------------------------- MODULE MCServices -----------------------------
(***************************************************************************)
(* Model-checking instance of the components that stand beside the         *)
(* HTTP connections: the rate limiter, the client's pool with two          *)
(* connections, a WebSocket of the server and one of the client, the       *)
(* JSON-RPC server, client and codec, the application service and the S3   *)
(* uploads.  They do not interact, so a behaviour exercises one of them;   *)
(* the others stay in an initial state.                                    *)
(***************************************************************************)
EXTENDS MCClientPool, RateLimit, MCWebSocket, MCRpc, MCApplications

\* Two connections: asynchronous, with a deadline and a CNet that refuses closes
\* and receives, and blocking.
MCPools == {[Client(FALSE, 2, 2, {1}, TRUE) EXCEPT !.sourced = {}], Client(TRUE, 2, 2, {}, FALSE)}

\* Three identities on two slots, and two owners that race for one slot.
MCLimiters ==
  {[capacity |-> 2, owners |-> {1}, identities |-> {1, 2, 3}],
   [capacity |-> 1, owners |-> {1, 2}, identities |-> {1, 2}]}

-----------------------------------------------------------------------------
VARIABLE part

Parts == {"pool", "rate", "websocketServer", "websocketClient", "rpcServer", "rpcClient", "codec", "app", "s3"}

servicesVars == <<part, vars, rateVars, wsVars, wcVars, rpcVars, rpcClientVars, codecVars, appVars, s3Vars>>

\* Of a component that is not exercised, one initial state.
ServicesInit ==
  /\ part \in Parts
  /\ Init /\ (part # "pool" => config = CHOOSE c \in Clients : TRUE)
  /\ RateInit /\ (part # "rate" => limiter = CHOOSE l \in Limiters : TRUE)
  /\ WsInit /\ (part # "websocketServer" => wsPlan = (CHOOSE p \in WsPlans : TRUE) /\ ~peer.dedicated)
  /\ WcInit /\ (part # "websocketClient" => plan = CHOOSE p \in WsClients : TRUE)
  /\ RpcInit
  /\ RpcClientInit /\ (part # "rpcClient" => script = CHOOSE s \in RpcScripts : TRUE)
  /\ CodecInit /\ (part # "codec" => task = "error")
  /\ AppInit /\ (part # "app" => appPlan = CHOOSE p \in AppPlans : TRUE)
  /\ S3Init

\* The variables of the components other than p.
Others(p) ==
  /\ UNCHANGED part
  /\ p # "pool" => UNCHANGED vars
  /\ p # "rate" => UNCHANGED rateVars
  /\ p # "websocketServer" => UNCHANGED wsVars
  /\ p # "websocketClient" => UNCHANGED wcVars
  /\ p # "rpcServer" => UNCHANGED rpcVars
  /\ p # "rpcClient" => UNCHANGED rpcClientVars
  /\ p # "codec" => UNCHANGED codecVars
  /\ p # "app" => UNCHANGED appVars
  /\ p # "s3" => UNCHANGED s3Vars

ServicesNext ==
  \/ part = "pool" /\ Next /\ Others("pool")
  \/ part = "rate" /\ RateNext /\ Others("rate")
  \/ part = "websocketServer" /\ WsNext /\ Others("websocketServer")
  \/ part = "websocketClient" /\ WcNext /\ Others("websocketClient")
  \/ part = "rpcServer" /\ RpcNext /\ Others("rpcServer")
  \/ part = "rpcClient" /\ RpcClientNext /\ Others("rpcClient")
  \/ part = "codec" /\ CodecNext /\ Others("codec")
  \/ part = "app" /\ AppNext /\ Others("app")
  \/ part = "s3" /\ S3Next /\ Others("s3")

ServicesSpec == ServicesInit /\ [][ServicesNext]_servicesVars
=============================================================================
