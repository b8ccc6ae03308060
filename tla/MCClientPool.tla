----------------------------- MODULE MCClientPool -----------------------------
(* Model-checking instances of ClientPool.                                   *)
EXTENDS ClientPool

Client(blocking, connections, requests, timed, refuses) ==
    [blocking |-> blocking, connections |-> connections, requests |-> requests,
     timed |-> timed, sourced |-> {2} \intersect 1 .. requests,
     downloads |-> {1, 2} \intersect 1 .. requests, refuses |-> refuses]

\* One connection that three requests must share.
MCClients == {Client(b, 1, 3, {1}, TRUE) : b \in BOOLEAN}

\* A blocking download.
MCDownload == {Client(TRUE, 1, 1, {}, FALSE)}
=============================================================================
