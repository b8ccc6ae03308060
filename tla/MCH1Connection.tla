---------------------------- MODULE MCH1Connection ----------------------------
(* Model-checking instance of H1Connection: the configurations bound the   *)
(* requests of the connection and the reads of a streamed body.            *)
EXTENDS H1Connection
=============================================================================
