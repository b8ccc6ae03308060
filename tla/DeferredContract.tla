-------------------------- MODULE DeferredContract --------------------------
(***************************************************************************)
(* What chttp_server_response_defer() promises an application and a peer   *)
(* (http_server/http.h, "One generation-checked deferred ... response"):   *)
(* a ticket is admitted once, for the connection that carried its request; *)
(* it is settled at most once, by a reply or by a cancel; and a response   *)
(* is handed at most once, only if the ticket was replied to, and only to  *)
(* that same connection while it is still open.  DeferredResponse refines  *)
(* this module.                                                            *)
(***************************************************************************)

CONSTANTS
    Tickets,       \* the handles response_defer() can return
    Connections    \* the incarnations of peer connections

VARIABLES
    open,          \* connections the transport has not closed
    admitted,      \* pairs <<ticket, connection>>
    replied,       \* tickets settled by a reply
    canceled,      \* tickets settled by a cancel or by the handler deadline
    delivered      \* pairs <<ticket, connection>> whose response was handed over

contractVars == <<open, admitted, replied, canceled, delivered>>

ContractInit ==
    /\ open = {}
    /\ admitted = {}
    /\ replied = {}
    /\ canceled = {}
    /\ delivered = {}

\* A peer connects.
Open(c) ==
    /\ c \notin open
    /\ open' = open \cup {c}
    /\ UNCHANGED <<admitted, replied, canceled, delivered>>

\* The transport closes some connections.
Close(C) ==
    /\ open' = open \ C
    /\ UNCHANGED <<admitted, replied, canceled, delivered>>

\* A handler defers the response to a request of connection c.
Admit(t, c) ==
    /\ c \in open
    /\ \A d \in Connections : <<t, d>> \notin admitted
    /\ admitted' = admitted \cup {<<t, c>>}
    /\ UNCHANGED <<open, replied, canceled, delivered>>

Unsettled(t) ==
    /\ \E c \in Connections : <<t, c>> \in admitted
    /\ t \notin replied
    /\ t \notin canceled

\* deferred_reply() returns OK.
Reply(t) ==
    /\ Unsettled(t)
    /\ replied' = replied \cup {t}
    /\ UNCHANGED <<open, admitted, canceled, delivered>>

\* deferred_cancel() returns OK, or the handler deadline expires first.
Cancel(t) ==
    /\ Unsettled(t)
    /\ canceled' = canceled \cup {t}
    /\ UNCHANGED <<open, admitted, replied, delivered>>

\* The response is serialized for the connection of its request.
Deliver(t, c) ==
    /\ t \in replied
    /\ c \in open
    /\ <<t, c>> \in admitted
    /\ <<t, c>> \notin delivered
    /\ delivered' = delivered \cup {<<t, c>>}
    /\ UNCHANGED <<open, admitted, replied, canceled>>

ContractNext ==
    \/ \E c \in Connections : Open(c)
    \/ \E C \in SUBSET Connections : Close(C)
    \/ \E t \in Tickets : Reply(t) \/ Cancel(t)
    \/ \E t \in Tickets, c \in Connections : Admit(t, c) \/ Deliver(t, c)

ContractSpec == ContractInit /\ [][ContractNext]_contractVars
=============================================================================
