---------------------------- MODULE MCSessionStore ----------------------------
(* Instances of SessionStore for TLC.                                       *)
EXTENDS SessionStore, TLC

\* Requests, identifiers and keys are interchangeable.
Symmetry == Permutations(SessionRequests) \union Permutations(SessionIds) \union Permutations(EntryKeys)

=============================================================================
