-------------------------- MODULE SessionStoreProofs --------------------------
(***************************************************************************)
(* The safety of the session table, for any number of requests, slots,     *)
(* identifiers and keys, and any generation width: a stale context never   *)
(* reads or writes another session, an identifier nobody received is not   *)
(* left behind, a cleared cookie is dead, and a full table evicts nothing. *)
(***************************************************************************)
EXTENDS SessionTableProofs

-----------------------------------------------------------------------------
(* A request's parts after a step *)

\* Request r's part of a variable becomes v.
Becomes(new, old, r, v) == new = [old EXCEPT ![r] = v] \/ (new = old /\ old[r] = v)

Moves(r, p, t, i, c, a) ==
    /\ Becomes(pc', pc, r, p) /\ Becomes(readAt', readAt, r, t) /\ Becomes(cookie', cookie, r, i)
    /\ Becomes(ctx', ctx, r, c) /\ Becomes(reply', reply, r, a)

\* Only request r moves, and its parts are the new ones.
LEMMA NewParts ==
  ASSUME SessionInv, NEW r \in SessionRequests, NEW p \in Stages, NEW t \in Nat, NEW i \in MaybeId,
         NEW c \in Contexts, NEW a \in Replies, Moves(r, p, t, i, c, a)
  PROVE  MovesAlone(r) /\ pc'[r] = p /\ readAt'[r] = t /\ cookie'[r] = i /\ ctx'[r] = c /\ reply'[r] = a
<1> USE DEF Moves, Becomes
<1>0. RequestTypes
  BY DEF SessionInv, SessionTypes
<1>1. pc' \in [SessionRequests -> Stages] /\ pc'[r] = p /\ \A q \in SessionRequests \ {r} : pc'[q] = pc[q]
  BY <1>0 DEF RequestTypes
<1>2. readAt' \in [SessionRequests -> Nat] /\ readAt'[r] = t
      /\ \A q \in SessionRequests \ {r} : readAt'[q] = readAt[q]
  BY <1>0 DEF RequestTypes
<1>3. cookie' \in [SessionRequests -> MaybeId] /\ cookie'[r] = i
      /\ \A q \in SessionRequests \ {r} : cookie'[q] = cookie[q]
  BY <1>0 DEF RequestTypes
<1>4. ctx' \in [SessionRequests -> Contexts] /\ ctx'[r] = c
      /\ \A q \in SessionRequests \ {r} : ctx'[q] = ctx[q]
  BY <1>0 DEF RequestTypes
<1>5. reply' \in [SessionRequests -> Replies] /\ reply'[r] = a
      /\ \A q \in SessionRequests \ {r} : reply'[q] = reply[q]
  BY <1>0 DEF RequestTypes
<1> QED
  BY <1>1, <1>2, <1>3, <1>4, <1>5, Zenon DEF RequestTypes, MovesAlone, Still

\* The parts of the context and of the response that r has after a step.
LEMMA PartsAre ==
  ASSUME NEW r, NEW c, NEW a, ctx'[r] = c, reply'[r] = a
  PROVE  /\ Slot(r)' = c.slot /\ Name(r)' = c.id /\ Era(r)' = c.generation /\ Seen(r)' = c.seen
         /\ (Dead(r)' <=> "invalidated" \in c.flags) /\ (Fresh(r)' <=> "created" \in c.flags)
         /\ Kind(r)' = a.kind /\ Sent(r)' = a.id
  BY Zenon DEF Slot, Name, Era, Seen, Dead, Fresh, Kind, Sent

\* What every request has.
LEMMA RequestHas ==
  ASSUME SessionInv, NEW r \in SessionRequests
  PROVE  /\ pc[r] \in Stages /\ readAt[r] \in Nat /\ readAt[r] \in 0 .. sessionClock
         /\ cookie[r] \in MaybeId /\ ctx[r] \in Contexts /\ reply[r] \in Replies /\ RequestInv(r)
         /\ sessionClock \in Nat /\ store \in [SessionSlots -> Records] /\ TableInv
  BY DEF SessionInv, SessionTypes, RequestTypes, RequestInv

\* A context owns its record, as chttp_session_record_matches decides it.
LEMMA MatchesIs ==
  ASSUME SessionInv, NEW r \in SessionRequests
  PROVE  /\ RecordMatches(ctx[r]) => Matches(r, Slot(r)) /\ Slot(r) \in SessionSlots
         /\ \A s : Matches(r, s) => RecordMatches(ctx[r]) /\ ctx[r].slot = s
<1>1. ctx[r].slot \in SessionSlots \union {NoSlot}
  BY RequestHas DEF Contexts
<1>2. RecordMatches(ctx[r]) => Matches(r, Slot(r))
  BY Zenon DEF RecordMatches, Matches, Slot, Id, Gen, Era, Name
<1>3. \A s : Matches(r, s) => RecordMatches(ctx[r]) /\ ctx[r].slot = s
  BY Zenon DEF RecordMatches, Matches, Slot, Id, Gen, Era, Name
<1> QED
  BY <1>1, <1>2, <1>3 DEF Slot, RecordMatches

-----------------------------------------------------------------------------
(* The table after a step *)

\* A step that leaves the table alone.
LEMMA SameTable ==
  ASSUME SessionInv, UNCHANGED <<sessionClock, store, issued, origin>>
  PROVE  TableStays /\ \A s \in SessionSlots : Id(s)' = Id(s) /\ Gen(s)' = Gen(s)
<1>1. store \in [SessionSlots -> Records] /\ TableInv
  BY DEF SessionInv, SessionTypes
<1>2. \A s \in SessionSlots : Stays(s)
  BY <1>1, SameStays DEF TableInv
<1> QED
  BY <1>1, <1>2 DEF TableStays, Id, Gen

\* The generation of a record that is cleared or named again.
LEMMA NextGeneration ==
  ASSUME NEW g \in Generations
  PROVE  GenerationNext(g) \in Generations
  BY CapacityAssumption DEF Generations, GenerationNext

\* A cleared record is one without a name.
LEMMA ClearedRecord ==
  ASSUME NEW rec \in Records
  PROVE  RecordClear(rec) \in Records /\ RecordClear(rec).id = NoId
<1>1. rec.generation \in Generations /\ NoEntries \in [EntryKeys -> MaybeId] /\ NoId \in MaybeId
  BY DEF Records, NoEntries, MaybeId
<1> QED
  BY <1>1, NextGeneration DEF RecordClear, Records

\* An expiry is a time.
LEMMA ExpiryTypes ==
  ASSUME NEW t \in Nat
  PROVE  Expiry(t) \in Nat
  BY CapacityAssumption DEF Expiry

\* Clearing the idle records, at a time read before the mutex was taken, takes
\* no other.
LEMMA IdleCleared ==
  ASSUME SessionInv, NEW r \in SessionRequests, NEW st, st = ExpireLocked(readAt[r])
  PROVE  /\ st \in [SessionSlots -> Records]
         /\ \A s \in SessionSlots : st[s] = store[s] \/ (st[s].id = NoId /\ Idle(s))
<1>1. readAt[r] \in Nat /\ readAt[r] <= sessionClock /\ sessionClock \in Nat /\ store \in [SessionSlots -> Records]
  BY RequestHas
<1>2. ASSUME NEW s \in SessionSlots
      PROVE  /\ store[s] \in Records /\ RecordClear(store[s]) \in Records /\ RecordClear(store[s]).id = NoId
             /\ Expired(store[s], readAt[r]) => Idle(s)
  <2>1. store[s] \in Records /\ store[s].expires \in Nat
    BY <1>1 DEF Records
  <2> QED
    BY <1>1, <2>1, ClearedRecord DEF Expired, Idle
<1> QED
  BY <1>2 DEF ExpireLocked

\* Dropping a context's record takes that record, if the context still owns it.
LEMMA DropTakes ==
  ASSUME store \in [SessionSlots -> Records], NEW c \in Contexts
  PROVE  /\ Dropped(c) \in [SessionSlots -> Records]
         /\ \A s \in SessionSlots :
               IF RecordMatches(c) /\ c.slot = s THEN Dropped(c)[s].id = NoId ELSE Dropped(c)[s] = store[s]
<1>1. CASE RecordMatches(c)
  <2>1. c.slot \in SessionSlots
    BY <1>1 DEF RecordMatches, Contexts
  <2>2. RecordClear(store[c.slot]) \in Records /\ RecordClear(store[c.slot]).id = NoId
    BY <2>1, ClearedRecord
  <2> QED
    BY <1>1, <2>1, <2>2, Zenon DEF Dropped
<1>2. CASE ~RecordMatches(c)
  BY <1>2 DEF Dropped
<1> QED
  BY <1>1, <1>2

\* The table after a request discards its record, or leaves it.
LEMMA DropStays ==
  ASSUME SessionInv, NEW r \in SessionRequests, store' \in {store, Dropped(ctx[r])},
         UNCHANGED <<sessionClock, issued, origin>>
  PROVE  /\ TableStays /\ \A s \in SessionSlots : Id(s)' # Id(s) => Matches(r, s)
         /\ store' = Dropped(ctx[r]) => \A s \in SessionSlots : Matches(r, s) => Id(s)' = NoId
<1>1. CASE store' = Dropped(ctx[r])
  <2>1. /\ store' \in [SessionSlots -> Records]
        /\ \A s \in SessionSlots : IF RecordMatches(ctx[r]) /\ ctx[r].slot = s
                                   THEN store'[s].id = NoId ELSE store'[s] = store[s]
    BY <1>1, RequestHas, DropTakes, Zenon
  <2>2. ASSUME NEW s \in SessionSlots
        PROVE  IF Matches(r, s) THEN Id(s)' = NoId ELSE store'[s] = store[s]
    BY <2>1, MatchesIs DEF Id, Slot
  <2>3. ASSUME NEW s \in SessionSlots PROVE Stays(s) /\ (Id(s)' # Id(s) => Matches(r, s))
    <3>1. CASE Matches(r, s)
      BY <2>2, <3>1 DEF Stays
    <3>2. CASE ~Matches(r, s)
      <4>1. store'[s] = store[s] /\ (Id(s) # NoId => Sound(s))
        BY <2>2, <3>2, RequestHas, Zenon DEF TableInv
      <4> QED
        BY <4>1, SameStays, Zenon DEF Id
    <3> QED
      BY <3>1, <3>2
  <2> QED
    BY <2>1, <2>2, <2>3, Zenon DEF TableStays
<1>2. CASE store' = store
  <2>1. TableStays /\ \A s \in SessionSlots : Id(s)' = Id(s)
    BY <1>2, SameTable
  <2> QED
    BY <1>1, <2>1
<1> QED
  BY <1>1, <1>2, Zenon

-----------------------------------------------------------------------------
(* The operations that let go of a record *)

\* A context without its record.
LEMMA DetachedTypes ==
  ASSUME NEW c \in Contexts, NEW fl \in SUBSET Flags
  PROVE  /\ Detached(c, fl) \in Contexts /\ Detached(c, fl).slot = NoSlot /\ Detached(c, fl).id = NoId
         /\ Detached(c, fl).seen = c.seen /\ Detached(c, fl).flags = fl
         /\ [Detached(c, fl) EXCEPT !.snapshot = NoEntries] \in Contexts
         /\ [Detached(c, fl) EXCEPT !.snapshot = NoEntries].slot = NoSlot
         /\ [Detached(c, fl) EXCEPT !.snapshot = NoEntries].id = NoId
         /\ [Detached(c, fl) EXCEPT !.snapshot = NoEntries].seen = c.seen
         /\ [Detached(c, fl) EXCEPT !.snapshot = NoEntries].flags = fl
<1>1. 0 \in Generations /\ NoId \in MaybeId /\ NoEntries \in [EntryKeys -> MaybeId]
  BY CapacityAssumption DEF Generations, MaybeId, NoEntries
<1> QED
  BY <1>1, Zenon DEF Detached, Contexts, NoSlot

\* The empty response and the one that clears the cookie.
LEMMA RepliesAre ==
  /\ NoReply \in Replies /\ NoReply.kind = "none" /\ NoReply.id = NoId
  /\ [kind |-> "clear", id |-> NoId] \in Replies
  /\ [kind |-> "clear", id |-> NoId].kind = "clear" /\ [kind |-> "clear", id |-> NoId].id = NoId
  BY DEF NoReply, Replies, MaybeId

\* A request that discards its record in the handler has seen the last of its
\* identifier.
LEMMA GoneIsGone ==
  ASSUME SessionInv, NEW r \in SessionRequests, pc[r] = "handler", TableStays,
         \A s \in SessionSlots : Matches(r, s) => Id(s)' = NoId
  PROVE  Dead(r) \/ Seen(r) = NoId \/ \A s \in SessionSlots : Id(s)' # Seen(r)
<1>1. RequestInv(r)
  BY RequestHas, Zenon
<1>2. CASE Slot(r) = NoSlot
  BY <1>1, <1>2, Zenon DEF RequestInv, Bare, Answering
<1>3. CASE Slot(r) # NoSlot
  BY <1>1, <1>3, Zenon DEF RequestInv, Borrowing, Matches, TableStays, Stays
<1> QED
  BY <1>2, <1>3

\* What such an operation assigns, and what follows.
LEMMA LetGoIs ==
  ASSUME SessionInv, NEW r \in SessionRequests, NEW p \in {"handler", "cookie", "serialize"},
         NEW c \in Contexts, NEW a \in Replies, Moves(r, p, readAt[r], cookie[r], c, a),
         c.slot = NoSlot, c.id = NoId, c.seen = ctx[r].seen, a.id = NoId, a.kind \in {"none", "clear"},
         pc[r] \in {"handler", "cookie"}, store' \in {store, Dropped(ctx[r])},
         UNCHANGED <<sessionClock, issued, origin, published, lost>>,
         Fresh(r) => store' = Dropped(ctx[r]),
         a.kind = "clear" => "invalidated" \in c.flags,
         p = "handler" => a.kind = "none" /\ "invalidated" \in c.flags,
         "invalidated" \in c.flags => Dead(r) \/ (pc[r] = "handler" /\ store' = Dropped(ctx[r]))
  PROVE  RequestStep(r)
<1>1. p \in Stages /\ readAt[r] \in Nat /\ cookie[r] \in MaybeId /\ Seen(r) = ctx[r].seen
  BY RequestHas, Zenon DEF Stages, Seen
<1>2. /\ MovesAlone(r) /\ pc'[r] = p /\ readAt'[r] = readAt[r] /\ cookie'[r] = cookie[r]
      /\ ctx'[r] = c /\ reply'[r] = a
  BY <1>1, NewParts
<1>3. /\ Slot(r)' = NoSlot /\ Name(r)' = NoId /\ Seen(r)' = Seen(r) /\ Sent(r)' = NoId
      /\ Kind(r)' = a.kind /\ (Dead(r)' <=> "invalidated" \in c.flags)
  BY <1>1, <1>2, PartsAre
<1>4. /\ TableStays /\ \A s \in SessionSlots : Id(s)' # Id(s) => Matches(r, s)
      /\ store' = Dropped(ctx[r]) => \A s \in SessionSlots : Matches(r, s) => Id(s)' = NoId
  BY DropStays, Zenon
<1>5. Dead(r)' => Dead(r) \/ Seen(r) = NoId \/ \A s \in SessionSlots : Id(s)' # Seen(r)
  BY <1>3, <1>4, GoneIsGone, Zenon
<1>6. LetsGo(r)
  BY <1>2, <1>3, <1>4, <1>5, Zenon DEF LetsGo
<1> QED
  BY <1>6, LetGoStep, Zenon

\* chttp_session_invalidate.
LEMMA InvalidateStep ==
  ASSUME SessionInv, NEW r \in SessionRequests, Invalidate(r)
  PROVE  RequestStep(r)
<1> DEFINE c == [Detached(ctx[r], {"invalidated"}) EXCEPT !.snapshot = NoEntries]
<1>1. RequestInv(r) /\ ctx[r] \in Contexts /\ reply[r] \in Replies /\ {"invalidated"} \in SUBSET Flags
  BY RequestHas DEF Flags
<1>2. c \in Contexts /\ c.slot = NoSlot /\ c.id = NoId /\ c.seen = ctx[r].seen /\ c.flags = {"invalidated"}
  BY <1>1, DetachedTypes, Zenon
<1>3. /\ pc[r] = "handler" /\ store' = Dropped(ctx[r]) /\ ctx' = [ctx EXCEPT ![r] = c]
      /\ UNCHANGED <<sessionClock, issued, origin, pc, readAt, cookie, reply, published, lost>>
  BY Zenon DEF Invalidate
<1> HIDE DEF c
<1>4. reply[r].kind = "none" /\ reply[r].id = NoId
  BY <1>1, <1>3, Zenon DEF RequestInv, Answering, Kind, Sent
<1>5. Moves(r, "handler", readAt[r], cookie[r], c, reply[r])
  BY <1>3, Zenon DEF Moves, Becomes
<1> QED
  BY <1>1, <1>2, <1>3, <1>4, <1>5, LetGoIs, Zenon

\* chttp_session_request_finish finds that the record is gone or renamed.
LEMMA FinishStaleStep ==
  ASSUME SessionInv, NEW r \in SessionRequests, FinishStale(r)
  PROVE  RequestStep(r)
<1> DEFINE c == Detached(ctx[r], {"invalidated"})
           a == [kind |-> "clear", id |-> NoId]
<1>1. ctx[r] \in Contexts /\ {"invalidated"} \in SUBSET Flags
  BY RequestHas DEF Flags
<1>2. c \in Contexts /\ c.slot = NoSlot /\ c.id = NoId /\ c.seen = ctx[r].seen /\ c.flags = {"invalidated"}
  BY <1>1, DetachedTypes, Zenon
<1>3. a \in Replies /\ a.kind = "clear" /\ a.id = NoId
  BY RepliesAre, Zenon
<1>4. /\ pc[r] = "handler" /\ store' = Dropped(ctx[r])
      /\ ctx' = [ctx EXCEPT ![r] = c] /\ reply' = [reply EXCEPT ![r] = a] /\ pc' = [pc EXCEPT ![r] = "cookie"]
      /\ UNCHANGED <<sessionClock, issued, origin, readAt, cookie, published, lost>>
  BY Zenon DEF FinishStale, Goto, Dropped
<1> HIDE DEF c, a
<1>5. Moves(r, "cookie", readAt[r], cookie[r], c, a)
  BY <1>4 DEF Moves, Becomes
<1> QED
  BY <1>2, <1>3, <1>4, <1>5, LetGoIs, Zenon

\* chttp_session_request_abort, from the handler or after the cookie.
LEMMA AbortStep ==
  ASSUME SessionInv, NEW r \in SessionRequests, HandlerFails(r) \/ SetCookieFails(r)
  PROVE  RequestStep(r)
<1> DEFINE fl == ctx[r].flags \ {"created", "dirty"}
           c == Detached(ctx[r], fl)
<1>1. ctx[r] \in Contexts /\ NoReply \in Replies /\ NoReply.kind = "none" /\ NoReply.id = NoId
  BY RequestHas, RepliesAre, Zenon
<1>2. fl \in SUBSET Flags /\ ("invalidated" \in fl => Dead(r))
  BY <1>1, Zenon DEF Contexts, Dead
<1>3. /\ pc[r] \in {"handler", "cookie"} /\ store' \in {store, Dropped(ctx[r])}
      /\ Fresh(r) => store' = Dropped(ctx[r])
      /\ UNCHANGED <<sessionClock, issued, origin, readAt, cookie, published, lost>>
  BY Zenon DEF HandlerFails, SetCookieFails, Abort, DiscardCreated, Fresh
<1>4. ctx' = [ctx EXCEPT ![r] = c] /\ reply' = [reply EXCEPT ![r] = NoReply] /\ pc' = [pc EXCEPT ![r] = "serialize"]
  BY DEF HandlerFails, SetCookieFails, Abort, Goto, SessionInv, SessionTypes, RequestTypes
<1> HIDE DEF fl
<1>5. c \in Contexts /\ c.slot = NoSlot /\ c.id = NoId /\ c.seen = ctx[r].seen /\ c.flags = fl
  BY <1>1, <1>2, DetachedTypes, Zenon
<1> HIDE DEF c
<1>6. Moves(r, "serialize", readAt[r], cookie[r], c, NoReply)
  BY <1>3, <1>4, Zenon DEF Moves, Becomes
<1> QED
  BY <1>1, <1>2, <1>3, <1>5, <1>6, LetGoIs, Zenon

\* The request state is reset once the response is sent, or lost.
LEMMA ResetStep ==
  ASSUME SessionInv, NEW r \in SessionRequests, SendReply(r) \/ PublishFails(r)
  PROVE  RequestStep(r)
<1>1. RequestInv(r) /\ readAt[r] \in Nat /\ cookie[r] \in MaybeId /\ published \subseteq issued /\ lost \subseteq issued
  BY RequestHas, Zenon DEF SessionInv, SessionTypes
<1>2. /\ NoContext \in Contexts /\ NoContext.slot = NoSlot /\ NoContext.id = NoId /\ NoContext.seen = NoId
      /\ NoContext.flags = {}
  BY CapacityAssumption DEF NoContext, Contexts, Generations, MaybeId, NoEntries, NoSlot
<1>3. /\ NoReply \in Replies /\ NoReply.kind = "none" /\ NoReply.id = NoId /\ "idle" \in Stages
  BY RepliesAre, Zenon DEF Stages
<1>4. /\ pc[r] = "serialize" /\ store' \in {store, Dropped(ctx[r])}
      /\ UNCHANGED <<sessionClock, issued, origin, readAt, cookie>>
  BY Zenon DEF SendReply, PublishFails, DiscardCreated
<1>5. /\ published \subseteq published' /\ lost \subseteq lost'
      /\ Kind(r) = "set" => Sent(r) \in published' \union lost'
      /\ published' \subseteq issued /\ lost' \subseteq issued
  <2>1. Kind(r) = "set" => Sent(r) \in issued
    BY <1>1, IdsAssumption, Zenon DEF RequestInv, Bare, Borrowing, SessionInv, SessionTypes, Answering
  <2> QED
    BY <1>1, <2>1, Zenon DEF SendReply, PublishFails, Kind, Sent
<1>6. Moves(r, "idle", readAt[r], cookie[r], NoContext, NoReply)
  BY <1>4, Zenon DEF SendReply, PublishFails, ResetRequest, Goto, Moves, Becomes
<1>7. /\ MovesAlone(r) /\ pc'[r] = "idle" /\ readAt'[r] = readAt[r] /\ cookie'[r] = cookie[r]
      /\ ctx'[r] = NoContext /\ reply'[r] = NoReply
  BY <1>1, <1>2, <1>3, <1>6, NewParts
<1>8. /\ Slot(r)' = NoSlot /\ Name(r)' = NoId /\ Seen(r)' = NoId /\ ~Dead(r)'
      /\ Kind(r)' = "none" /\ Sent(r)' = NoId
  BY <1>2, <1>3, <1>7, PartsAre
<1>9. TableStays /\ \A s \in SessionSlots : Id(s)' # Id(s) => Matches(r, s)
  BY <1>4, DropStays, Zenon
<1>10. Ends(r)
  BY <1>4, <1>5, <1>7, <1>8, <1>9, Zenon DEF Ends
<1> QED
  BY <1>10, EndStep, Zenon


-----------------------------------------------------------------------------
(* The operations that keep the record, or have none *)

\* What chttp_session_set, remove and clear make of the snapshot.
LEMMA EditIs ==
  ASSUME SessionInv, NEW r \in SessionRequests,
         Clear(r) \/ \E k \in EntryKeys : Set(r, k) \/ Remove(r, k)
  PROVE  \E f \in [EntryKeys -> MaybeId] :
            /\ ctx' = [ctx EXCEPT ![r] = [ctx[r] EXCEPT !.snapshot = f, !.flags = ctx[r].flags \union {"dirty"}]]
            /\ \A k \in EntryKeys : f[k] \in {NoId, origin[ctx[r].id], ctx[r].snapshot[k]}
<1>1. ctx \in [SessionRequests -> Contexts] /\ ctx[r] \in Contexts /\ RequestInv(r) /\ origin \in [SessionIds -> MaybeId]
  BY RequestHas, Zenon DEF SessionInv, SessionTypes, RequestTypes
<1>2. ctx[r].snapshot \in [EntryKeys -> MaybeId] /\ NoId \in MaybeId
  BY <1>1, Zenon DEF Contexts, MaybeId
<1>3. CASE Clear(r)
  <2>1. NoEntries \in [EntryKeys -> MaybeId] /\ \A k \in EntryKeys : NoEntries[k] = NoId
    BY DEF NoEntries, MaybeId
  <2>2. ctx' = [ctx EXCEPT ![r] = [ctx[r] EXCEPT !.snapshot = NoEntries, !.flags = ctx[r].flags \union {"dirty"}]]
    BY <1>1, <1>3, Zenon DEF Clear, Contexts
  <2> QED
    BY <2>1, <2>2, Zenon
<1>4. ASSUME NEW k \in EntryKeys, NEW v \in {NoId, origin[ctx[r].id]}, v \in MaybeId,
             ctx' = [ctx EXCEPT ![r] = [ctx[r] EXCEPT !.snapshot = [ctx[r].snapshot EXCEPT ![k] = v],
                                                      !.flags = ctx[r].flags \union {"dirty"}]]
      PROVE  \E f \in [EntryKeys -> MaybeId] :
                /\ ctx' = [ctx EXCEPT ![r] = [ctx[r] EXCEPT !.snapshot = f, !.flags = ctx[r].flags \union {"dirty"}]]
                /\ \A j \in EntryKeys : f[j] \in {NoId, origin[ctx[r].id], ctx[r].snapshot[j]}
  <2>1. PICK f : f = [ctx[r].snapshot EXCEPT ![k] = v]
    BY Zenon
  <2>2. f \in [EntryKeys -> MaybeId] /\ \A j \in EntryKeys : f[j] \in {NoId, origin[ctx[r].id], ctx[r].snapshot[j]}
    BY <1>2, <1>4, <2>1, Zenon
  <2> QED
    BY <1>4, <2>1, <2>2, Zenon
<1>5. ASSUME NEW k \in EntryKeys, Set(r, k) \/ Remove(r, k)
      PROVE  \E v \in {NoId, origin[ctx[r].id]} :
                /\ v \in MaybeId
                /\ ctx' = [ctx EXCEPT ![r] = [ctx[r] EXCEPT !.snapshot = [ctx[r].snapshot EXCEPT ![k] = v],
                                                            !.flags = ctx[r].flags \union {"dirty"}]]
  <2>1. CASE Set(r, k)
    <3>1. ctx[r].id \in SessionIds
      BY <1>1, <2>1, Zenon DEF Set, RequestInv, Borrowing, Slot, Name, SessionInv, SessionTypes
    <3>2. origin[ctx[r].id] \in MaybeId /\ origin' = origin
      BY <1>1, <2>1, <3>1, Zenon DEF Set
    <3>3. ctx' = [ctx EXCEPT ![r] = [ctx[r] EXCEPT !.snapshot = [ctx[r].snapshot EXCEPT ![k] = origin[ctx[r].id]],
                                                   !.flags = ctx[r].flags \union {"dirty"}]]
      BY <1>1, <2>1, <3>2, Zenon DEF Set, EntryStored, Contexts
    <3> QED
      BY <3>2, <3>3, Zenon
  <2>2. CASE Remove(r, k)
    <3>1. ctx' = [ctx EXCEPT ![r] = [ctx[r] EXCEPT !.snapshot = [ctx[r].snapshot EXCEPT ![k] = NoId],
                                                   !.flags = ctx[r].flags \union {"dirty"}]]
      BY <1>1, <2>2, Zenon DEF Remove, Contexts
    <3> QED
      BY <1>2, <3>1, Zenon
  <2> QED
    BY <1>5, <2>1, <2>2, Zenon
<1> QED
  BY <1>3, <1>4, <1>5, Zenon

\* chttp_session_set, remove and clear edit the snapshot only.
LEMMA EditStep ==
  ASSUME SessionInv, NEW r \in SessionRequests,
         Clear(r) \/ \E k \in EntryKeys : Set(r, k) \/ Remove(r, k)
  PROVE  RequestStep(r)
<1>1. RequestInv(r) /\ ctx[r] \in Contexts /\ reply[r] \in Replies /\ readAt[r] \in Nat /\ cookie[r] \in MaybeId
  BY RequestHas, Zenon
<1>2. pc[r] = "handler" /\ Slot(r) # NoSlot /\ "handler" \in Stages
  BY Zenon DEF Clear, Set, Remove, InHandler, Slot, Stages
<1>3. UNCHANGED <<sessionClock, store, issued, origin, pc, readAt, cookie, reply, published, lost>>
  BY Zenon DEF Clear, Set, Remove
<1>4. PICK f \in [EntryKeys -> MaybeId] :
            /\ ctx' = [ctx EXCEPT ![r] = [ctx[r] EXCEPT !.snapshot = f, !.flags = ctx[r].flags \union {"dirty"}]]
            /\ \A k \in EntryKeys : f[k] \in {NoId, origin[ctx[r].id], ctx[r].snapshot[k]}
  BY EditIs, Zenon
<1>5. PICK fl, c : fl = ctx[r].flags \union {"dirty"} /\ c = [ctx[r] EXCEPT !.snapshot = f, !.flags = fl]
  BY Zenon
<1>6. fl \in SUBSET Flags /\ ("invalidated" \in fl <=> Dead(r)) /\ (Fresh(r) => "created" \in fl)
  BY <1>1, <1>5 DEF Contexts, Flags, Dead, Fresh
<1>7. /\ c \in Contexts /\ c.slot = ctx[r].slot /\ c.generation = ctx[r].generation /\ c.id = ctx[r].id
      /\ c.seen = ctx[r].seen /\ c.flags = fl /\ c.snapshot = f
  BY <1>1, <1>5, <1>6, Zenon DEF Contexts
<1>8. Moves(r, "handler", readAt[r], cookie[r], c, reply[r])
  BY <1>2, <1>3, <1>4, <1>5, Zenon DEF Moves, Becomes
<1>9. /\ MovesAlone(r) /\ pc'[r] = "handler" /\ readAt'[r] = readAt[r] /\ cookie'[r] = cookie[r]
      /\ ctx'[r] = c /\ reply'[r] = reply[r]
  BY <1>1, <1>2, <1>7, <1>8, NewParts
<1>10. /\ Slot(r)' = Slot(r) /\ Name(r)' = Name(r) /\ Era(r)' = Era(r) /\ Seen(r)' = Seen(r)
       /\ (Dead(r)' <=> Dead(r)) /\ (Fresh(r) => Fresh(r)') /\ Kind(r)' = Kind(r) /\ Sent(r)' = Sent(r)
  BY <1>6, <1>7, <1>9, PartsAre, Zenon DEF Slot, Name, Era, Seen, Kind, Sent
<1>11. Reads(r) => Reads(r)'
  BY <1>3, <1>4, <1>7, <1>9 DEF Reads
<1>12. TableStays /\ \A s \in SessionSlots : Id(s)' = Id(s) /\ Gen(s)' = Gen(s)
  BY <1>3, SameTable, Zenon
<1>13. Borrowing(r)'
  BY <1>1, <1>2, <1>3, <1>9, <1>10, <1>11, <1>12, Zenon DEF RequestInv, Borrowing, Answering
<1>14. RequestInv(r)'
  BY <1>1, <1>2, <1>3, <1>9, <1>10, <1>12, <1>13, Zenon DEF RequestInv, Recordless, Answering
<1>15. Keeps(r)
  BY <1>3, <1>9, <1>10, <1>12, Zenon DEF Keeps
<1> QED
  BY <1>14, <1>15, KeepStep, Zenon

\* chttp_session_request_begin up to the mutex.
LEMMA RequestBeginStep ==
  ASSUME SessionInv, NEW r \in SessionRequests, RequestBegin(r)
  PROVE  RequestStep(r)
<1>1. /\ RequestInv(r) /\ ctx[r] \in Contexts /\ reply[r] \in Replies /\ sessionClock \in Nat
      /\ published \subseteq issued /\ issued \subseteq SessionIds
  BY RequestHas DEF SessionInv, SessionTypes
<1>2. PICK i, p :
         /\ i \in published \union {NoId} /\ p = (IF i = NoId THEN "handler" ELSE "begin")
         /\ Moves(r, p, sessionClock, i, ctx[r], reply[r])
  BY Zenon DEF RequestBegin, Goto, Moves, Becomes
<1>3. pc[r] = "idle" /\ UNCHANGED <<sessionClock, store, issued, origin, ctx, reply, published, lost>>
  BY Zenon DEF RequestBegin
<1>4. p \in Stages /\ i \in MaybeId /\ p \in {"handler", "begin"} /\ (p = "begin" => i \in published)
  BY <1>1, <1>2, Zenon DEF Stages, MaybeId
<1>5. /\ MovesAlone(r) /\ pc'[r] = p /\ readAt'[r] = sessionClock /\ cookie'[r] = i
  BY <1>1, <1>2, <1>4, NewParts, Zenon
<1>6. /\ Slot(r)' = Slot(r) /\ Name(r)' = Name(r) /\ Era(r)' = Era(r) /\ Seen(r)' = Seen(r)
      /\ (Dead(r)' <=> Dead(r)) /\ (Fresh(r)' <=> Fresh(r)) /\ Kind(r)' = Kind(r) /\ Sent(r)' = Sent(r)
  BY <1>3, Zenon DEF Slot, Name, Era, Seen, Dead, Fresh, Kind, Sent
<1>7. TableStays /\ \A s \in SessionSlots : Id(s)' = Id(s) /\ Gen(s)' = Gen(s)
  BY <1>3, SameTable, Zenon
<1>8. Slot(r) = NoSlot /\ ~Dead(r) /\ Bare(r)'
  BY <1>1, <1>3, <1>5, <1>6, Zenon DEF RequestInv, Bare, Recordless, Answering
<1>9. i \in issued \union {NoId}
  BY <1>1, <1>2, Zenon
<1>10. RequestInv(r)'
  BY <1>1, <1>3, <1>4, <1>5, <1>6, <1>7, <1>8, <1>9 DEF RequestInv, Recordless, Answering
<1>11. Keeps(r)
  BY <1>3, <1>5, <1>7, Zenon DEF Keeps, Recordless
<1> QED
  BY <1>10, <1>11, KeepStep, Zenon


\* The clock is read before a record is created.
LEMMA StartCreateStep ==
  ASSUME SessionInv, NEW r \in SessionRequests, StartCreate(r)
  PROVE  RequestStep(r)
<1>1. /\ RequestInv(r) /\ ctx[r] \in Contexts /\ reply[r] \in Replies /\ cookie[r] \in MaybeId /\ sessionClock \in Nat
      /\ pc[r] = "handler" /\ Slot(r) = NoSlot /\ ~Dead(r) /\ "create" \in Stages
  BY RequestHas DEF StartCreate, InHandler, Slot, Dead, Stages
<1>2. PICK k, c :
         k \in EntryKeys \union {NoId} /\ c = [ctx[r] EXCEPT !.key = k] /\ ctx' = [ctx EXCEPT ![r] = c]
  BY Zenon DEF StartCreate, SessionInv, SessionTypes, RequestTypes
<1>3. c \in Contexts /\ c.slot = ctx[r].slot /\ c.generation = ctx[r].generation /\ c.id = ctx[r].id
      /\ c.seen = ctx[r].seen /\ c.flags = ctx[r].flags
  BY <1>1, <1>2 DEF Contexts
<1>4. /\ Moves(r, "create", sessionClock, cookie[r], c, reply[r])
      /\ UNCHANGED <<sessionClock, store, issued, origin, published, lost>>
  BY <1>2, Zenon DEF StartCreate, Goto, Moves, Becomes
<1>5. /\ MovesAlone(r) /\ pc'[r] = "create" /\ readAt'[r] = sessionClock /\ cookie'[r] = cookie[r]
      /\ ctx'[r] = c /\ reply'[r] = reply[r]
  BY <1>1, <1>3, <1>4, NewParts
<1>6. /\ Slot(r)' = Slot(r) /\ Name(r)' = Name(r) /\ Era(r)' = Era(r) /\ Seen(r)' = Seen(r)
      /\ (Dead(r)' <=> Dead(r)) /\ Kind(r)' = Kind(r) /\ Sent(r)' = Sent(r)
  BY <1>3, <1>5, PartsAre, Zenon DEF Slot, Name, Era, Seen, Dead, Kind, Sent
<1>7. TableStays /\ \A s \in SessionSlots : Id(s)' = Id(s) /\ Gen(s)' = Gen(s)
  BY <1>4, SameTable, Zenon
<1>8. Bare(r)'
  BY <1>1, <1>5, <1>6, Zenon DEF RequestInv, Bare, Answering
<1>9. RequestInv(r)'
  BY <1>1, <1>4, <1>5, <1>6, <1>7, <1>8 DEF RequestInv, Answering
<1>10. Keeps(r)
  BY <1>1, <1>4, <1>5, <1>6, <1>7, Zenon DEF Keeps
<1> QED
  BY <1>9, <1>10, KeepStep, Zenon

\* chttp_session_request_finish without a record.
LEMMA FinishWithoutStep ==
  ASSUME SessionInv, NEW r \in SessionRequests, FinishWithout(r)
  PROVE  RequestStep(r)
<1>1. /\ RequestInv(r) /\ ctx[r] \in Contexts /\ reply[r] \in Replies /\ cookie[r] \in MaybeId /\ readAt[r] \in Nat
      /\ pc[r] = "handler" /\ Slot(r) = NoSlot /\ Kind(r) = "none" /\ Sent(r) = NoId
  BY RequestHas, Zenon DEF FinishWithout, Slot, RequestInv, Answering
<1>2. PICK p \in Answering, a \in Replies :
         /\ Moves(r, p, readAt[r], cookie[r], ctx[r], a)
         /\ a.id = NoId /\ a.kind # "set" /\ (a.kind = "clear" => Dead(r))
  <2>1. CASE Dead(r)
    BY <2>1, RepliesAre, Zenon DEF FinishWithout, Goto, Moves, Becomes, Answering, Dead
  <2>2. CASE ~Dead(r)
    BY <1>1, <2>2, Zenon DEF FinishWithout, Goto, Moves, Becomes, Answering, Dead, Kind, Sent
  <2> QED
    BY <2>1, <2>2, Zenon
<1>3. UNCHANGED <<sessionClock, store, issued, origin, published, lost>> /\ p \in Stages /\ p \notin Recordless
  BY Zenon DEF FinishWithout, Answering, Stages, Recordless
<1>4. /\ MovesAlone(r) /\ pc'[r] = p /\ readAt'[r] = readAt[r] /\ cookie'[r] = cookie[r]
      /\ ctx'[r] = ctx[r] /\ reply'[r] = a
  BY <1>1, <1>2, <1>3, NewParts, Zenon
<1>5. /\ Slot(r)' = Slot(r) /\ Name(r)' = Name(r) /\ Era(r)' = Era(r) /\ Seen(r)' = Seen(r)
      /\ (Dead(r)' <=> Dead(r)) /\ Kind(r)' = a.kind /\ Sent(r)' = a.id
  BY <1>4, PartsAre DEF Slot, Name, Era, Seen, Dead
<1>6. TableStays /\ \A s \in SessionSlots : Id(s)' = Id(s) /\ Gen(s)' = Gen(s)
  BY <1>3, SameTable, Zenon
<1>7. Bare(r)'
  BY <1>2, <1>4, <1>5, Zenon DEF Bare
<1>8. RequestInv(r)'
  BY <1>1, <1>2, <1>3, <1>4, <1>5, <1>6, <1>7, Zenon DEF RequestInv, Recordless, Answering
<1>9. Keeps(r)
  BY <1>1, <1>3, <1>4, <1>5, <1>6, Zenon DEF Keeps, Recordless
<1> QED
  BY <1>8, <1>9, KeepStep, Zenon

\* chttp_session_set_cookie.
LEMMA SetCookieStep ==
  ASSUME SessionInv, NEW r \in SessionRequests, SetCookie(r)
  PROVE  RequestStep(r)
<1>1. /\ RequestInv(r) /\ ctx[r] \in Contexts /\ reply[r] \in Replies /\ cookie[r] \in MaybeId /\ readAt[r] \in Nat
      /\ pc[r] = "cookie" /\ "serialize" \in Stages
  BY RequestHas, Zenon DEF SetCookie, Stages
<1>2. PICK c : c = [ctx[r] EXCEPT !.flags = ctx[r].flags \ {"created", "dirty"}]
  BY Zenon
<1>3. /\ c \in Contexts /\ c.slot = ctx[r].slot /\ c.generation = ctx[r].generation /\ c.id = ctx[r].id
      /\ c.seen = ctx[r].seen /\ c.flags = ctx[r].flags \ {"created", "dirty"} /\ c.snapshot = ctx[r].snapshot
  BY <1>1, <1>2, Zenon DEF Contexts
<1>4. ctx' = [ctx EXCEPT ![r] = c]
  BY <1>2, Zenon DEF SetCookie, SessionInv, SessionTypes, RequestTypes
<1>5. /\ Moves(r, "serialize", readAt[r], cookie[r], c, reply[r])
      /\ UNCHANGED <<sessionClock, store, issued, origin, published, lost>>
  BY <1>4, Zenon DEF SetCookie, Goto, Moves, Becomes
<1>6. /\ MovesAlone(r) /\ pc'[r] = "serialize" /\ readAt'[r] = readAt[r] /\ cookie'[r] = cookie[r]
      /\ ctx'[r] = c /\ reply'[r] = reply[r]
  BY <1>1, <1>3, <1>5, NewParts
<1>7. /\ Slot(r)' = Slot(r) /\ Name(r)' = Name(r) /\ Era(r)' = Era(r) /\ Seen(r)' = Seen(r)
      /\ (Dead(r)' <=> Dead(r)) /\ Kind(r)' = Kind(r) /\ Sent(r)' = Sent(r)
  BY <1>3, <1>6, PartsAre, Zenon DEF Slot, Name, Era, Seen, Dead, Kind, Sent
<1>8. Reads(r) => Reads(r)'
  BY <1>3, <1>5, <1>6, Zenon DEF Reads
<1>9. TableStays /\ \A s \in SessionSlots : Id(s)' = Id(s) /\ Gen(s)' = Gen(s)
  BY <1>5, SameTable, Zenon
<1>10. Slot(r) = NoSlot => Bare(r)'
  BY <1>1, <1>6, <1>7, Zenon DEF RequestInv, Bare, Answering
<1>11. Slot(r) # NoSlot => Borrowing(r)'
  BY <1>1, <1>5, <1>6, <1>7, <1>8, <1>9, Zenon DEF RequestInv, Borrowing, Answering
<1>12. RequestInv(r)'
  BY <1>1, <1>5, <1>6, <1>7, <1>9, <1>10, <1>11, Zenon DEF RequestInv, Recordless, Answering
<1>13. Keeps(r)
  BY <1>5, <1>6, <1>7, <1>9, Zenon DEF Keeps
<1> QED
  BY <1>12, <1>13, KeepStep, Zenon


-----------------------------------------------------------------------------
(* The operations that write a record *)

\* Slot s of a table st becomes rec, whose entries are its own session's.
Writes(st, s, rec) ==
    /\ st \in [SessionSlots -> Records] /\ s \in SessionSlots /\ rec \in Records
    /\ store' = [st EXCEPT ![s] = rec]
    /\ \A k \in EntryKeys : rec.entries[k] \in {NoId, origin'[rec.id]}

\* What the table then holds.
Written(st, s, rec) ==
    /\ store' \in [SessionSlots -> Records] /\ \A x \in SessionSlots \ {s} : store'[x] = st[x]
    /\ Id(s)' = rec.id /\ Gen(s)' = rec.generation /\ Sound(s)'

\* A record is written.
LEMMA WrittenRecord ==
  ASSUME NEW st, NEW s, NEW rec, Writes(st, s, rec)
  PROVE  Written(st, s, rec)
<1>1. store' \in [SessionSlots -> Records] /\ store'[s] = rec /\ \A x \in SessionSlots \ {s} : store'[x] = st[x]
  BY DEF Writes
<1>2. Id(s)' = rec.id /\ Gen(s)' = rec.generation /\ Sound(s)'
  BY <1>1, Zenon DEF Writes, Id, Gen, Sound
<1> QED
  BY <1>1, <1>2, Zenon DEF Written

\* A record that is the same, or gone, stays.
LEMMA KeptOrGone ==
  ASSUME SessionInv, NEW x \in SessionSlots, store'[x] = store[x] \/ store'[x].id = NoId,
         origin'[Id(x)] = origin[Id(x)]
  PROVE  Stays(x)
<1>1. CASE store'[x] = store[x]
  BY <1>1, RequestHas, SameStays, Zenon DEF SessionInv, TableInv
<1>2. CASE store'[x].id = NoId
  BY <1>2, Zenon DEF Stays, Id
<1> QED
  BY <1>1, <1>2, Zenon

\* The snapshot replaces the entries of the record that is still the borrowed
\* one.
LEMMA FinishCommitsStep ==
  ASSUME SessionInv, NEW r \in SessionRequests, FinishCommits(r)
  PROVE  RequestStep(r)
<1>1. /\ RequestInv(r) /\ ctx[r] \in Contexts /\ reply[r] \in Replies /\ cookie[r] \in MaybeId /\ readAt[r] \in Nat
      /\ sessionClock \in Nat /\ store \in [SessionSlots -> Records] /\ TableInv
      /\ pc[r] = "handler" /\ "cookie" \in Stages
  BY RequestHas, Zenon DEF FinishCommits, Stages
<1>2. PICK s \in SessionSlots : s = ctx[r].slot /\ Matches(r, s) /\ s # NoSlot
  BY MatchesIs, Zenon DEF FinishCommits, Slot, RecordMatches
<1>3. /\ store[s] \in Records /\ Id(s) = store[s].id /\ Gen(s) = store[s].generation /\ Id(s) # NoId
      /\ Id(s) = Name(r) /\ Slot(r) = s /\ Gen(s) = Era(r) /\ Sound(s) /\ Borrowing(r)
  BY <1>1, <1>2, Zenon DEF Matches, Id, Gen, TableInv, RequestInv
<1>4. PICK e : e = IF "dirty" \in ctx[r].flags THEN ctx[r].snapshot ELSE store[s].entries
  BY Zenon
<1>5. e \in [EntryKeys -> MaybeId] /\ \A k \in EntryKeys : e[k] \in {NoId, origin[Id(s)]}
  <2>1. ctx[r].snapshot \in [EntryKeys -> MaybeId] /\ store[s].entries \in [EntryKeys -> MaybeId]
    BY <1>1, <1>3, Zenon DEF Contexts, Records
  <2>2. \A k \in EntryKeys : ctx[r].snapshot[k] \in {NoId, origin[Id(s)]}
    BY <1>3, Zenon DEF Borrowing, Reads, Name
  <2>3. \A k \in EntryKeys : store[s].entries[k] \in {NoId, origin[Id(s)]}
    BY <1>3, Zenon DEF Sound
  <2> QED
    BY <1>4, <2>1, <2>2, <2>3, Zenon
<1>6. PICK rec : rec = [store[s] EXCEPT !.entries = e, !.expires = Expiry(sessionClock)]
  OBVIOUS
<1>7. rec \in Records /\ rec.id = Id(s) /\ rec.generation = Gen(s) /\ rec.entries = e
  BY <1>1, <1>3, <1>5, <1>6, ExpiryTypes, Zenon DEF Records
<1>8. /\ store' = [store EXCEPT ![s] = rec]
      /\ UNCHANGED <<sessionClock, issued, origin, published, lost>>
  BY <1>1, <1>2, <1>4, <1>6, Zenon DEF FinishCommits
<1>9. PICK a : a = [kind |-> "set", id |-> Id(s)]
  BY Zenon
<1>10. a \in Replies /\ a.kind = "set" /\ a.id = Id(s)
  BY <1>3, <1>9, Zenon DEF Replies, Records
<1>11. Moves(r, "cookie", readAt[r], cookie[r], ctx[r], a)
  BY <1>2, <1>3, <1>9, Zenon DEF FinishCommits, Goto, Moves, Becomes
<1>12. /\ MovesAlone(r) /\ pc'[r] = "cookie" /\ readAt'[r] = readAt[r] /\ cookie'[r] = cookie[r]
       /\ ctx'[r] = ctx[r] /\ reply'[r] = a
  BY <1>1, <1>10, <1>11, NewParts
<1>13. /\ Slot(r)' = Slot(r) /\ Name(r)' = Name(r) /\ Era(r)' = Era(r) /\ Seen(r)' = Seen(r)
       /\ (Dead(r)' <=> Dead(r)) /\ (Fresh(r)' <=> Fresh(r)) /\ Kind(r)' = "set" /\ Sent(r)' = Id(s)
  BY <1>10, <1>12, PartsAre DEF Slot, Name, Era, Seen, Dead, Fresh
<1>14. /\ store' \in [SessionSlots -> Records] /\ \A x \in SessionSlots \ {s} : store'[x] = store[x]
       /\ Id(s)' = Id(s) /\ Gen(s)' = Gen(s) /\ Sound(s)'
  <2>1. Writes(store, s, rec)
    BY <1>1, <1>5, <1>7, <1>8, Zenon DEF Writes
  <2>2. Written(store, s, rec)
    BY <2>1, WrittenRecord, Zenon
  <2> QED
    BY <1>7, <2>2, Zenon DEF Written
<1>15. ASSUME NEW x \in SessionSlots PROVE Stays(x) /\ Id(x)' = Id(x) /\ Gen(x)' = Gen(x)
  <2>1. CASE x = s
    BY <1>14, <2>1, Zenon DEF Stays
  <2>2. CASE x # s
    BY <1>8, <1>14, <2>2, KeptOrGone, Zenon DEF Id, Gen
  <2> QED
    BY <2>1, <2>2, Zenon
<1>16. TableStays
  BY <1>8, <1>14, <1>15, Zenon DEF TableStays
<1>17. Reads(r)'
  BY <1>3, <1>8, <1>12, StillReads, Zenon DEF Borrowing
<1>18. Borrowing(r)'
  BY <1>1, <1>3, <1>8, <1>12, <1>13, <1>15, <1>17, Zenon DEF Borrowing, Answering
<1>19. RequestInv(r)'
  BY <1>1, <1>2, <1>3, <1>8, <1>12, <1>13, <1>15, <1>18, Zenon DEF RequestInv, Recordless, Answering
<1>20. Keeps(r)
  BY <1>1, <1>8, <1>12, <1>13, <1>15, <1>16, Zenon DEF Keeps, RequestInv, Answering
<1> QED
  BY <1>19, <1>20, KeepStep, Zenon


\* A cookie resolves: the request borrows the record as the lookup found it.
LEMMA BeginResolvesStep ==
  ASSUME SessionInv, NEW r \in SessionRequests, BeginResolves(r)
  PROVE  RequestStep(r)
<1>1. /\ RequestInv(r) /\ ctx[r] \in Contexts /\ reply[r] \in Replies /\ readAt[r] \in Nat
      /\ sessionClock \in Nat /\ store \in [SessionSlots -> Records] /\ TableInv
      /\ pc[r] = "begin" /\ "handler" \in Stages /\ 0 \in Nat /\ NoId \in MaybeId
  BY RequestHas, Zenon DEF BeginResolves, Stages, MaybeId
<1>2. cookie[r] \in published /\ cookie[r] \in issued /\ cookie[r] # NoId
  BY <1>1, IdsAssumption, Zenon DEF RequestInv, SessionInv, SessionTypes
<1>3. PICK st : st = ExpireLocked(readAt[r])
  BY Zenon
<1>4. /\ st \in [SessionSlots -> Records]
      /\ \A x \in SessionSlots : st[x] = store[x] \/ (st[x].id = NoId /\ Idle(x))
  BY <1>3, IdleCleared, Zenon
<1>5. PICK s \in SessionSlots :
         /\ st[s].id = cookie[r]
         /\ store' = [st EXCEPT ![s].expires = Expiry(readAt[r])]
         /\ ctx' = [ctx EXCEPT ![r] =
               [ctx[r] EXCEPT !.slot = s, !.generation = st[s].generation,
                              !.id = st[s].id, !.seen = st[s].id, !.snapshot = st[s].entries]]
  BY <1>3, Zenon DEF BeginResolves, SessionInv, SessionTypes, RequestTypes
<1>6. /\ st[s] = store[s] /\ store[s] \in Records /\ Id(s) = store[s].id /\ Gen(s) = store[s].generation
      /\ Id(s) = cookie[r] /\ Sound(s) /\ s # NoSlot
  <2>1. st[s] = store[s] /\ store[s] \in Records
    BY <1>1, <1>2, <1>4, <1>5, Zenon
  <2>2. Id(s) = store[s].id /\ Gen(s) = store[s].generation /\ Id(s) = cookie[r]
    BY <1>5, <2>1, Zenon DEF Id, Gen
  <2> QED
    BY <1>1, <1>2, <2>1, <2>2, CapacityAssumption DEF TableInv, SessionSlots, NoSlot
<1>7. PICK rec : rec = [store[s] EXCEPT !.expires = Expiry(readAt[r])]
  BY Zenon
<1>8. rec \in Records /\ rec.id = Id(s) /\ rec.generation = Gen(s) /\ rec.entries = store[s].entries
  BY <1>1, <1>6, <1>7, ExpiryTypes, Zenon DEF Records
<1>9. /\ store' = [st EXCEPT ![s] = rec] /\ UNCHANGED <<sessionClock, issued, origin, published, lost>>
  BY <1>5, <1>6, <1>7, Zenon DEF BeginResolves
<1>10. PICK c : c = [ctx[r] EXCEPT !.slot = s, !.generation = Gen(s), !.id = Id(s), !.seen = Id(s),
                                   !.snapshot = store[s].entries]
  BY Zenon
<1>11. /\ c \in Contexts /\ c.slot = s /\ c.generation = Gen(s) /\ c.id = Id(s) /\ c.seen = Id(s)
       /\ c.flags = ctx[r].flags /\ c.snapshot = store[s].entries
  BY <1>1, <1>6, <1>10, Zenon DEF Contexts, Records
<1>12. Moves(r, "handler", 0, NoId, c, reply[r])
  BY <1>5, <1>6, <1>10, Zenon DEF BeginResolves, EndCritical, Goto, Moves, Becomes
<1>13. /\ MovesAlone(r) /\ pc'[r] = "handler" /\ readAt'[r] = 0 /\ cookie'[r] = NoId
       /\ ctx'[r] = c /\ reply'[r] = reply[r]
  <2>1. c \in Contexts /\ reply[r] \in Replies /\ "handler" \in Stages /\ 0 \in Nat /\ NoId \in MaybeId
    BY <1>1, <1>11, Zenon
  <2> QED
    BY <1>12, <2>1, NewParts, Zenon
<1>14. /\ Slot(r)' = s /\ Name(r)' = Id(s) /\ Era(r)' = Gen(s) /\ Seen(r)' = Id(s)
       /\ (Dead(r)' <=> Dead(r)) /\ Kind(r)' = Kind(r) /\ Sent(r)' = Sent(r)
  BY <1>11, <1>13, PartsAre DEF Dead, Kind, Sent
<1>15. /\ \A k \in EntryKeys : store[s].entries[k] \in {NoId, origin'[Id(s)]}
       /\ \A k \in EntryKeys : rec.entries[k] \in {NoId, origin'[rec.id]}
  BY <1>6, <1>8, <1>9, Zenon DEF Sound
<1>16. /\ store' \in [SessionSlots -> Records] /\ \A x \in SessionSlots \ {s} : store'[x] = st[x]
       /\ Id(s)' = Id(s) /\ Gen(s)' = Gen(s) /\ Sound(s)'
  <2>1. Writes(st, s, rec)
    BY <1>4, <1>8, <1>9, <1>15, Zenon DEF Writes
  <2>2. Written(st, s, rec)
    BY <2>1, WrittenRecord, Zenon
  <2> QED
    BY <1>8, <2>2, Zenon DEF Written
<1>17. Reads(r)'
  BY <1>11, <1>13, <1>15, Zenon DEF Reads
<1>18. ASSUME NEW x \in SessionSlots PROVE Stays(x) /\ (Id(x)' # Id(x) => Idle(x))
  <2>1. CASE x = s
    BY <1>16, <2>1, Zenon DEF Stays
  <2>2. CASE x # s
    <3>1. store'[x] = store[x] \/ (store'[x].id = NoId /\ Idle(x))
      BY <1>4, <1>16, <2>2
    <3> QED
      BY <1>9, <3>1, KeptOrGone, Zenon DEF Id
  <2> QED
    BY <2>1, <2>2, Zenon
<1>19. TableStays
  BY <1>9, <1>16, <1>18, Zenon DEF TableStays
<1>20. \A x \in SessionSlots : Id(x)' = Id(s) => x = s
  BY <1>1, <1>2, <1>6, <1>18, Zenon DEF Stays, TableInv
<1>21. Borrowing(r)'
  BY <1>1, <1>2, <1>6, <1>9, <1>13, <1>14, <1>16, <1>17, <1>20, Zenon DEF Borrowing, Answering, RequestInv, Recordless
<1>22. 0 <= sessionClock
  BY <1>1
<1>23. RequestInv(r)'
  BY <1>1, <1>2, <1>6, <1>9, <1>13, <1>14, <1>21, <1>22, Zenon DEF RequestInv, Recordless, Answering
<1>24. Keeps(r)
  BY <1>1, <1>9, <1>13, <1>18, <1>19, Zenon DEF Keeps, Recordless
<1> QED
  BY <1>23, <1>24, KeepStep, Zenon

\* A cookie that resolves to nothing, or a table without room for a record.
LEMMA MissStep ==
  ASSUME SessionInv, NEW r \in SessionRequests, BeginMisses(r) \/ CreateFails(r)
  PROVE  RequestStep(r)
<1>1. /\ RequestInv(r) /\ ctx[r] \in Contexts /\ reply[r] \in Replies /\ sessionClock \in Nat
      /\ store \in [SessionSlots -> Records] /\ ctx \in [SessionRequests -> Contexts]
      /\ "handler" \in Stages /\ 0 \in Nat /\ NoId \in MaybeId
  BY RequestHas DEF Stages, MaybeId, SessionInv, SessionTypes, RequestTypes
<1>2. /\ pc[r] \in {"begin", "create"} /\ store' = ExpireLocked(readAt[r])
      /\ UNCHANGED <<sessionClock, issued, origin, published, lost>>
  BY Zenon DEF BeginMisses, CreateFails
<1>3. PICK c : /\ c \in Contexts /\ c.slot = ctx[r].slot /\ c.generation = ctx[r].generation /\ c.id = ctx[r].id
               /\ c.seen = ctx[r].seen /\ c.flags = ctx[r].flags
               /\ Moves(r, "handler", 0, NoId, c, reply[r])
  <2>1. CASE BeginMisses(r)
    BY <1>1, <2>1, Zenon DEF BeginMisses, EndCritical, Goto, Moves, Becomes
  <2>2. CASE CreateFails(r)
    <3>1. PICK c : c = [ctx[r] EXCEPT !.key = NoId]
      BY Zenon
    <3>2. /\ c \in Contexts /\ c.slot = ctx[r].slot /\ c.generation = ctx[r].generation /\ c.id = ctx[r].id
          /\ c.seen = ctx[r].seen /\ c.flags = ctx[r].flags
      BY <1>1, <3>1, Zenon DEF Contexts
    <3>3. ctx' = [ctx EXCEPT ![r] = c]
      BY <1>1, <2>2, <3>1, Zenon DEF CreateFails
    <3>4. Moves(r, "handler", 0, NoId, c, reply[r])
      BY <2>2, <3>3, Zenon DEF CreateFails, EndCritical, Goto, Moves, Becomes
    <3> QED
      BY <3>2, <3>4, Zenon
  <2> QED
    BY <2>1, <2>2, Zenon
<1>4. /\ MovesAlone(r) /\ pc'[r] = "handler" /\ readAt'[r] = 0 /\ cookie'[r] = NoId
      /\ ctx'[r] = c /\ reply'[r] = reply[r]
  BY <1>1, <1>3, NewParts
<1>5. /\ Slot(r)' = Slot(r) /\ Name(r)' = Name(r) /\ Era(r)' = Era(r) /\ Seen(r)' = Seen(r)
      /\ (Dead(r)' <=> Dead(r)) /\ Kind(r)' = Kind(r) /\ Sent(r)' = Sent(r)
  BY <1>3, <1>4, PartsAre, Zenon DEF Slot, Name, Era, Seen, Dead, Kind, Sent
<1>6. /\ store' \in [SessionSlots -> Records]
      /\ \A x \in SessionSlots : store'[x] = store[x] \/ (store'[x].id = NoId /\ Idle(x))
  BY <1>2, IdleCleared, Zenon
<1>7. ASSUME NEW x \in SessionSlots PROVE Stays(x) /\ (Id(x)' # Id(x) => Idle(x))
  BY <1>2, <1>6, KeptOrGone, Zenon DEF Id
<1>8. TableStays
  BY <1>2, <1>6, <1>7, Zenon DEF TableStays
<1>9. Bare(r)' /\ Slot(r) = NoSlot /\ ~Dead(r)
  BY <1>1, <1>2, <1>4, <1>5, Zenon DEF RequestInv, Bare, Answering, Recordless
<1>10. 0 <= sessionClock
  BY <1>1
<1>11. RequestInv(r)'
  BY <1>1, <1>2, <1>4, <1>5, <1>9, <1>10, Zenon DEF RequestInv, Answering, Recordless
<1>12. Keeps(r)
  BY <1>2, <1>4, <1>7, <1>8, Zenon DEF Keeps, Recordless
<1> QED
  BY <1>11, <1>12, KeepStep, Zenon


-----------------------------------------------------------------------------
(* The operations that name a record *)

\* The context of a new record s, named i, and of the set that asked for it.
Borrower(b, s, g, i) ==
    [b EXCEPT !.slot = s, !.generation = g, !.id = i, !.seen = i, !.flags = {"created"},
              !.snapshot = NoEntries, !.key = NoId]

Creator(b, n) == IF b.key = NoId THEN n ELSE EntryStored(n, b.key)

\* It borrows the record and holds nothing but what the new session wrote.
LEMMA CreatedContext ==
  ASSUME NEW b \in Contexts, NEW s \in SessionSlots, NEW g \in Generations, NEW i \in SessionIds,
         NEW n, n = Borrower(b, s, g, i), NEW c, c = Creator(b, n), origin'[i] = i
  PROVE  /\ c \in Contexts /\ c.slot = s /\ c.generation = g /\ c.id = i /\ c.seen = i
         /\ "created" \in c.flags /\ "invalidated" \notin c.flags
         /\ \A k \in EntryKeys : c.snapshot[k] \in {NoId, i}
<1>1. /\ NoEntries \in [EntryKeys -> MaybeId] /\ (\A k \in EntryKeys : NoEntries[k] = NoId)
      /\ NoId \in MaybeId /\ i \in MaybeId
  BY Zenon DEF NoEntries, MaybeId
<1>2. /\ n \in Contexts /\ n.slot = s /\ n.generation = g /\ n.id = i /\ n.seen = i /\ n.flags = {"created"}
      /\ n.snapshot = NoEntries
  BY <1>1, Zenon DEF Borrower, Contexts, Flags
<1>3. CASE b.key = NoId
  BY <1>1, <1>2, <1>3, Zenon DEF Creator
<1>4. CASE b.key # NoId
  <2>1. b.key \in EntryKeys
    BY <1>4, Zenon DEF Contexts
  <2>2. PICK f, fl : f = [NoEntries EXCEPT ![b.key] = i] /\ fl = {"created"} \union {"dirty"}
    BY Zenon
  <2>3. f \in [EntryKeys -> MaybeId] /\ \A k \in EntryKeys : f[k] \in {NoId, i}
    BY <1>1, <2>1, <2>2, Zenon
  <2>4. fl \in SUBSET Flags /\ "created" \in fl /\ "invalidated" \notin fl
    BY <2>2, Zenon DEF Flags
  <2>5. c = [n EXCEPT !.snapshot = f, !.flags = fl]
    BY <1>2, <1>4, <2>2, Zenon DEF Creator, EntryStored, Contexts
  <2>6. c \in Contexts /\ c.slot = n.slot /\ c.generation = n.generation /\ c.id = n.id /\ c.seen = n.seen
        /\ c.flags = fl /\ c.snapshot = f
    BY <1>2, <2>3, <2>4, <2>5, Zenon DEF Contexts
  <2> QED
    BY <1>2, <2>3, <2>4, <2>6, Zenon
<1> QED
  BY <1>3, <1>4, Zenon

\* chttp_session_create, and the set that asked for the record.
LEMMA CreateStep ==
  ASSUME SessionInv, NEW r \in SessionRequests, Create(r)
  PROVE  RequestStep(r)
<1>1. /\ RequestInv(r) /\ ctx[r] \in Contexts /\ reply[r] \in Replies /\ readAt[r] \in Nat
      /\ sessionClock \in Nat /\ 0 \in 0 .. sessionClock
      /\ pc[r] = "create" /\ "handler" \in Stages /\ 0 \in Nat /\ NoId \in MaybeId
  BY RequestHas DEF Create, Stages, MaybeId
<1>2. PICK st : st = ExpireLocked(readAt[r])
  BY Zenon
<1>3. /\ st \in [SessionSlots -> Records]
      /\ \A x \in SessionSlots : st[x] = store[x] \/ (st[x].id = NoId /\ Idle(x))
  BY <1>2, IdleCleared, Zenon
<1>4. PICK s \in FreeIn(st), i \in SessionIds :
         /\ Draw(i, i)
         /\ store' = [st EXCEPT ![s] = [id |-> i, generation |-> GenerationNext(st[s].generation),
                                        expires |-> Expiry(readAt[r]), entries |-> NoEntries]]
         /\ ctx' = [ctx EXCEPT ![r] = Creator(ctx[r], Borrower(ctx[r], s, GenerationNext(st[s].generation), i))]
  BY <1>2, ZenonT(30) DEF Create, Creator, Borrower
<1>5. PICK g, rec, n, c :
         /\ g = GenerationNext(st[s].generation)
         /\ rec = [id |-> i, generation |-> g, expires |-> Expiry(readAt[r]), entries |-> NoEntries]
         /\ n = Borrower(ctx[r], s, g, i) /\ c = Creator(ctx[r], n)
  BY Zenon
<1>6. store' = [st EXCEPT ![s] = rec] /\ ctx' = [ctx EXCEPT ![r] = c]
  BY <1>4, <1>5, Zenon
<1>7. s \in SessionSlots /\ st[s].id = NoId /\ g \in Generations
  BY <1>3, <1>4, <1>5, NextGeneration, Zenon DEF FreeIn, Records
<1>8. /\ i \in SessionIds \ issued /\ issued' = issued \union {i} /\ origin' = [origin EXCEPT ![i] = i]
      /\ origin'[i] = i /\ i \in MaybeId /\ origin \in [SessionIds -> MaybeId] /\ issued \subseteq SessionIds
      /\ UNCHANGED <<sessionClock, published, lost>>
  BY <1>4, Zenon DEF Create, Draw, SessionInv, SessionTypes, MaybeId
<1>9. rec \in Records /\ rec.id = i /\ rec.generation = g /\ \A k \in EntryKeys : rec.entries[k] \in {NoId, origin'[rec.id]}
  BY <1>1, <1>5, <1>7, <1>8, ExpiryTypes, Zenon DEF Records, NoEntries
<1>10. /\ c \in Contexts /\ c.slot = s /\ c.generation = g /\ c.id = i /\ c.seen = i
       /\ "created" \in c.flags /\ "invalidated" \notin c.flags
       /\ \A k \in EntryKeys : c.snapshot[k] \in {NoId, i}
  <2>1. /\ ctx[r] \in Contexts /\ s \in SessionSlots /\ g \in Generations /\ i \in SessionIds /\ origin'[i] = i
        /\ n = Borrower(ctx[r], s, g, i) /\ c = Creator(ctx[r], n)
    BY <1>1, <1>5, <1>7, <1>8, Zenon
  <2> QED
    BY <2>1, CreatedContext
<1>11. Moves(r, "handler", 0, NoId, c, reply[r])
  BY <1>6, Zenon DEF Create, EndCritical, Goto, Moves, Becomes
<1>12. /\ MovesAlone(r) /\ pc'[r] = "handler" /\ readAt'[r] = 0 /\ cookie'[r] = NoId
       /\ ctx'[r] = c /\ reply'[r] = reply[r]
  BY <1>1, <1>10, <1>11, NewParts
<1>13. /\ Slot(r)' = s /\ Name(r)' = i /\ Era(r)' = g /\ Seen(r)' = i /\ ~Dead(r)' /\ Fresh(r)'
       /\ Kind(r)' = Kind(r) /\ Sent(r)' = Sent(r)
  BY <1>10, <1>12, PartsAre, Zenon DEF Kind, Sent
<1>14. Reads(r)'
  BY <1>8, <1>10, <1>12, Zenon DEF Reads
<1>15. /\ store' \in [SessionSlots -> Records] /\ \A x \in SessionSlots \ {s} : store'[x] = st[x]
       /\ Id(s)' = i /\ Gen(s)' = g /\ Sound(s)'
  <2>1. Writes(st, s, rec)
    BY <1>3, <1>6, <1>7, <1>9, Zenon DEF Writes
  <2>2. Written(st, s, rec)
    BY <2>1, WrittenRecord, Zenon
  <2> QED
    BY <1>9, <2>2, Zenon DEF Written
<1>16. ASSUME NEW x \in SessionSlots, x # s PROVE Stays(x) /\ (Id(x)' # Id(x) => Idle(x))
  <2>1. store'[x] = store[x] \/ (store'[x].id = NoId /\ Idle(x))
    BY <1>3, <1>15, <1>16, Zenon
  <2>2. CASE store'[x].id = NoId
    BY <2>1, <2>2, Zenon DEF Stays, Id
  <2>3. CASE store'[x] = store[x] /\ Id(x) # NoId
    <3>1. Id(x) \in issued /\ origin'[Id(x)] = origin[Id(x)]
      BY <1>8, <2>3, RequestHas, Zenon DEF TableInv
    <3> QED
      BY <2>3, <3>1, KeptOrGone DEF Id
  <2> QED
    BY <2>1, <2>2, <2>3, Zenon DEF Id
<1>17. Id(s) # NoId => Idle(s)
  BY <1>3, <1>7, Zenon DEF Id
<1>18. TakesName(s, i, i)
  BY <1>7, <1>8, <1>15, <1>16, Zenon DEF TakesName
<1>19. TakesRecord(r, s, i)
  BY <1>1, <1>12, <1>13, <1>14, <1>15, <1>16, <1>17, Zenon DEF TakesRecord, RequestInv, Answering
<1> QED
  BY <1>18, <1>19, NameStep, Zenon


\* chttp_session_regenerate.
LEMMA RegenerateStep ==
  ASSUME SessionInv, NEW r \in SessionRequests, Regenerate(r)
  PROVE  RequestStep(r)
<1>1. /\ RequestInv(r) /\ ctx[r] \in Contexts /\ reply[r] \in Replies /\ readAt[r] \in 0 .. sessionClock
      /\ readAt[r] \in Nat /\ cookie[r] \in MaybeId /\ sessionClock \in Nat /\ store \in [SessionSlots -> Records]
      /\ TableInv /\ pc[r] = "handler" /\ "handler" \in Stages /\ ~Dead(r) /\ RecordMatches(ctx[r])
      /\ ctx \in [SessionRequests -> Contexts] /\ origin \in [SessionIds -> MaybeId] /\ issued \subseteq SessionIds
  BY RequestHas, Zenon DEF Regenerate, InHandler, Dead, Stages, SessionInv, SessionTypes, RequestTypes
<1>2. PICK s \in SessionSlots : s = ctx[r].slot /\ Matches(r, s)
  BY <1>1, MatchesIs, Zenon DEF Slot
<1>3. /\ store[s] \in Records /\ Id(s) = store[s].id /\ Gen(s) = store[s].generation /\ Id(s) # NoId
      /\ Id(s) = Name(r) /\ Slot(r) = s /\ Sound(s) /\ Borrowing(r) /\ Id(s) \in issued
  BY <1>1, <1>2, Zenon DEF Matches, Id, Gen, TableInv, RequestInv
<1>4. PICK g, o : g = GenerationNext(store[s].generation) /\ o = origin[ctx[r].id]
  BY Zenon
<1>5. g \in Generations /\ o = origin[Name(r)] /\ o \in MaybeId
  <2>1. store[s].generation \in Generations /\ Name(r) \in SessionIds
    BY <1>1, <1>3, Zenon DEF Records
  <2> QED
    BY <1>1, <1>4, <2>1, NextGeneration, Zenon DEF Name
<1>6. PICK i \in SessionIds :
         /\ Draw(i, o)
         /\ store' = [store EXCEPT ![s].id = i, ![s].generation = g, ![s].expires = Expiry(sessionClock)]
         /\ ctx' = [ctx EXCEPT ![r].id = i, ![r].seen = i, ![r].generation = g,
                               ![r].flags = @ \union {"created"}]
  BY <1>2, <1>4, Zenon DEF Regenerate
<1>7. /\ i \in SessionIds \ issued /\ issued' = issued \union {i} /\ origin' = [origin EXCEPT ![i] = o]
      /\ origin'[i] = o /\ i \in MaybeId /\ UNCHANGED <<sessionClock, published, lost>>
  BY <1>1, <1>6, Zenon DEF Regenerate, Draw, MaybeId
<1>8. PICK rec, fl, c :
         /\ rec = [store[s] EXCEPT !.id = i, !.generation = g, !.expires = Expiry(sessionClock)]
         /\ fl = ctx[r].flags \union {"created"}
         /\ c = [ctx[r] EXCEPT !.id = i, !.seen = i, !.generation = g, !.flags = fl]
  BY Zenon
<1>9. store' = [store EXCEPT ![s] = rec] /\ ctx' = [ctx EXCEPT ![r] = c]
  BY <1>1, <1>2, <1>6, <1>8, Zenon DEF Records, Contexts
<1>10. fl \in SUBSET Flags /\ "created" \in fl /\ "invalidated" \notin fl
  BY <1>1, <1>8, Zenon DEF Contexts, Flags, Dead
<1>11. /\ c \in Contexts /\ c.slot = s /\ c.id = i /\ c.seen = i /\ c.generation = g /\ c.flags = fl
       /\ c.snapshot = ctx[r].snapshot
  BY <1>1, <1>2, <1>5, <1>7, <1>8, <1>10, Zenon DEF Contexts
<1>12. rec \in Records /\ rec.id = i /\ rec.generation = g /\ rec.entries = store[s].entries
  BY <1>1, <1>3, <1>5, <1>7, <1>8, ExpiryTypes, Zenon DEF Records
<1>13. /\ \A k \in EntryKeys : rec.entries[k] \in {NoId, origin'[rec.id]}
       /\ \A k \in EntryKeys : c.snapshot[k] \in {NoId, origin'[c.id]}
  <2>1. \A k \in EntryKeys : store[s].entries[k] \in {NoId, o}
    BY <1>3, <1>5, Zenon DEF Sound
  <2>2. \A k \in EntryKeys : ctx[r].snapshot[k] \in {NoId, o}
    BY <1>3, <1>4, Zenon DEF Borrowing, Reads
  <2> QED
    BY <1>7, <1>11, <1>12, <2>1, <2>2, Zenon
<1>14. Moves(r, "handler", readAt[r], cookie[r], c, reply[r])
  BY <1>1, <1>9, Zenon DEF Regenerate, Moves, Becomes
<1>15. /\ MovesAlone(r) /\ pc'[r] = "handler" /\ readAt'[r] = readAt[r] /\ cookie'[r] = cookie[r]
       /\ ctx'[r] = c /\ reply'[r] = reply[r]
  <2>1. /\ c \in Contexts /\ reply[r] \in Replies /\ "handler" \in Stages /\ readAt[r] \in Nat
        /\ cookie[r] \in MaybeId
    BY <1>1, <1>11, Zenon
  <2> QED
    BY <1>14, <2>1, NewParts
<1>16. /\ Slot(r)' = s /\ Name(r)' = i /\ Era(r)' = g /\ Seen(r)' = i /\ ~Dead(r)' /\ Fresh(r)'
       /\ Kind(r)' = Kind(r) /\ Sent(r)' = Sent(r)
  BY <1>10, <1>11, <1>15, PartsAre DEF Kind, Sent
<1>17. Reads(r)'
  BY <1>13, <1>15, Zenon DEF Reads
<1>18. /\ store' \in [SessionSlots -> Records] /\ \A x \in SessionSlots \ {s} : store'[x] = store[x]
       /\ Id(s)' = i /\ Gen(s)' = g /\ Sound(s)'
  <2>1. Writes(store, s, rec)
    BY <1>1, <1>9, <1>12, <1>13, Zenon DEF Writes
  <2>2. Written(store, s, rec)
    BY <2>1, WrittenRecord, Zenon
  <2> QED
    BY <1>12, <2>2, Zenon DEF Written
<1>19. ASSUME NEW x \in SessionSlots, x # s PROVE Stays(x) /\ Id(x)' = Id(x)
  <2>1. store'[x] = store[x]
    BY <1>18, <1>19, Zenon
  <2>2. CASE Id(x) = NoId
    BY <2>1, <2>2, Zenon DEF Stays, Id
  <2>3. CASE Id(x) # NoId
    <3>1. Id(x) \in issued /\ origin'[Id(x)] = origin[Id(x)]
      BY <1>1, <1>7, <2>3, Zenon DEF TableInv
    <3> QED
      BY <2>1, <3>1, KeptOrGone, Zenon DEF Id
  <2> QED
    BY <2>2, <2>3, Zenon
<1>20. TakesName(s, i, o)
  BY <1>5, <1>7, <1>18, <1>19, Zenon DEF TakesName
<1>21. TakesRecord(r, s, i)
  BY <1>1, <1>2, <1>3, <1>7, <1>15, <1>16, <1>17, <1>18, <1>19, Zenon DEF TakesRecord, RequestInv, Answering
<1> QED
  BY <1>20, <1>21, NameStep, Zenon


-----------------------------------------------------------------------------
(* The invariant and the theorems *)

\* Time passes.
LEMMA TickKeeps ==
  ASSUME SessionInv, SessionTick
  PROVE  SessionInv' /\ UNCHANGED store
<1>1. /\ UNCHANGED <<store, issued, origin, pc, readAt, cookie, ctx, reply, published, lost>>
      /\ sessionClock' = sessionClock + 1
  BY Zenon DEF SessionTick
<1>2. SessionTypes /\ TableInv /\ sessionClock \in Nat
  BY Zenon DEF SessionInv, SessionTypes
<1>3. SessionTypes'
  BY <1>1, <1>2 DEF SessionTypes, RequestTypes
<1>4. ASSUME NEW s \in SessionSlots PROVE Id(s)' = Id(s) /\ Gen(s)' = Gen(s) /\ (Sound(s)' <=> Sound(s))
  BY <1>1, Zenon DEF Id, Gen, Sound
<1>5. TableInv'
  BY <1>1, <1>2, <1>4 DEF TableInv
<1>6. Evolves
  BY <1>1, <1>2, <1>4 DEF Evolves
<1>7. ASSUME NEW q \in SessionRequests PROVE Still(q)
  BY <1>1, Zenon DEF Still
<1>8. ASSUME NEW q \in SessionRequests PROVE RequestInv(q)'
  BY <1>3, <1>6, <1>7, OtherRequest, Zenon DEF SessionTypes
<1>9. ASSUME NEW s \in SessionSlots, Id(s)' \notin published' \union lost' \union {NoId}
      PROVE  \E q \in SessionRequests : Holds(q, s)'
  <2>1. PICK q \in SessionRequests : Holds(q, s)
    BY <1>1, <1>4, <1>9, Zenon DEF SessionInv
  <2> QED
    BY <1>1, <1>4, <1>7, <2>1, StillParts, Zenon DEF Holds, Matches
<1> QED
  BY <1>1, <1>3, <1>5, <1>8, <1>9, Zenon DEF SessionInv

\* A step that changes nothing.
LEMMA StutterKeeps ==
  ASSUME SessionInv, UNCHANGED sessionVars
  PROVE  SessionInv'
<1>1. UNCHANGED <<sessionClock, store, issued, origin, pc, readAt, cookie, ctx, reply, published, lost>>
  BY Zenon DEF sessionVars
<1>2. SessionTypes /\ TableInv
  BY Zenon DEF SessionInv
<1>3. SessionTypes'
  BY <1>1, <1>2 DEF SessionTypes, RequestTypes
<1>4. ASSUME NEW s \in SessionSlots PROVE Id(s)' = Id(s) /\ Gen(s)' = Gen(s)
  BY <1>1, Zenon DEF Id, Gen
<1>5. TableInv' /\ Evolves
  BY <1>1, SameTable, TableKept, Zenon
<1>6. ASSUME NEW q \in SessionRequests PROVE Still(q)
  BY <1>1, Zenon DEF Still
<1>7. ASSUME NEW q \in SessionRequests PROVE RequestInv(q)'
  BY <1>3, <1>5, <1>6, OtherRequest, Zenon DEF SessionTypes
<1>8. ASSUME NEW s \in SessionSlots, Id(s)' \notin published' \union lost' \union {NoId}
      PROVE  \E q \in SessionRequests : Holds(q, s)'
  <2>1. PICK q \in SessionRequests : Holds(q, s)
    BY <1>1, <1>4, <1>8, Zenon DEF SessionInv
  <2> QED
    BY <1>1, <1>4, <1>6, <2>1, StillParts, Zenon DEF Holds, Matches
<1> QED
  BY <1>3, <1>5, <1>7, <1>8, Zenon DEF SessionInv

\* An empty table is isolated.
LEMMA SessionStart ==
  ASSUME SessionInit
  PROVE  SessionInv
<1>1. /\ NoContext \in Contexts /\ NoReply \in Replies /\ NoEntries \in [EntryKeys -> MaybeId]
      /\ 0 \in Generations /\ NoId \in MaybeId /\ "idle" \in Stages
      /\ NoContext.slot = NoSlot /\ NoContext.id = NoId /\ NoContext.seen = NoId /\ NoContext.flags = {}
      /\ NoReply.kind = "none" /\ NoReply.id = NoId
  BY CapacityAssumption
  DEF NoContext, Contexts, NoReply, Replies, Stages, Generations, MaybeId, NoEntries, NoSlot
<1>2. SessionTypes
  BY <1>1, Zenon DEF SessionInit, SessionTypes, RequestTypes, Records
<1>3. \A s \in SessionSlots : Id(s) = NoId
  BY Zenon DEF SessionInit, Id
<1>4. TableInv
  BY <1>3, Zenon DEF TableInv
<1>5. ASSUME NEW r \in SessionRequests PROVE RequestInv(r)
  <2>1. /\ pc[r] = "idle" /\ readAt[r] = 0 /\ sessionClock = 0 /\ cookie[r] = NoId
        /\ ctx[r] = NoContext /\ reply[r] = NoReply
    BY Zenon DEF SessionInit
  <2>2. /\ Slot(r) = NoSlot /\ Name(r) = NoId /\ Seen(r) = NoId /\ ~Dead(r) /\ Kind(r) = "none" /\ Sent(r) = NoId
    BY <1>1, <2>1, Zenon DEF Slot, Name, Seen, Dead, Kind, Sent
  <2> QED
    BY <2>1, <2>2 DEF RequestInv, Bare, Answering, Recordless
<1> QED
  BY <1>2, <1>3, <1>4, <1>5, Zenon DEF SessionInv

\* Every step of a request is one of those above.
LEMMA RequestSteps ==
  ASSUME SessionInv, NEW r \in SessionRequests,
         RequestBegin(r) \/ BeginResolves(r) \/ BeginMisses(r) \/ Handler(r) \/ Finish(r)
  PROVE  RequestStep(r)
<1>1. CASE RequestBegin(r) \/ BeginResolves(r) \/ BeginMisses(r)
  BY <1>1, RequestBeginStep, BeginResolvesStep, MissStep, Zenon
<1>2. CASE Handler(r)
  BY <1>2, EditStep, StartCreateStep, CreateStep, MissStep, RegenerateStep, InvalidateStep, Zenon DEF Handler
<1>3. CASE Finish(r)
  BY <1>3, FinishWithoutStep, FinishCommitsStep, FinishStaleStep, SetCookieStep, AbortStep, ResetStep, Zenon DEF Finish
<1> QED
  BY <1>1, <1>2, <1>3, Zenon

\* The inductive invariant holds of every step.
LEMMA SessionStepKeeps ==
  ASSUME SessionInv, [SessionNext]_sessionVars
  PROVE  SessionInv'
<1>1. CASE SessionTick
  BY <1>1, TickKeeps, Zenon
<1>2. CASE UNCHANGED sessionVars
  BY <1>2, StutterKeeps, Zenon
<1>3. ASSUME NEW r \in SessionRequests,
             RequestBegin(r) \/ BeginResolves(r) \/ BeginMisses(r) \/ Handler(r) \/ Finish(r)
      PROVE  SessionInv'
  BY <1>3, RequestSteps, StepKeeps, Zenon
<1> QED
  BY <1>1, <1>2, <1>3, Zenon DEF SessionNext

\* The inductive invariant of the session table.
THEOREM SessionInvariance == SessionSpec => []SessionInv
<1>1. SessionInit => SessionInv
  BY SessionStart, Zenon
<1>2. SessionInv /\ [SessionNext]_sessionVars => SessionInv'
  BY SessionStepKeeps
<1> QED
  BY <1>1, <1>2, PTL DEF SessionSpec


\* A request never reads or writes another session's entries: not through a
\* slot that was reused, nor a record that was renamed, nor after the
\* generation wrapped (chttp_session_record_matches).
THEOREM StaleContextsAreHarmless == SessionSpec => []SessionsIsolated
<1>1. ASSUME SessionInv PROVE SessionsIsolated
  <2>1. ASSUME NEW s \in SessionSlots, store[s].id # NoId, NEW k \in EntryKeys
        PROVE  store[s].entries[k] \in {NoId, origin[store[s].id]}
    <3>1. Sound(s)
      BY <1>1, <2>1, Zenon DEF SessionInv, TableInv, Id
    <3> QED
      BY <3>1, Zenon DEF Sound
  <2>2. ASSUME NEW r \in SessionRequests, ctx[r].slot # NoSlot, NEW k \in EntryKeys
        PROVE  ctx[r].snapshot[k] \in {NoId, origin[ctx[r].id]}
    <3>1. Reads(r)
      BY <1>1, <2>2, Zenon DEF SessionInv, RequestInv, Borrowing, Slot
    <3> QED
      BY <3>1, Zenon DEF Reads
  <2> QED
    BY <2>1, <2>2, Zenon DEF SessionsIsolated
<1> QED
  BY <1>1, SessionInvariance, PTL

\* A record created or renamed by a request that fails is discarded with it
\* (chttp_session_discard_created).
THEOREM FailedRequestsLeaveNothing == SessionSpec => []NoOrphan
<1>1. ASSUME SessionInv PROVE NoOrphan
  <2> SUFFICES ASSUME NEW s \in SessionSlots, store[s].id \notin published \union lost \union {NoId}
               PROVE  InFlight(s)
    BY Zenon DEF NoOrphan
  <2>1. PICK r \in SessionRequests : Holds(r, s)
    BY <1>1, Zenon DEF SessionInv, Id
  <2>2. Matches(r, s) /\ pc[r] # "idle"
    BY <1>1, <2>1, HeldIsBorrowed, Zenon DEF Holds, Id
  <2>3. RecordMatches(ctx[r]) /\ ctx[r].slot = s
    BY <1>1, <2>2, MatchesIs, Zenon
  <2> QED
    BY <2>2, <2>3, Zenon DEF InFlight
<1> QED
  BY <1>1, SessionInvariance, PTL

\* A response that clears the cookie tells the truth: the identifier is dead.
THEOREM ClearedCookiesAreDead == SessionSpec => []ClearMeansGone
<1>1. ASSUME SessionInv PROVE ClearMeansGone
  <2> SUFFICES ASSUME NEW r \in SessionRequests, reply[r].kind = "clear"
               PROVE  ctx[r].seen = NoId \/ \A s \in SessionSlots : store[s].id # ctx[r].seen
    BY Zenon DEF ClearMeansGone
  <2>1. RequestInv(r) /\ Kind(r) = "clear"
    BY <1>1, Zenon DEF SessionInv, Kind
  <2>2. Seen(r) = NoId \/ \A s \in SessionSlots : Id(s) # Seen(r)
    BY <2>1 DEF RequestInv
  <2> QED
    BY <2>2, Zenon DEF Seen, Id
<1> QED
  BY <1>1, SessionInvariance, PTL

\* chttp_session_create never takes a slot whose record is still alive.
THEOREM FullTableKeepsSessions == SessionSpec => NoEviction
<1> DEFINE Evicts ==
      \A s \in SessionSlots :
          store[s].id # NoId /\ store'[s].id # store[s].id =>
             \/ store[s].expires <= sessionClock
             \/ \E r \in SessionRequests :
                   /\ RecordMatches(ctx[r]) /\ ctx[r].slot = s
                   /\ ctx'[r] # ctx[r]
<1>1. SessionInv /\ [SessionNext]_sessionVars => [Evicts]_sessionVars
  <2> SUFFICES ASSUME SessionInv, SessionNext PROVE Evicts
    BY Zenon
  <2>1. CASE SessionTick
    BY <2>1, TickKeeps, Zenon
  <2>2. ASSUME NEW r \in SessionRequests,
               RequestBegin(r) \/ BeginResolves(r) \/ BeginMisses(r) \/ Handler(r) \/ Finish(r)
        PROVE  Evicts
    <3>1. NoneEvicted(r)
      BY <2>2, RequestSteps DEF RequestStep
    <3>2. Slot(r)' # Slot(r) \/ Name(r)' # Name(r) => ctx'[r] # ctx[r]
      BY Zenon DEF Slot, Name
    <3>3. ASSUME NEW s \in SessionSlots, Id(s) # NoId, Id(s)' # Id(s)
          PROVE  Idle(s) \/ (RecordMatches(ctx[r]) /\ ctx[r].slot = s /\ ctx'[r] # ctx[r])
      BY <3>1, <3>2, <3>3, MatchesIs, Zenon DEF NoneEvicted
    <3> QED
      BY <3>3, Zenon DEF Id, Idle
  <2> QED
    BY <2>1, <2>2, Zenon DEF SessionNext
<1> QED
  BY <1>1, SessionInvariance, PTL DEF SessionSpec, NoEviction


=============================================================================
