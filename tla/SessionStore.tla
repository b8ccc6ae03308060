----------------------------- MODULE SessionStore -----------------------------
(***************************************************************************)
(* The bounded in-memory cookie Session of the server (chttp_session.c).   *)
(* Requests run on several owner threads and share one table of records    *)
(* under session_mutex.  A request works on a private snapshot of the      *)
(* record its cookie names and writes the snapshot back when it finishes,  *)
(* so between its two critical sections other requests may change, replace *)
(* or invalidate the record, its idle timeout may pass, and its slot may   *)
(* be given to another session.                                            *)
(*                                                                         *)
(* An entry's value is abstracted to the session that wrote it, named by   *)
(* the identifier that session was created with.                           *)
(***************************************************************************)
EXTENDS Integers, FiniteSets

CONSTANTS
    SessionRequests,        \* requests in flight, one per owner thread
    SessionIds,             \* session identifiers the generator may draw
    NoId,            \* the empty identifier: an unused record, no cookie
    EntryKeys,            \* entry keys
    SessionCapacity,        \* session_capacity
    EntryCapacity,   \* session_entry_capacity
    IdleTimeout,     \* session_idle_timeout_ms
    TimeLimit,       \* the largest time stamp (UINT64_MAX)
    GenerationLimit, \* the width of a generation (2^32)
    SessionTime,         \* bound on the clock
    MaxLost          \* bound on the cookies whose response fails to reach the wire

ASSUME CapacityAssumption ==
    /\ SessionCapacity \in Nat \ {0}
    /\ EntryCapacity \in Nat \ {0}
    /\ IdleTimeout \in Nat \ {0}
    /\ GenerationLimit \in Nat \ {0, 1}
    /\ TimeLimit \in Nat
    /\ SessionTime \in 0 .. TimeLimit
ASSUME IdsAssumption == NoId \notin SessionIds
ASSUME LostAssumption == MaxLost \in Nat

VARIABLES
    sessionClock,      \* the monotonic clock
    store,      \* the records, by slot
    issued,     \* identifiers drawn so far
    origin,     \* for an issued identifier, the first one of its session
    pc,         \* where each request is
    readAt,        \* the time a request read before taking the mutex
    cookie,     \* the identifier a request presented
    ctx,        \* the session context of a request
    reply,      \* the Set-Cookie of its response
    published,  \* identifiers a client has received
    lost        \* identifiers whose response never left

sessionVars == <<sessionClock, store, issued, origin, pc, readAt, cookie, ctx, reply, published, lost>>

SessionSlots == 1 .. SessionCapacity
NoSlot == 0
Generations == 0 .. GenerationLimit - 1
Flags == {"created", "invalidated", "dirty"}
Stages == {"idle", "begin", "handler", "create", "cookie", "serialize"}
MaybeId == SessionIds \union {NoId}
\* No entry is in use.
NoEntries == [k \in EntryKeys |-> NoId]
NoContext == [slot |-> NoSlot, generation |-> 0, id |-> NoId, seen |-> NoId,
              flags |-> {}, snapshot |-> NoEntries, key |-> NoId]
NoReply == [kind |-> "none", id |-> NoId]

Records == [id : MaybeId, generation : Generations, expires : Nat,
            entries : [EntryKeys -> MaybeId]]
Contexts == [slot : SessionSlots \union {NoSlot}, generation : Generations,
             id : MaybeId, seen : MaybeId, flags : SUBSET Flags,
             snapshot : [EntryKeys -> MaybeId], key : EntryKeys \union {NoId}]
Replies == [kind : {"none", "set", "clear"}, id : MaybeId]

SessionInit ==
    /\ sessionClock = 0
    /\ store = [s \in SessionSlots |-> [id |-> NoId, generation |-> 0, expires |-> 0,
                                 entries |-> NoEntries]]
    /\ issued = {}
    /\ origin = [i \in SessionIds |-> NoId]
    /\ pc = [r \in SessionRequests |-> "idle"]
    /\ readAt = [r \in SessionRequests |-> 0]
    /\ cookie = [r \in SessionRequests |-> NoId]
    /\ ctx = [r \in SessionRequests |-> NoContext]
    /\ reply = [r \in SessionRequests |-> NoReply]
    /\ published = {} /\ lost = {}

-----------------------------------------------------------------------------
(* Records.  A record is used exactly when its identifier is not empty. *)

\* Zero is skipped when the generation wraps.
GenerationNext(g) == IF g + 1 = GenerationLimit THEN 1 ELSE g + 1

RecordClear(record) ==
    [id |-> NoId, generation |-> GenerationNext(record.generation),
     expires |-> 0, entries |-> NoEntries]

Expiry(t) == IF IdleTimeout > TimeLimit - t THEN TimeLimit ELSE t + IdleTimeout

Expired(record, t) == record.id # NoId /\ record.expires <= t

\* The table once every idle record is cleared.
ExpireLocked(t) ==
    [s \in SessionSlots |-> IF Expired(store[s], t) THEN RecordClear(store[s])
                                             ELSE store[s]]

\* Mutant: the generation alone identifies the record.
RecordMatchesGeneration(c) ==
    /\ c.slot # NoSlot
    /\ store[c.slot].id # NoId
    /\ store[c.slot].generation = c.generation

\* Whether the record a context borrowed is still the one it borrowed.
RecordMatches(c) ==
    /\ c.slot # NoSlot
    /\ store[c.slot].id # NoId
    /\ store[c.slot].generation = c.generation
    /\ store[c.slot].id = c.id

\* The context after it lost its record.
Detached(c, flags) ==
    [c EXCEPT !.slot = NoSlot, !.generation = 0, !.id = NoId, !.flags = flags]

Goto(r, stage) == pc' = [pc EXCEPT ![r] = stage]

\* The mutex is released; the time read before it and the presented identifier
\* go out of scope.
EndCritical(r) ==
    /\ Goto(r, "handler")
    /\ readAt' = [readAt EXCEPT ![r] = 0]
    /\ cookie' = [cookie EXCEPT ![r] = NoId]

\* chttp_server_request_state_reset, once the response is settled.
ResetRequest(r) ==
    /\ Goto(r, "idle")
    /\ ctx' = [ctx EXCEPT ![r] = NoContext]
    /\ reply' = [reply EXCEPT ![r] = NoReply]

-----------------------------------------------------------------------------
SessionTick ==
    /\ sessionClock < SessionTime
    /\ sessionClock' = sessionClock + 1
    /\ UNCHANGED <<store, issued, origin, pc, readAt, cookie, ctx, reply, published, lost>>

\* chttp_session_request_begin up to the mutex: the cookie is one a client
\* received, or there is none.
RequestBegin(r) ==
    /\ pc[r] = "idle"
    /\ \E i \in published \union {NoId} :
          /\ cookie' = [cookie EXCEPT ![r] = i]
          /\ Goto(r, IF i = NoId THEN "handler" ELSE "begin")
    /\ readAt' = [readAt EXCEPT ![r] = sessionClock]
    /\ UNCHANGED <<sessionClock, store, issued, origin, ctx, reply, published, lost>>

\* The cookie names a live record: its expiry slides and the request borrows
\* it.
BeginResolves(r) ==
    LET st == ExpireLocked(readAt[r])
    IN  /\ pc[r] = "begin"
        /\ \E s \in SessionSlots :
              /\ st[s].id = cookie[r]
              /\ store' = [st EXCEPT ![s].expires = Expiry(readAt[r])]
              /\ ctx' = [ctx EXCEPT ![r] =
                    [@ EXCEPT !.slot = s, !.generation = st[s].generation,
                              !.id = st[s].id, !.seen = st[s].id,
                              !.snapshot = st[s].entries]]
        /\ EndCritical(r)
        /\ UNCHANGED <<sessionClock, issued, origin, reply, published, lost>>

\* The cookie names no live record: the request starts without a session.
BeginMisses(r) ==
    LET st == ExpireLocked(readAt[r])
    IN  /\ pc[r] = "begin"
        /\ \A s \in SessionSlots : st[s].id # cookie[r]
        /\ store' = st
        /\ EndCritical(r)
        /\ UNCHANGED <<sessionClock, issued, origin, ctx, reply, published, lost>>

-----------------------------------------------------------------------------
(* The operations of a handler on its request's session. *)

InHandler(r) == pc[r] = "handler" /\ "invalidated" \notin ctx[r].flags

\* chttp_session_set copies into the snapshot, into the key's entry or a free
\* one; with neither it returns ENOBUFS.
EntryStored(c, k) ==
    [c EXCEPT !.snapshot[k] = origin'[c.id], !.flags = @ \union {"dirty"}]

HasRoom(c, k) ==
    \/ c.snapshot[k] # NoId
    \/ Cardinality({j \in EntryKeys : c.snapshot[j] # NoId}) < EntryCapacity

Set(r, k) ==
    /\ InHandler(r) /\ ctx[r].slot # NoSlot /\ HasRoom(ctx[r], k)
    /\ UNCHANGED origin
    /\ ctx' = [ctx EXCEPT ![r] = EntryStored(@, k)]
    /\ UNCHANGED <<sessionClock, store, issued, pc, readAt, cookie, reply, published, lost>>

\* The first set, or a regenerate, of a request without a record creates one:
\* the clock is read before the mutex is taken.
StartCreate(r) ==
    /\ InHandler(r) /\ ctx[r].slot = NoSlot
    /\ \E k \in EntryKeys \union {NoId} : ctx' = [ctx EXCEPT ![r].key = k]
    /\ readAt' = [readAt EXCEPT ![r] = sessionClock]
    /\ Goto(r, "create")
    /\ UNCHANGED <<sessionClock, store, issued, origin, cookie, reply, published, lost>>

\* Mutant: a full table gives a live record away.
FreeInEvicts(st) ==
    LET free == {s \in SessionSlots : st[s].id = NoId}
    IN  IF free = {} THEN SessionSlots ELSE free

FreeIn(st) == {s \in SessionSlots : st[s].id = NoId}

\* A fresh identifier; the generator does not repeat one.
Draw(i, from) ==
    /\ i \in SessionIds \ issued
    /\ issued' = issued \union {i}
    /\ origin' = [origin EXCEPT ![i] = from]

\* chttp_session_create takes the first free slot; the set that asked for it
\* then stores its entry in the empty snapshot.
Create(r) ==
    LET st == ExpireLocked(readAt[r])
        k  == ctx[r].key
    IN  /\ pc[r] = "create"
        /\ \E s \in FreeIn(st), i \in SessionIds :
              LET g == GenerationNext(st[s].generation)
                  c == [ctx[r] EXCEPT !.slot = s, !.generation = g, !.id = i,
                                      !.seen = i, !.flags = {"created"},
                                      !.snapshot = NoEntries, !.key = NoId]
              IN  /\ \A x \in FreeIn(st) : s <= x
                  /\ Draw(i, i)
                  /\ store' = [st EXCEPT ![s] =
                        [id |-> i, generation |-> g, expires |-> Expiry(readAt[r]),
                         entries |-> NoEntries]]
                  /\ ctx' = [ctx EXCEPT ![r] = IF k = NoId THEN c ELSE EntryStored(c, k)]
        /\ EndCritical(r)
        /\ UNCHANGED <<sessionClock, reply, published, lost>>

\* The table is full (ENOBUFS) or no identifier could be drawn; idle records
\* were cleared all the same.
CreateFails(r) ==
    /\ pc[r] = "create"
    /\ store' = ExpireLocked(readAt[r])
    /\ ctx' = [ctx EXCEPT ![r].key = NoId]
    /\ EndCritical(r)
    /\ UNCHANGED <<sessionClock, issued, origin, reply, published, lost>>

Remove(r, k) ==
    /\ InHandler(r) /\ ctx[r].slot # NoSlot /\ ctx[r].snapshot[k] # NoId
    /\ ctx' = [ctx EXCEPT ![r].snapshot[k] = NoId,
                          ![r].flags = @ \union {"dirty"}]
    /\ UNCHANGED <<sessionClock, store, issued, origin, pc, readAt, cookie, reply, published, lost>>

Clear(r) ==
    /\ InHandler(r) /\ ctx[r].slot # NoSlot
    /\ ctx' = [ctx EXCEPT ![r].snapshot = NoEntries,
                          ![r].flags = @ \union {"dirty"}]
    /\ UNCHANGED <<sessionClock, store, issued, origin, pc, readAt, cookie, reply, published, lost>>

\* chttp_session_regenerate renames the borrowed record in place.  A record
\* that is no longer the borrowed one gives ENOENT and changes nothing.
Regenerate(r) ==
    LET s == ctx[r].slot
        g == GenerationNext(store[s].generation)
    IN  /\ InHandler(r) /\ RecordMatches(ctx[r])
        /\ \E i \in SessionIds :
              /\ Draw(i, origin[ctx[r].id])
              /\ store' = [store EXCEPT ![s].id = i, ![s].generation = g,
                                        ![s].expires = Expiry(sessionClock)]
              /\ ctx' = [ctx EXCEPT ![r].id = i, ![r].seen = i, ![r].generation = g,
                                    ![r].flags = @ \union {"created"}]
        /\ UNCHANGED <<sessionClock, pc, readAt, cookie, reply, published, lost>>

\* The record of a context, cleared if the context still owns it.
Dropped(c) ==
    IF RecordMatches(c) THEN [store EXCEPT ![c.slot] = RecordClear(@)] ELSE store

\* Mutant: only what this request created is cleared.
InvalidateKeepsOld(r) ==
    /\ pc[r] = "handler"
    /\ store' = IF "created" \in ctx[r].flags THEN Dropped(ctx[r]) ELSE store
    /\ ctx' = [ctx EXCEPT ![r] =
          [Detached(@, {"invalidated"}) EXCEPT !.snapshot = NoEntries]]
    /\ UNCHANGED <<sessionClock, issued, origin, pc, readAt, cookie, reply, published, lost>>

Invalidate(r) ==
    /\ pc[r] = "handler"
    /\ store' = Dropped(ctx[r])
    /\ ctx' = [ctx EXCEPT ![r] =
          [Detached(@, {"invalidated"}) EXCEPT !.snapshot = NoEntries]]
    /\ UNCHANGED <<sessionClock, issued, origin, pc, readAt, cookie, reply, published, lost>>

-----------------------------------------------------------------------------
(* The end of a request. *)

\* chttp_session_request_finish without a record: no cookie, or an empty one
\* when the handler invalidated the session.
FinishWithout(r) ==
    /\ pc[r] = "handler" /\ ctx[r].slot = NoSlot
    /\ IF "invalidated" \in ctx[r].flags
       THEN /\ reply' = [reply EXCEPT ![r] = [kind |-> "clear", id |-> NoId]]
            /\ Goto(r, "cookie")
       ELSE Goto(r, "serialize") /\ UNCHANGED reply
    /\ UNCHANGED <<sessionClock, store, issued, origin, readAt, cookie, ctx, published, lost>>

\* The record is still the borrowed one: a dirty snapshot replaces its
\* entries and its expiry slides.
FinishCommits(r) ==
    LET s == ctx[r].slot
    IN  /\ pc[r] = "handler" /\ RecordMatches(ctx[r])
        /\ store' = [store EXCEPT
              ![s].entries = IF "dirty" \in ctx[r].flags THEN ctx[r].snapshot ELSE @,
              ![s].expires = Expiry(sessionClock)]
        /\ reply' = [reply EXCEPT ![r] = [kind |-> "set", id |-> store[s].id]]
        /\ Goto(r, "cookie")
        /\ UNCHANGED <<sessionClock, issued, origin, readAt, cookie, ctx, published, lost>>

\* The record is gone or was renamed: the request forgets it and its response
\* clears the cookie.
FinishStale(r) ==
    /\ pc[r] = "handler" /\ ctx[r].slot # NoSlot /\ ~RecordMatches(ctx[r])
    /\ ctx' = [ctx EXCEPT ![r] = Detached(@, {"invalidated"})]
    /\ reply' = [reply EXCEPT ![r] = [kind |-> "clear", id |-> NoId]]
    /\ Goto(r, "cookie")
    /\ UNCHANGED <<sessionClock, store, issued, origin, readAt, cookie, published, lost>>

\* chttp_session_set_cookie adds the header after the mutex is released.
SetCookie(r) ==
    /\ pc[r] = "cookie"
    /\ ctx' = [ctx EXCEPT ![r].flags = @ \ {"created", "dirty"}]
    /\ Goto(r, "serialize")
    /\ UNCHANGED <<sessionClock, store, issued, origin, readAt, cookie, reply, published, lost>>

\* Mutant: an aborted request leaves what it created.
DiscardNothing(r) == store' = store

\* chttp_session_discard_created: what the request created goes with it.
DiscardCreated(r) ==
    store' = IF "created" \in ctx[r].flags THEN Dropped(ctx[r]) ELSE store

\* chttp_session_request_abort, followed by an error response without a cookie.
Abort(r) ==
    /\ DiscardCreated(r)
    /\ ctx' = [ctx EXCEPT ![r] = Detached(@, @.flags \ {"created", "dirty"})]
    /\ reply' = [reply EXCEPT ![r] = NoReply]
    /\ Goto(r, "serialize")
    /\ UNCHANGED <<sessionClock, issued, origin, readAt, cookie, published, lost>>

\* The handler failed or its deadline passed.
HandlerFails(r) == pc[r] = "handler" /\ Abort(r)

\* The header table is full: the status of finish makes dispatch abort.
SetCookieFails(r) == pc[r] = "cookie" /\ Abort(r)

\* The response reaches the client and the request state is reset.
SendReply(r) ==
    /\ pc[r] = "serialize"
    /\ published' = IF reply[r].kind = "set" THEN published \union {reply[r].id}
                                             ELSE published
    /\ ResetRequest(r)
    /\ UNCHANGED <<sessionClock, store, issued, origin, readAt, cookie, lost>>

\* There is no room for the response (outbound buffer, H2 submission): its
\* bytes never leave.  The abort that follows finds nothing marked created.
PublishFails(r) ==
    /\ pc[r] = "serialize" /\ Cardinality(lost) < MaxLost
    /\ DiscardCreated(r)
    /\ lost' = IF reply[r].kind = "set" THEN lost \union {reply[r].id} ELSE lost
    /\ ResetRequest(r)
    /\ UNCHANGED <<sessionClock, issued, origin, readAt, cookie, published>>

-----------------------------------------------------------------------------
Handler(r) ==
    \/ \E k \in EntryKeys : Set(r, k) \/ Remove(r, k)
    \/ StartCreate(r) \/ Create(r) \/ CreateFails(r)
    \/ Clear(r) \/ Regenerate(r) \/ Invalidate(r)

Finish(r) ==
    \/ FinishWithout(r) \/ FinishCommits(r) \/ FinishStale(r)
    \/ SetCookie(r) \/ SetCookieFails(r) \/ HandlerFails(r)
    \/ SendReply(r) \/ PublishFails(r)

SessionNext ==
    \/ SessionTick
    \/ \E r \in SessionRequests :
          \/ RequestBegin(r) \/ BeginResolves(r) \/ BeginMisses(r)
          \/ Handler(r) \/ Finish(r)

SessionSpec == SessionInit /\ [][SessionNext]_sessionVars

-----------------------------------------------------------------------------
(* Properties. *)

\* A session's entries, and the snapshot a request reads through
\* chttp_session_get, hold only values that session itself wrote, although
\* slots are reused, records renamed and the generation wraps while requests
\* hold stale contexts.
SessionsIsolated ==
    /\ \A s \in SessionSlots, k \in EntryKeys :
          store[s].id # NoId => store[s].entries[k] \in {NoId, origin[store[s].id]}
    /\ \A r \in SessionRequests, k \in EntryKeys :
          ctx[r].slot # NoSlot =>
             ctx[r].snapshot[k] \in {NoId, origin[ctx[r].id]}

\* A request in flight still holds the record in slot s, or is about to send
\* its identifier.
InFlight(s) ==
    \E r \in SessionRequests :
       /\ pc[r] # "idle"
       /\ \/ RecordMatches(ctx[r]) /\ ctx[r].slot = s
          \/ reply[r] = [kind |-> "set", id |-> store[s].id]

\* Outside its own request, a live identifier is one its client received, or
\* one whose response was lost on its way: what chttp_session_set or
\* regenerate created in a request that failed is discarded, never left under
\* an identifier nobody was to have.
NoOrphan ==
    \A s \in SessionSlots :
       store[s].id \notin published \union lost \union {NoId} => InFlight(s)

\* The same for a renamed session, as chttp_session_regenerate documents it:
\* when the response cannot publish the new identifier the session is
\* discarded.
RegenerationFailsClosed ==
    \A s \in SessionSlots :
       /\ store[s].id \notin published \union {NoId}
       /\ origin[store[s].id] # store[s].id
       => InFlight(s)

\* A response clears the client's cookie only when the identifier its request
\* worked with no longer resolves, and it never will again.
ClearMeansGone ==
    \A r \in SessionRequests :
       pc[r] \in {"cookie", "serialize"} /\ reply[r].kind = "clear" =>
          ctx[r].seen = NoId \/ \A s \in SessionSlots : store[s].id # ctx[r].seen

\* A full table never evicts: a record leaves the table or changes its name
\* only after its idle timeout or by a request that holds it.
NoEviction ==
    [][\A s \in SessionSlots :
          store[s].id # NoId /\ store'[s].id # store[s].id =>
             \/ store[s].expires <= sessionClock
             \/ \E r \in SessionRequests :
                   /\ RecordMatches(ctx[r]) /\ ctx[r].slot = s
                   /\ ctx'[r] # ctx[r]]_sessionVars

=============================================================================
