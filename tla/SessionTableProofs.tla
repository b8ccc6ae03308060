------------------------- MODULE SessionTableProofs -------------------------
(***************************************************************************)
(* The invariant of the session table, and the four ways in which a step   *)
(* of a request keeps it: it lets go of its record, it ends, it keeps what *)
(* it has, or it gives a record a fresh name. SessionStoreProofs shows     *)
(* that every operation is one of these, and states the theorems.          *)
(***************************************************************************)
EXTENDS SessionStore, TLAPS

-----------------------------------------------------------------------------
(* What the invariant reads of a record, of a context and of a response.   *)
(* The proofs expand these only where an operation assigns them.           *)

Id(s) == store[s].id
Gen(s) == store[s].generation
Idle(s) == store[s].expires <= sessionClock
Sound(s) == \A k \in EntryKeys : store[s].entries[k] \in {NoId, origin[store[s].id]}

Slot(r) == ctx[r].slot
Name(r) == ctx[r].id
Era(r) == ctx[r].generation
Seen(r) == ctx[r].seen
Dead(r) == "invalidated" \in ctx[r].flags
Fresh(r) == "created" \in ctx[r].flags
Reads(r) == \A k \in EntryKeys : ctx[r].snapshot[k] \in {NoId, origin[ctx[r].id]}

Kind(r) == reply[r].kind
Sent(r) == reply[r].id

\* RecordMatches(ctx[r]) for the record in slot s.
Matches(r, s) == Slot(r) = s /\ s # NoSlot /\ Id(s) # NoId /\ Gen(s) = Era(r) /\ Id(s) = Name(r)

\* Request r is the one that InFlight(s) speaks of.
Holds(r, s) == pc[r] # "idle" /\ (Matches(r, s) \/ (Kind(r) = "set" /\ Sent(r) = Id(s)))

-----------------------------------------------------------------------------
(* The inductive invariant *)

\* The types of what belongs to the requests, and of the rest.
RequestTypes ==
    /\ pc \in [SessionRequests -> Stages]
    /\ readAt \in [SessionRequests -> Nat]
    /\ cookie \in [SessionRequests -> MaybeId]
    /\ ctx \in [SessionRequests -> Contexts]
    /\ reply \in [SessionRequests -> Replies]

SessionTypes ==
    /\ sessionClock \in Nat
    /\ store \in [SessionSlots -> Records]
    /\ issued \subseteq SessionIds /\ published \subseteq issued /\ lost \subseteq issued
    /\ origin \in [SessionIds -> MaybeId]
    /\ RequestTypes

\* Every live record has a name of its own, and holds its own session's values.
TableInv ==
    \A s \in SessionSlots :
       /\ Id(s) \in issued \union {NoId}
       /\ Id(s) # NoId => Sound(s) /\ \A t \in SessionSlots : Id(t) = Id(s) => t = s

Answering == {"cookie", "serialize"}
Recordless == {"idle", "begin", "create"}

\* A request without a record.
Bare(r) ==
    /\ Kind(r) # "set"
    /\ ~Dead(r) /\ pc[r] \notin Answering => Seen(r) = NoId

\* A request that borrowed a record: whatever record bears its identifier now
\* is the borrowed one, and only this request's own response, or one sent
\* before, can have carried the identifier.
Borrowing(r) ==
    /\ Name(r) # NoId /\ Seen(r) = Name(r) /\ ~Dead(r) /\ Reads(r)
    /\ \A s \in SessionSlots : Id(s) = Name(r) => s = Slot(r) /\ Gen(s) = Era(r)
    /\ pc[r] \in Answering => Kind(r) = "set" /\ Sent(r) = Name(r)
    /\ Name(r) \in published \/ Fresh(r) \/ pc[r] = "serialize"

RequestInv(r) ==
    /\ readAt[r] <= sessionClock
    /\ cookie[r] \in issued \union {NoId} /\ Name(r) \in issued \union {NoId}
    /\ Seen(r) \in issued \union {NoId} /\ Sent(r) \in issued \union {NoId}
    /\ pc[r] = "begin" => cookie[r] \in published
    /\ pc[r] \in Recordless => Slot(r) = NoSlot /\ ~Dead(r)
    /\ pc[r] \notin Answering => Kind(r) = "none" /\ Sent(r) = NoId
    /\ Slot(r) = NoSlot => Bare(r)
    /\ Slot(r) # NoSlot => Borrowing(r)
    /\ Kind(r) = "clear" => Dead(r)
    /\ Dead(r) => Seen(r) = NoId \/ \A s \in SessionSlots : Id(s) # Seen(r)

SessionInv ==
    /\ SessionTypes /\ TableInv
    /\ \A r \in SessionRequests : RequestInv(r)
    /\ \A s \in SessionSlots :
          Id(s) \notin published \union lost \union {NoId} => \E r \in SessionRequests : Holds(r, s)

-----------------------------------------------------------------------------
(* What a step of request r does *)

\* A record that stays keeps its generation; a new name is a fresh one.
Evolves ==
    /\ issued \subseteq issued' /\ published \subseteq published' /\ lost \subseteq lost'
    /\ sessionClock <= sessionClock'
    /\ \A i \in issued : origin'[i] = origin[i]
    /\ \A s \in SessionSlots :
          /\ Id(s)' \in {NoId, Id(s)} \union (issued' \ issued)
          /\ Id(s)' # NoId /\ Id(s)' = Id(s) => Gen(s)' = Gen(s)

\* Request q does not move.
Still(q) ==
    /\ pc'[q] = pc[q] /\ readAt'[q] = readAt[q] /\ cookie'[q] = cookie[q]
    /\ ctx'[q] = ctx[q] /\ reply'[q] = reply[q]

\* The requests keep their types, and only r moves.
MovesAlone(r) == RequestTypes' /\ \A q \in SessionRequests \ {r} : Still(q)

\* What request r holds, it holds until it is published, lost or gone.
KeepsClaims(r) ==
    \A s \in SessionSlots :
       /\ Id(s)' \notin published' \union lost' \union {NoId}
       /\ Holds(r, s) \/ Id(s)' # Id(s)
       => Holds(r, s)'

\* A record goes after its idle timeout, or because r, which holds it, lets go.
NoneEvicted(r) ==
    \A s \in SessionSlots :
       Id(s) # NoId /\ Id(s)' # Id(s) =>
          Idle(s) \/ (Matches(r, s) /\ (Slot(r)' # Slot(r) \/ Name(r)' # Name(r)))

\* What is shown of each step of request r.
RequestStep(r) ==
    SessionTypes' /\ TableInv' /\ Evolves /\ MovesAlone(r) /\ RequestInv(r)' /\ KeepsClaims(r) /\ NoneEvicted(r)

\* A request that does not move keeps its parts.
LEMMA StillParts ==
  ASSUME NEW q, Still(q)
  PROVE  /\ Slot(q)' = Slot(q) /\ Name(q)' = Name(q) /\ Era(q)' = Era(q) /\ Seen(q)' = Seen(q)
         /\ Kind(q)' = Kind(q) /\ Sent(q)' = Sent(q)
         /\ (Dead(q)' <=> Dead(q)) /\ (Fresh(q)' <=> Fresh(q))
  BY Zenon DEF Still, Slot, Name, Era, Seen, Kind, Sent, Dead, Fresh

\* And its snapshot, as long as its session keeps its origin.
LEMMA StillReads ==
  ASSUME NEW q, ctx'[q] = ctx[q], origin'[Name(q)] = origin[Name(q)], Reads(q)
  PROVE  Reads(q)'
  BY Zenon DEF Reads, Name

\* A request that does not move keeps its invariant.
LEMMA OtherRequest ==
  ASSUME SessionInv, Evolves, NEW q \in SessionRequests, Still(q), issued' \subseteq SessionIds,
         sessionClock' \in Nat
  PROVE  RequestInv(q)'
<1>1. /\ RequestInv(q) /\ Name(q) \in issued \union {NoId} /\ Seen(q) \in issued \union {NoId}
      /\ NoId \notin issued /\ NoId \notin issued' /\ readAt[q] \in Nat /\ sessionClock \in Nat
  BY IdsAssumption DEF SessionInv, RequestInv, SessionTypes, RequestTypes
<1>2. pc'[q] = pc[q] /\ readAt'[q] = readAt[q] /\ cookie'[q] = cookie[q] /\ ctx'[q] = ctx[q]
  BY DEF Still
<1>3. Slot(q) # NoSlot => Borrowing(q)'
  <2> SUFFICES ASSUME Slot(q) # NoSlot PROVE Borrowing(q)'
    OBVIOUS
  <2>1. Borrowing(q) /\ Name(q) \in issued
    BY <1>1 DEF RequestInv, Borrowing
  <2>2. \A s \in SessionSlots : Id(s)' = Name(q) => Id(s) = Name(q) /\ Gen(s)' = Gen(s)
    BY <1>1, <2>1 DEF Evolves
  <2>3. Reads(q)' /\ published \subseteq published'
    BY <1>2, <2>1, StillReads DEF Borrowing, Evolves
  <2> QED
    BY <1>2, <2>1, <2>2, <2>3, StillParts DEF Borrowing
<1>4. Slot(q) = NoSlot => Bare(q)'
  BY <1>1, <1>2, StillParts DEF RequestInv, Bare
<1>5. Dead(q) => Seen(q) = NoId \/ \A s \in SessionSlots : Id(s)' # Seen(q)
  BY <1>1 DEF RequestInv, Evolves
<1>6. readAt[q] <= sessionClock' /\ issued \subseteq issued' /\ published \subseteq published'
  BY <1>1 DEF RequestInv, Evolves
<1> QED
  BY <1>1, <1>2, <1>3, <1>4, <1>5, <1>6, StillParts DEF RequestInv

\* A step of a request keeps the invariant.
LEMMA StepKeeps ==
  ASSUME SessionInv, NEW r \in SessionRequests, RequestStep(r)
  PROVE  SessionInv'
<1>1. SessionTypes' /\ TableInv' /\ Evolves /\ MovesAlone(r) /\ RequestInv(r)' /\ KeepsClaims(r)
  BY DEF RequestStep
<1>2. \A q \in SessionRequests \ {r} : Still(q)
  BY <1>1 DEF MovesAlone
<1>3. ASSUME NEW q \in SessionRequests PROVE RequestInv(q)'
  <2>1. issued' \subseteq SessionIds /\ sessionClock' \in Nat
    BY <1>1 DEF SessionTypes
  <2> QED
    BY <1>1, <1>2, <2>1, OtherRequest
<1>4. ASSUME NEW s \in SessionSlots, Id(s)' \notin published' \union lost' \union {NoId}
      PROVE  \E q \in SessionRequests : Holds(q, s)'
  <2>1. CASE Id(s)' # Id(s) \/ Holds(r, s)
    BY <1>1, <1>4, <2>1 DEF KeepsClaims
  <2>2. CASE Id(s)' = Id(s) /\ ~Holds(r, s)
    <3>1. Id(s) \notin published \union lost \union {NoId} /\ Gen(s)' = Gen(s)
      BY <1>1, <1>4, <2>2 DEF Evolves
    <3>2. PICK q \in SessionRequests : Holds(q, s)
      BY <3>1 DEF SessionInv
    <3>3. Still(q) /\ pc'[q] = pc[q]
      BY <1>2, <2>2, <3>2 DEF Still
    <3> QED
      BY <2>2, <3>1, <3>2, <3>3, StillParts DEF Holds, Matches
  <2> QED
    BY <2>1, <2>2
<1> QED
  BY <1>1, <1>3, <1>4 DEF SessionInv

-----------------------------------------------------------------------------
(* What a step does to the table *)

\* The record in slot s is gone, or still the same session's.
Stays(s) == Id(s)' = NoId \/ (Id(s)' = Id(s) /\ Gen(s)' = Gen(s) /\ Sound(s)')

\* No record takes a name.
TableStays ==
    /\ store' \in [SessionSlots -> Records] /\ \A s \in SessionSlots : Stays(s)
    /\ UNCHANGED <<sessionClock, issued, origin>>

\* Slot s takes the fresh name i, for a session that began as o.
TakesName(s, i, o) ==
    /\ store' \in [SessionSlots -> Records] /\ \A x \in SessionSlots \ {s} : Stays(x)
    /\ s \in SessionSlots /\ Id(s)' = i /\ Sound(s)'
    /\ i \in SessionIds \ issued /\ issued' = issued \union {i}
    /\ o \in MaybeId /\ origin' = [origin EXCEPT ![i] = o]
    /\ UNCHANGED <<sessionClock, published, lost>>

\* A record whose fields do not change stays.
LEMMA SameStays ==
  ASSUME NEW s, store'[s].id = store[s].id, store'[s].generation = store[s].generation,
         store'[s].entries = store[s].entries, origin'[Id(s)] = origin[Id(s)], Id(s) # NoId => Sound(s)
  PROVE  Stays(s)
  BY Zenon DEF Stays, Id, Gen, Sound

\* A table in which no record takes a name keeps its invariant.
LEMMA TableKept ==
  ASSUME SessionInv, TableStays, published \subseteq published', lost \subseteq lost'
  PROVE  TableInv' /\ Evolves
<1>1. TableInv /\ sessionClock \in Nat
  BY DEF SessionInv, SessionTypes
<1>2. TableInv'
  BY <1>1 DEF TableInv, TableStays, Stays
<1>3. Evolves
  BY <1>1 DEF Evolves, TableStays, Stays
<1> QED
  BY <1>2, <1>3

\* And one in which a slot takes a fresh name.
LEMMA TableNamed ==
  ASSUME SessionInv, NEW s, NEW i, NEW o, TakesName(s, i, o)
  PROVE  TableInv' /\ Evolves
<1>1. TableInv /\ sessionClock \in Nat /\ i # NoId /\ origin \in [SessionIds -> MaybeId] /\ issued \subseteq SessionIds
  BY IdsAssumption DEF SessionInv, SessionTypes, TakesName
<1>2. \A j \in issued : origin'[j] = origin[j]
  BY <1>1 DEF TakesName
<1>3. \A x \in SessionSlots \ {s} : Id(x)' # NoId => Id(x)' = Id(x) /\ Id(x) \in issued /\ Gen(x)' = Gen(x) /\ Sound(x)'
  BY <1>1 DEF TakesName, Stays, TableInv
<1>4. /\ s \in SessionSlots /\ Id(s)' = i /\ Sound(s)' /\ i \in SessionIds \ issued /\ issued' = issued \union {i}
      /\ UNCHANGED <<sessionClock, published, lost>>
  BY DEF TakesName
<1>5. TableInv'
  BY <1>1, <1>3, <1>4 DEF TableInv
<1>6. Id(s) # i
  BY <1>1, <1>4 DEF TableInv
<1>7. Evolves
  BY <1>1, <1>2, <1>3, <1>4, <1>6 DEF Evolves
<1> QED
  BY <1>5, <1>7

\* What a request holds is the record it borrowed.
LEMMA HeldIsBorrowed ==
  ASSUME SessionInv, NEW r \in SessionRequests, NEW s \in SessionSlots, Id(s) # NoId, Holds(r, s)
  PROVE  /\ Matches(r, s) /\ Borrowing(r) /\ pc[r] \notin Recordless
         /\ pc[r] \in Answering => Kind(r) = "set" /\ Sent(r) = Id(s)
<1>1. RequestInv(r)
  BY DEF SessionInv
<1>2. CASE Matches(r, s)
  BY <1>1, <1>2 DEF Matches, RequestInv, Borrowing
<1>3. CASE Kind(r) = "set" /\ Sent(r) = Id(s)
  <2>1. pc[r] \in Answering /\ Slot(r) # NoSlot
    BY <1>1, <1>3 DEF RequestInv, Bare
  <2>2. Borrowing(r) /\ Name(r) = Id(s)
    BY <1>1, <1>3, <2>1 DEF RequestInv, Borrowing
  <2> QED
    BY <1>1, <1>3, <2>1, <2>2 DEF RequestInv, Borrowing, Matches
<1> QED
  BY <1>2, <1>3 DEF Holds

-----------------------------------------------------------------------------
(* The four kinds of step *)

\* Request r, past its handler's start, goes on without a record, which it
\* discards if nobody received its name.
LetsGo(r) ==
    /\ MovesAlone(r) /\ TableStays /\ UNCHANGED <<published, lost>>
    /\ readAt'[r] = readAt[r] /\ cookie'[r] = cookie[r]
    /\ pc[r] \in {"handler", "cookie"} /\ pc'[r] \in {"handler", "cookie", "serialize"}
    /\ \A s \in SessionSlots : Id(s)' # Id(s) => Matches(r, s)
    /\ \A s \in SessionSlots : Fresh(r) /\ Matches(r, s) => Id(s)' = NoId
    /\ Slot(r)' = NoSlot /\ Name(r)' = NoId /\ Seen(r)' = Seen(r) /\ Sent(r)' = NoId
    /\ Kind(r)' \in {"none", "clear"} /\ (Kind(r)' = "clear" => Dead(r)')
    /\ pc'[r] = "handler" => Kind(r)' = "none" /\ Dead(r)'
    /\ Dead(r)' => Dead(r) \/ Seen(r) = NoId \/ \A s \in SessionSlots : Id(s)' # Seen(r)

\* Such a step is one of a request.
LEMMA LetGoStep ==
  ASSUME SessionInv, NEW r \in SessionRequests, LetsGo(r)
  PROVE  RequestStep(r)
<1>1. SessionTypes /\ RequestInv(r)
  BY DEF SessionInv
<1>2. TableStays /\ MovesAlone(r) /\ UNCHANGED <<sessionClock, issued, origin, published, lost>>
  BY DEF LetsGo, TableStays
<1>3. TableInv' /\ Evolves
  BY <1>2, TableKept
<1>4. SessionTypes'
  BY <1>1, <1>2 DEF SessionTypes, TableStays, MovesAlone
<1>5. \A s \in SessionSlots : Id(s)' # NoId => Id(s)' = Id(s)
  BY <1>2 DEF TableStays, Stays
<1>6. RequestInv(r)'
  <2>1. Bare(r)'
    BY DEF LetsGo, Bare, Answering
  <2>2. Dead(r)' => Seen(r) = NoId \/ \A s \in SessionSlots : Id(s)' # Seen(r)
    BY <1>1, <1>5 DEF LetsGo, RequestInv
  <2> QED
    BY <1>1, <1>2, <2>1, <2>2 DEF LetsGo, RequestInv, Recordless, Answering
<1>7. KeepsClaims(r)
  <2> SUFFICES ASSUME NEW s \in SessionSlots, Id(s)' \notin published' \union lost' \union {NoId},
                      Holds(r, s) \/ Id(s)' # Id(s)
               PROVE  FALSE
    BY DEF KeepsClaims
  <2>1. Id(s)' = Id(s) /\ Holds(r, s)
    BY <1>5
  <2>2. Matches(r, s) /\ Borrowing(r)
    BY <2>1, HeldIsBorrowed
  <2>3. Fresh(r)
    BY <1>2, <2>1, <2>2 DEF LetsGo, Borrowing, Matches
  <2> QED
    BY <2>2, <2>3 DEF LetsGo
<1>8. NoneEvicted(r)
  BY DEF LetsGo, NoneEvicted, Matches
<1> QED
  BY <1>2, <1>3, <1>4, <1>6, <1>7, <1>8 DEF RequestStep

\* Request r ends: its response, if it names a record, is sent or lost.
Ends(r) ==
    /\ MovesAlone(r) /\ TableStays /\ readAt'[r] = readAt[r] /\ cookie'[r] = cookie[r]
    /\ published \subseteq published' /\ published' \subseteq issued
    /\ lost \subseteq lost' /\ lost' \subseteq issued
    /\ Kind(r) = "set" => Sent(r) \in published' \union lost'
    /\ pc[r] = "serialize" /\ pc'[r] = "idle"
    /\ \A s \in SessionSlots : Id(s)' # Id(s) => Matches(r, s)
    /\ Slot(r)' = NoSlot /\ Name(r)' = NoId /\ Seen(r)' = NoId /\ ~Dead(r)' /\ Kind(r)' = "none" /\ Sent(r)' = NoId

\* Such a step is one of a request.
LEMMA EndStep ==
  ASSUME SessionInv, NEW r \in SessionRequests, Ends(r)
  PROVE  RequestStep(r)
<1>1. SessionTypes /\ RequestInv(r)
  BY DEF SessionInv
<1>2. TableStays /\ MovesAlone(r) /\ UNCHANGED <<sessionClock, issued, origin>>
  BY DEF Ends, TableStays
<1>3. TableInv' /\ Evolves
  BY <1>2, TableKept DEF Ends
<1>4. SessionTypes'
  BY <1>1, <1>2 DEF SessionTypes, TableStays, MovesAlone, Ends
<1>5. RequestInv(r)'
  BY <1>1, <1>2 DEF Ends, RequestInv, Bare, Answering
<1>6. KeepsClaims(r)
  <2> SUFFICES ASSUME NEW s \in SessionSlots, Id(s)' \notin published' \union lost' \union {NoId},
                      Holds(r, s) \/ Id(s)' # Id(s)
               PROVE  FALSE
    BY DEF KeepsClaims
  <2>1. Id(s)' = Id(s) /\ Holds(r, s)
    BY <1>2 DEF TableStays, Stays
  <2>2. Kind(r) = "set" /\ Sent(r) = Id(s)
    BY <2>1, HeldIsBorrowed DEF Ends, Answering
  <2> QED
    BY <2>1, <2>2 DEF Ends
<1>7. NoneEvicted(r)
  BY DEF Ends, NoneEvicted, Matches
<1> QED
  BY <1>2, <1>3, <1>4, <1>5, <1>6, <1>7 DEF RequestStep

\* Request r keeps what it borrowed, or has borrowed nothing yet.
Keeps(r) ==
    /\ MovesAlone(r) /\ TableStays /\ UNCHANGED <<published, lost>>
    /\ \A s \in SessionSlots : Id(s)' # Id(s) => Idle(s)
    /\ \/ pc[r] \in Recordless
       \/ /\ Slot(r)' = Slot(r) /\ Era(r)' = Era(r) /\ Name(r)' = Name(r) /\ pc'[r] # "idle"
          /\ Kind(r) = "set" => Kind(r)' = "set" /\ Sent(r)' = Sent(r)

\* Such a step is one of a request, if it keeps the request's invariant.
LEMMA KeepStep ==
  ASSUME SessionInv, NEW r \in SessionRequests, Keeps(r), RequestInv(r)'
  PROVE  RequestStep(r)
<1>1. SessionTypes /\ TableStays /\ MovesAlone(r) /\ UNCHANGED <<sessionClock, issued, origin, published, lost>>
  BY DEF SessionInv, Keeps, TableStays
<1>2. TableInv' /\ Evolves
  BY <1>1, TableKept
<1>3. SessionTypes'
  BY <1>1 DEF SessionTypes, TableStays, MovesAlone
<1>4. KeepsClaims(r)
  <2> SUFFICES ASSUME NEW s \in SessionSlots, Id(s)' \notin published' \union lost' \union {NoId},
                      Holds(r, s) \/ Id(s)' # Id(s)
               PROVE  Holds(r, s)'
    BY DEF KeepsClaims
  <2>1. Id(s)' = Id(s) /\ Gen(s)' = Gen(s) /\ Id(s) # NoId /\ Holds(r, s)
    BY <1>1 DEF TableStays, Stays
  <2>2. pc[r] \notin Recordless
    BY <2>1, HeldIsBorrowed
  <2> QED
    BY <2>1, <2>2 DEF Keeps, Holds, Matches
<1>5. NoneEvicted(r)
  BY DEF Keeps, NoneEvicted
<1> QED
  BY <1>1, <1>2, <1>3, <1>4, <1>5 DEF RequestStep

\* Request r gives slot s the fresh name i and borrows it: a new record, or
\* the one it held.
TakesRecord(r, s, i) ==
    /\ MovesAlone(r) /\ readAt'[r] \in 0 .. sessionClock /\ cookie'[r] \in {NoId, cookie[r]}
    /\ pc[r] = "create" \/ Slot(r) = s
    /\ \A x \in SessionSlots : Id(x) # NoId /\ Id(x)' # Id(x) => Idle(x) \/ Matches(r, x)
    /\ pc'[r] = "handler" /\ Kind(r)' = "none" /\ Sent(r)' = NoId
    /\ Slot(r)' = s /\ Name(r)' = i /\ Seen(r)' = i /\ Era(r)' = Gen(s)' /\ Fresh(r)' /\ ~Dead(r)' /\ Reads(r)'

\* Such a step is one of a request.
LEMMA NameStep ==
  ASSUME SessionInv, NEW r \in SessionRequests, NEW s, NEW i, NEW o, TakesName(s, i, o), TakesRecord(r, s, i)
  PROVE  RequestStep(r)
<1>1. SessionTypes /\ RequestInv(r) /\ MovesAlone(r)
  BY DEF SessionInv, TakesRecord
<1>2. TableInv' /\ Evolves
  BY TableNamed
<1>3. /\ s \in SessionSlots /\ Id(s)' = i /\ i \in SessionIds \ issued /\ issued' = issued \union {i}
      /\ UNCHANGED <<sessionClock, published, lost>>
  BY DEF TakesName
<1>4. i # NoId /\ s # NoSlot /\ i \notin published /\ i # Name(r)
  BY <1>1, <1>3, IdsAssumption, CapacityAssumption DEF SessionSlots, NoSlot, SessionTypes, RequestInv
<1>5. SessionTypes'
  <2>1. origin' \in [SessionIds -> MaybeId] /\ store' \in [SessionSlots -> Records]
    BY <1>1 DEF SessionTypes, TakesName
  <2> QED
    BY <1>1, <1>3, <2>1 DEF SessionTypes, MovesAlone
<1>6. RequestInv(r)'
  <2>1. Borrowing(r)'
    <3>1. \A x \in SessionSlots : Id(x)' = i => x = s
      BY <1>2, <1>3, <1>4 DEF TableInv
    <3> QED
      BY <1>4, <3>1 DEF Borrowing, TakesRecord, Answering
  <2>2. cookie'[r] \in issued' \union {NoId} /\ i \in issued'
    BY <1>1, <1>3 DEF RequestInv, TakesRecord
  <2>3. readAt'[r] <= sessionClock'
    BY <1>1, <1>3 DEF TakesRecord, SessionTypes
  <2> QED
    BY <1>4, <2>1, <2>2, <2>3 DEF RequestInv, TakesRecord, Recordless, Answering
<1>7. KeepsClaims(r)
  <2> SUFFICES ASSUME NEW x \in SessionSlots, Id(x)' \notin published' \union lost' \union {NoId},
                      Holds(r, x) \/ Id(x)' # Id(x)
               PROVE  Holds(r, x)'
    BY DEF KeepsClaims
  <2>1. CASE x = s
    BY <1>3, <1>4, <2>1 DEF Holds, Matches, TakesRecord
  <2>2. CASE x # s
    <3>1. Holds(r, x) /\ Id(x) # NoId
      BY <2>2 DEF TakesName, Stays
    <3>2. Matches(r, x) /\ pc[r] \notin Recordless
      BY <3>1, HeldIsBorrowed
    <3> QED
      BY <2>2, <3>2 DEF TakesRecord, Matches, Recordless
  <2> QED
    BY <2>1, <2>2
<1>8. NoneEvicted(r)
  BY <1>4 DEF NoneEvicted, TakesRecord
<1> QED
  BY <1>1, <1>2, <1>5, <1>6, <1>7, <1>8 DEF RequestStep

=============================================================================
