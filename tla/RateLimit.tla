------------------------------ MODULE RateLimit ------------------------------
(***************************************************************************)
(* The built-in rate limiter (src/http_server/src/chttp_rate_limit.c): a   *)
(* bounded table of token buckets, searched and refilled lazily under a    *)
(* mutex by the server owners that share it.  Credit is counted in         *)
(* millisecond-tokens: a token costs refill_period_ms, and every           *)
(* millisecond adds refill_tokens, so that fractions are kept.             *)
(***************************************************************************)
EXTENDS Integers

CONSTANTS
    RateOwners,     \* server owners that share the limiter
    Identities,     \* identities
    NoIdentity,     \* the key of an unused slot
    GroupCapacity,  \* the largest group_capacity
    Limiters,       \* the limiters: group_capacity, the owners that share it and
                    \* the identities that call
    Burst, RefillTokens, RefillPeriod,
    Second,         \* RATE_MS_PER_SECOND
    RateTime        \* bound: the clock stops here

ASSUME RateAssumption ==
    /\ {GroupCapacity, Burst, RefillTokens, RefillPeriod, Second} \subseteq Nat \ {0}
    /\ RateTime \in Nat
    /\ NoIdentity \notin Identities
    /\ \A l \in Limiters : /\ l.capacity \in 1 .. GroupCapacity
                          /\ l.owners \subseteq RateOwners
                          /\ l.identities \subseteq Identities

RateSlots == 1 .. GroupCapacity
FullCredit == Burst * RefillPeriod

VARIABLES
    limiter,   \* fixed: the limiter, an element of Limiters
    rateClock, \* cmeta_monotonic_ms
    readTime,  \* per caller: the time it has read, or -1 between calls
    arg,       \* per caller: the identity of its request
    last,      \* last_ms
    used,      \* number of slots in use
    key, credit, updated,   \* the slots
    granted,   \* history: admissions per identity
    decision   \* history: the last decision the table took, with the time a
               \* 429 asks the client to wait for

slotVars == <<used, key, credit, updated>>
rateVars == <<limiter, rateClock, readTime, arg, last, used, key, credit, updated, granted,
              decision>>

CeilDiv(value, divisor) ==
    value \div divisor + (IF value % divisor # 0 THEN 1 ELSE 0)

RateInit ==
    /\ limiter \in Limiters
    /\ rateClock = 0 /\ last = 0 /\ used = 0
    /\ readTime = [c \in RateOwners |-> -1]
    /\ arg = [c \in RateOwners |-> NoIdentity]
    /\ key = [i \in RateSlots |-> NoIdentity]
    /\ credit = [i \in RateSlots |-> 0]
    /\ updated = [i \in RateSlots |-> 0]
    /\ granted = [k \in Identities |-> 0]
    /\ decision = [key |-> NoIdentity, kind |-> "none", wait |-> 0]

RateTick ==
    /\ rateClock < RateTime
    /\ rateClock' = rateClock + 1
    /\ UNCHANGED <<readTime, arg, last, slotVars, granted, decision>>

\* rate_limiter_admit evaluates the clock before it takes the mutex.
ReadClock(c, k) ==
    /\ readTime[c] = -1
    /\ readTime' = [readTime EXCEPT ![c] = rateClock]
    /\ arg' = [arg EXCEPT ![c] = k]
    /\ UNCHANGED <<rateClock, last, slotVars, granted, decision>>

Decided(c) ==
    /\ readTime' = [readTime EXCEPT ![c] = -1]
    /\ arg' = [arg EXCEPT ![c] = NoIdentity]
    /\ UNCHANGED rateClock

\* The caller's time is behind the limiter's: SALTS_EINVAL.
TimeGoesBack(c) ==
    /\ readTime[c] # -1 /\ readTime[c] < last
    /\ Decided(c)
    /\ UNCHANGED <<last, slotVars, granted, decision>>

\* rate_key: no peer, no subject or a key that is too long; no slot is read.
KeyDenied(c) ==
    /\ readTime[c] # -1 /\ readTime[c] >= last
    /\ Decided(c)
    /\ UNCHANGED <<last, slotVars, granted, decision>>

\* rate_refill compares before it multiplies.
Refilled(i, t) ==
    LET missing == FullCredit - credit[i]
        elapsed == t - updated[i]
    IN  IF elapsed >= CeilDiv(missing, RefillTokens) THEN FullCredit
        ELSE credit[i] + elapsed * RefillTokens

\* The slots the search for k visits: all in use, up to the match.
Visited(k) == {i \in 1 .. used : \A j \in 1 .. i - 1 : key[j] # k}

Refill(k, t) ==
    [i \in RateSlots |-> IF i \in Visited(k) THEN Refilled(i, t) ELSE credit[i]]

\* A fault: every slot is stamped, although the search stops at the match.
TouchAll(k, t) ==
    [i \in RateSlots |-> IF i \in 1 .. used THEN t ELSE updated[i]]

Touch(k, t) ==
    [i \in RateSlots |-> IF i \in Visited(k) THEN t ELSE updated[i]]

Known(k) == \E i \in 1 .. used : key[i] = k

\* The slots a search that fails finds full: a new identity may take one.
FullSlots(t) == {i \in 1 .. used : Refilled(i, t) = FullCredit}

\* Slot i holds k with credit l after the refill: a token is taken or refused.
Decide(c, k, i, l, credits) ==
    IF l < RefillPeriod
    THEN /\ credit' = credits
         /\ Decided(c)
         /\ decision' = [key |-> k, kind |-> "limited",
                         wait |-> CeilDiv(CeilDiv(RefillPeriod - l, RefillTokens), Second)]
         /\ UNCHANGED granted
    ELSE /\ credit' = [credits EXCEPT ![i] = l - RefillPeriod]
         /\ Decided(c)
         /\ decision' = [key |-> k, kind |-> "allow", wait |-> 0]
         /\ granted' = [granted EXCEPT ![k] = granted[k] + 1]

\* The identity has a slot.
AdmitKnown(c) ==
    LET k == arg[c]
        t == readTime[c]
    IN  /\ t # -1 /\ t >= last
        /\ \E i \in 1 .. used :
              /\ key[i] = k /\ i \in Visited(k)
              /\ Decide(c, k, i, Refilled(i, t), Refill(k, t))
        /\ last' = t
        /\ updated' = Touch(k, t)
        /\ UNCHANGED <<used, key>>

\* The identity is new and takes slot i.
TakeSlot(c, k, t, i) ==
    /\ key' = [key EXCEPT ![i] = k]
    /\ updated' = [Touch(k, t) EXCEPT ![i] = t]
    /\ Decide(c, k, i, FullCredit, [Refill(k, t) EXCEPT ![i] = FullCredit])

AdmitReuse(c) ==
    LET k == arg[c]
        t == readTime[c]
    IN  /\ t # -1 /\ t >= last /\ ~Known(k)
        /\ \E i \in FullSlots(t) :
              /\ \A j \in FullSlots(t) : j <= i
              /\ TakeSlot(c, k, t, i)
        /\ last' = t
        /\ UNCHANGED used

AdmitNew(c) ==
    LET k == arg[c]
        t == readTime[c]
    IN  /\ t # -1 /\ t >= last /\ ~Known(k)
        /\ FullSlots(t) = {} /\ used < limiter.capacity
        /\ TakeSlot(c, k, t, used + 1)
        /\ used' = used + 1
        /\ last' = t

\* No slot is free and none is full: 503.
NoCapacity(c) ==
    LET k == arg[c]
        t == readTime[c]
    IN  /\ t # -1 /\ t >= last /\ ~Known(k)
        /\ FullSlots(t) = {} /\ used = limiter.capacity
        /\ Decided(c)
        /\ last' = t
        /\ credit' = Refill(k, t) /\ updated' = Touch(k, t)
        /\ decision' = [key |-> k, kind |-> "full", wait |-> 0]
        /\ UNCHANGED <<used, key, granted>>

RateCall(c) ==
    \/ \E k \in limiter.identities : ReadClock(c, k)
    \/ TimeGoesBack(c) \/ KeyDenied(c)
    \/ AdmitKnown(c) \/ AdmitReuse(c) \/ AdmitNew(c) \/ NoCapacity(c)

RateNext ==
    /\ UNCHANGED limiter
    /\ RateTick \/ \E c \in limiter.owners : RateCall(c)

RateSpec == RateInit /\ [][RateNext]_rateVars

-----------------------------------------------------------------------------
\* What identity k would have if its slot were refilled at time t.
Level(k, t) ==
    IF Known(k) THEN Refilled(CHOOSE i \in 1 .. used : key[i] = k, t) ELSE FullCredit

\* The limiter keeps one bucket per identity although its table is bounded:
\* an identity without a slot is one whose bucket is full.
Bucket == INSTANCE TokenBucket WITH
              Keys <- Identities, NoKey <- NoIdentity, MaxLevel <- FullCredit,
              Rate <- RefillTokens, Charge <- RefillPeriod,
              Times <- 0 .. RateTime,
              level <- [k \in Identities |-> Level(k, last)],
              time <- last,
              decision <- [key |-> decision.key, kind |-> decision.kind]

\* A client that waits for the Retry-After of a 429 and is not charged in between
\* finds a token, and is not asked to wait when one was there.
RetrySuffices ==
    decision.kind = "limited" =>
       /\ decision.wait > 0
       /\ Level(decision.key, last + decision.wait * Second) >= RefillPeriod

\* No identity is admitted more often than its burst and its refill allow.
AdmissionsBounded ==
    \A k \in Identities : granted[k] * RefillPeriod <= FullCredit + last * RefillTokens

\* Every decision of the bounded table is one an unbounded set of token
\* buckets could take, so admissions are bounded although slots are reused; and
\* Retry-After suffices (rate_limiter_admit).
BucketsKept ==
    /\ Bucket!BucketSpec
    /\ []RetrySuffices
    /\ []AdmissionsBounded
=============================================================================
