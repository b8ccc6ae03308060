-------------------------- MODULE RateLimitProofs --------------------------
(***************************************************************************)
(* The rate limiter keeps its promise for every burst, rate, table size    *)
(* and number of callers: its bounded, lazily refilled table implements    *)
(* one token bucket per identity (TokenBucket), Retry-After suffices, and  *)
(* no identity is admitted more often than its burst and refill allow.     *)
(*                                                                         *)
(* The first half says what one call does to the table: what each slot     *)
(* and the level of each identity become, whichever path the caller takes. *)
(***************************************************************************)
EXTENDS RateLimit, TLAPS

\* The credit of a bucket that held l, e milliseconds later.
Filled(l, e) ==
    IF l + e * RefillTokens >= FullCredit THEN FullCredit ELSE l + e * RefillTokens

Credits == 0 .. FullCredit

-----------------------------------------------------------------------------
(* Arithmetic *)

\* The limits are positive, and a full bucket pays for a token.
LEMMA Limits ==
  /\ RefillTokens \in Nat /\ RefillTokens > 0
  /\ RefillPeriod \in Nat /\ RefillPeriod > 0
  /\ Second \in Nat /\ Second > 0
  /\ RateTime \in Nat
  /\ FullCredit \in Nat /\ FullCredit >= RefillPeriod
<1>1. Burst \in Nat /\ Burst >= 1 /\ RefillPeriod \in Nat /\ RefillPeriod > 0
  BY RateAssumption
<1>2. \A b, p \in Nat : b >= 1 => b * p >= p /\ b * p \in Nat
  OBVIOUS
<1> QED
  BY <1>1, <1>2, RateAssumption DEF FullCredit

\* Multiplying by a positive number keeps and reflects the order.
LEMMA TimesOrder ==
  ASSUME NEW a \in Nat, NEW b \in Nat, NEW d \in Nat, d > 0
  PROVE  /\ a * d \in Nat /\ a <= a * d
         /\ (a + b) * d = a * d + b * d
         /\ a <= b => a * d <= b * d
         /\ a < b => a * d + d <= b * d
<1>1. a * d \in Nat /\ a <= a * d
  OBVIOUS
<1>2. (a + b) * d = a * d + b * d
  OBVIOUS
<1>3. \A n \in Nat : n * d >= 0
  OBVIOUS
<1>4. ASSUME a <= b PROVE a * d <= b * d
  <2>1. b - a \in Nat /\ b * d = (b - a) * d + a * d
    BY <1>4
  <2> QED
    BY <2>1, <1>3, <1>1
<1>5. ASSUME a < b PROVE a * d + d <= b * d
  <2>1. b - a - 1 \in Nat /\ b * d = (b - a - 1) * d + a * d + d
    BY <1>5
  <2> QED
    BY <2>1, <1>3, <1>1
<1> QED
  BY <1>1, <1>2, <1>4, <1>5, Zenon

\* rate_ceil_div: the least number of steps of d that reach v.
LEMMA CeilDivReaches ==
  ASSUME NEW v \in Nat, NEW d \in Nat, d > 0, NEW e \in Nat
  PROVE  /\ CeilDiv(v, d) \in Nat
         /\ e >= CeilDiv(v, d) <=> e * d >= v
         /\ v > 0 => CeilDiv(v, d) > 0
<1> DEFINE q == v \div d
           m == v % d
<1>1. q \in Nat /\ m \in 0 .. d - 1 /\ v = q * d + m
  OBVIOUS
<1>2. CeilDiv(v, d) = IF m # 0 THEN q + 1 ELSE q
  BY <1>1 DEF CeilDiv
<1> HIDE DEF q, m
<1>3. CASE e <= q
  <2>1. e * d <= q * d
    BY <1>1, <1>3, TimesOrder, Zenon
  <2>2. e < q => e * d + d <= q * d
    BY <1>1, TimesOrder, Zenon
  <2>3. e * d \in Nat /\ q * d \in Nat
    BY <1>1, TimesOrder, Zenon
  <2> QED
    BY <2>1, <2>2, <2>3, <1>1, <1>2, <1>3
<1>4. CASE e > q
  <2>1. q * d + d <= e * d
    BY <1>1, <1>4, TimesOrder, Zenon
  <2>2. e * d \in Nat /\ q * d \in Nat
    BY <1>1, TimesOrder, Zenon
  <2> QED
    BY <2>1, <2>2, <1>1, <1>2, <1>4
<1>5. v > 0 => CeilDiv(v, d) > 0
  <2>1. q = 0 => q * d = 0
    BY <1>1
  <2> QED
    BY <1>1, <1>2, <2>1
<1> QED
  BY <1>1, <1>2, <1>3, <1>4, <1>5

\* rate_refill, which compares before it multiplies, fills the bucket.
LEMMA RefillFills ==
  ASSUME NEW l \in Credits, NEW e \in Nat
  PROVE  (IF e >= CeilDiv(FullCredit - l, RefillTokens) THEN FullCredit
          ELSE l + e * RefillTokens) = Filled(l, e)
<1>1. FullCredit - l \in Nat /\ l \in Nat /\ FullCredit \in Nat /\ e * RefillTokens \in Nat
  BY Limits, TimesOrder DEF Credits
<1>2. e >= CeilDiv(FullCredit - l, RefillTokens) <=> e * RefillTokens >= FullCredit - l
  BY <1>1, CeilDivReaches, Limits, Zenon
<1> QED
  BY <1>1, <1>2 DEF Filled

\* Filling stays within the burst, never takes credit away, fills a full bucket
\* no further, and may be done in two parts.
LEMMA FillsInParts ==
  ASSUME NEW l \in Credits, NEW a \in Nat, NEW b \in Nat
  PROVE  /\ Filled(l, a) \in Credits /\ Filled(l, a) >= l
         /\ Filled(l, 0) = l
         /\ Filled(FullCredit, a) = FullCredit
         /\ Filled(Filled(l, a), b) = Filled(l, a + b)
<1> DEFINE x == a * RefillTokens
           y == b * RefillTokens
<1>1. x \in Nat /\ y \in Nat /\ (a + b) * RefillTokens = x + y /\ 0 * RefillTokens = 0
  BY Limits, TimesOrder
<1>2. l \in Nat /\ l <= FullCredit /\ FullCredit \in Nat
  BY Limits DEF Credits
<1> HIDE DEF x, y
<1>3. Filled(l, a) = IF l + x >= FullCredit THEN FullCredit ELSE l + x
  BY Zenon DEF Filled, x
<1>4. \A n : Filled(n, b) = IF n + y >= FullCredit THEN FullCredit ELSE n + y
  BY Zenon DEF Filled, y
<1>5. Filled(l, a + b) = IF l + (x + y) >= FullCredit THEN FullCredit ELSE l + (x + y)
  BY <1>1, Zenon DEF Filled
<1>6. Filled(FullCredit, a) = FullCredit
  BY <1>1, <1>2 DEF Filled, x
<1>7. Filled(l, 0) = l
  BY <1>1, <1>2 DEF Filled
<1>8. Filled(l, a) \in Credits /\ Filled(l, a) >= l
  BY <1>1, <1>2, <1>3 DEF Credits
<1>9. Filled(Filled(l, a), b) = Filled(l, a + b)
  BY <1>1, <1>2, <1>3, <1>4, <1>5
<1> QED
  BY <1>6, <1>7, <1>8, <1>9, Zenon

-----------------------------------------------------------------------------
(* The inductive invariant *)

RateTypes ==
    /\ limiter \in Limiters
    /\ rateClock \in 0 .. RateTime /\ last \in 0 .. RateTime
    /\ readTime \in [RateOwners -> -1 .. RateTime]
    /\ arg \in [RateOwners -> Identities \union {NoIdentity}]
    /\ used \in 0 .. limiter.capacity
    /\ key \in [RateSlots -> Identities \union {NoIdentity}]
    /\ credit \in [RateSlots -> Credits]
    /\ updated \in [RateSlots -> 0 .. RateTime]
    /\ granted \in [Identities -> Nat]
    /\ decision \in [key : Identities \union {NoIdentity},
                     kind : {"none", "allow", "limited", "full"}, wait : Nat]

\* A call in progress has an identity; a slot in use holds one, of its own, and
\* was not refilled after the last decision.
TableInv ==
    /\ \A c \in RateOwners : readTime[c] # -1 => arg[c] \in Identities
    /\ \A i \in 1 .. used : key[i] \in Identities /\ updated[i] <= last
    /\ \A i, j \in 1 .. used : key[i] = key[j] => i = j

\* What an identity has at the time of the last decision, or later: the credit
\* of its slot, filled, or a full bucket.
LevelFacts ==
    \A t \in Nat : t >= last =>
       /\ \A i \in 1 .. used : /\ Level(key[i], t) = Filled(credit[i], t - updated[i])
                               /\ Refilled(i, t) = Filled(credit[i], t - updated[i])
       /\ \A k : (\A i \in 1 .. used : key[i] # k) => Level(k, t) = FullCredit

\* A slot in use is a slot of the table.
LEMMA UsedSlots ==
  ASSUME RateTypes
  PROVE  /\ limiter.capacity \in Nat /\ limiter.capacity <= GroupCapacity
         /\ used \in Nat /\ last \in Nat
         /\ \A i \in 1 .. used : /\ i \in RateSlots /\ credit[i] \in Credits
                                /\ updated[i] \in Nat
         /\ used < limiter.capacity => used + 1 \in RateSlots
<1>1. /\ limiter.capacity \in Nat /\ limiter.capacity <= GroupCapacity
      /\ GroupCapacity \in Nat
  BY RateAssumption DEF RateTypes
<1>2. used \in Nat /\ used <= limiter.capacity
  BY <1>1 DEF RateTypes
<1>3. last \in Nat
  BY Limits DEF RateTypes
<1>4. \A i \in 1 .. used : i \in RateSlots
  BY <1>1, <1>2 DEF RateSlots
<1>5. \A i \in RateSlots : credit[i] \in Credits /\ updated[i] \in Nat
  BY Limits DEF RateTypes
<1>6. used < limiter.capacity => used + 1 \in RateSlots
  BY <1>1, <1>2 DEF RateSlots
<1> QED
  BY <1>1, <1>2, <1>3, <1>4, <1>5, <1>6, Zenon

\* The levels follow from the table.
LEMMA LevelsFollow ==
  ASSUME RateTypes, TableInv
  PROVE  LevelFacts
<1> SUFFICES ASSUME NEW t \in Nat, t >= last
             PROVE  /\ \A i \in 1 .. used :
                         /\ Level(key[i], t) = Filled(credit[i], t - updated[i])
                         /\ Refilled(i, t) = Filled(credit[i], t - updated[i])
                    /\ \A k : (\A i \in 1 .. used : key[i] # k) => Level(k, t) = FullCredit
  BY Zenon DEF LevelFacts
<1>1. ASSUME NEW i \in 1 .. used
      PROVE  Refilled(i, t) = Filled(credit[i], t - updated[i])
  <2>1. credit[i] \in Credits /\ t - updated[i] \in Nat
    BY UsedSlots DEF TableInv
  <2> QED
    BY <2>1, RefillFills, Zenon DEF Refilled
<1>2. ASSUME NEW i \in 1 .. used
      PROVE  Level(key[i], t) = Refilled(i, t)
  <2>1. Known(key[i])
    BY Zenon DEF Known
  <2>2. i = CHOOSE j \in 1 .. used : key[j] = key[i]
    BY Zenon DEF TableInv
  <2> QED
    BY <2>1, <2>2, ZenonT(60) DEF Level
<1>3. ASSUME NEW k, \A i \in 1 .. used : key[i] # k
      PROVE  Level(k, t) = FullCredit
  BY <1>3, Zenon DEF Level, Known
<1> QED
  BY <1>1, <1>2, <1>3, Zenon

-----------------------------------------------------------------------------
(* What a decision does to the table *)

\* The search refills and stamps the slots it visits; what every slot is worth
\* at the time of the call does not change.
LEMMA SearchRefills ==
  ASSUME RateTypes, TableInv, NEW k, NEW t \in 0 .. RateTime, t >= last
  PROVE  /\ Refill(k, t) \in [RateSlots -> Credits]
         /\ Touch(k, t) \in [RateSlots -> 0 .. RateTime]
         /\ \A i \in 1 .. used :
              /\ Touch(k, t)[i] <= t
              /\ Filled(Refill(k, t)[i], t - Touch(k, t)[i]) = Filled(credit[i], t - updated[i])
<1>1. t \in Nat
  BY Limits
<1>2. ASSUME NEW i \in 1 .. used
      PROVE  /\ Refilled(i, t) = Filled(credit[i], t - updated[i])
             /\ Refilled(i, t) \in Credits /\ Filled(Refilled(i, t), 0) = Refilled(i, t)
  <2>1. Refilled(i, t) = Filled(credit[i], t - updated[i])
    BY <1>1, LevelsFollow, Zenon DEF LevelFacts
  <2>2. credit[i] \in Credits /\ t - updated[i] \in Nat
    BY <1>1, UsedSlots DEF TableInv
  <2>3. Refilled(i, t) \in Credits
    BY <2>1, <2>2, FillsInParts, ZenonT(60)
  <2> QED
    BY <2>1, <2>3, FillsInParts, Zenon
<1>3. Visited(k) \subseteq 1 .. used
  BY Zenon DEF Visited
<1>4. Refill(k, t) \in [RateSlots -> Credits]
  BY <1>2, <1>3, Zenon DEF Refill, RateTypes
<1>5. Touch(k, t) \in [RateSlots -> 0 .. RateTime]
  BY Zenon DEF Touch, RateTypes
<1>6. ASSUME NEW i \in 1 .. used
      PROVE  /\ Touch(k, t)[i] <= t
             /\ Filled(Refill(k, t)[i], t - Touch(k, t)[i]) = Filled(credit[i], t - updated[i])
  <2>1. i \in RateSlots /\ updated[i] <= t
    BY <1>1, UsedSlots DEF TableInv
  <2>2. CASE i \in Visited(k)
    <3>1. Touch(k, t)[i] = t /\ Refill(k, t)[i] = Refilled(i, t)
      BY <2>1, <2>2, Zenon DEF Touch, Refill
    <3>2. t - t = 0
      BY <1>1
    <3> QED
      BY <1>1, <1>2, <3>1, <3>2
  <2>3. CASE i \notin Visited(k)
    BY <2>1, <2>3, Zenon DEF Touch, Refill
  <2> QED
    BY <2>2, <2>3, Zenon
<1> QED
  BY <1>4, <1>5, <1>6, Zenon

\* The table after a decision for k at time t: k has slot i (none if i is 0), and
\* no other slot changes its identity or what it is worth.  A slot that changed
\* hands was full.
TableAfter(k, t, i) ==
    /\ last' = t /\ used' \in Nat /\ used <= used' /\ i \in 0 .. used'
    /\ i # 0 => key'[i] = k /\ updated'[i] = t
    /\ \A j \in 1 .. used' : j # i =>
          /\ j \in 1 .. used /\ key'[j] = key[j] /\ key[j] # k /\ updated'[j] <= t
          /\ Filled(credit'[j], t - updated'[j]) = Filled(credit[j], t - updated[j])
    /\ i \in 1 .. used => key[i] = k \/ Filled(credit[i], t - updated[i]) = FullCredit

\* The credit k has at time t, and the decision taken on it.
Outcome(k, t, i) ==
    LET l == Level(k, t) IN
    \/ /\ i # 0 /\ l < RefillPeriod /\ credit'[i] = l /\ granted' = granted
       /\ decision' = [key |-> k, kind |-> "limited",
                       wait |-> CeilDiv(CeilDiv(RefillPeriod - l, RefillTokens), Second)]
    \/ /\ i # 0 /\ l >= RefillPeriod /\ credit'[i] = l - RefillPeriod
       /\ granted' = [granted EXCEPT ![k] = granted[k] + 1]
       /\ decision' = [key |-> k, kind |-> "allow", wait |-> 0]
    \/ /\ i = 0 /\ l = FullCredit /\ granted' = granted
       /\ decision' = [key |-> k, kind |-> "full", wait |-> 0]

\* A caller at the table has an identity and a time.
LEMMA CallerReady ==
  ASSUME RateTypes, TableInv, NEW c \in limiter.owners, readTime[c] # -1, readTime[c] >= last
  PROVE  /\ c \in RateOwners /\ arg[c] \in Identities
         /\ readTime[c] \in 0 .. RateTime /\ readTime[c] \in Nat
<1>1. c \in RateOwners
  BY RateAssumption, Zenon DEF RateTypes
<1>2. arg[c] \in Identities
  BY <1>1, Zenon DEF TableInv
<1>3. readTime[c] \in -1 .. RateTime /\ RateTime \in Nat
  BY <1>1, Limits, Zenon DEF RateTypes
<1> QED
  BY <1>1, <1>2, <1>3

\* A call that ends leaves the caller between calls.
LEMMA DecidedTypes ==
  ASSUME RateTypes, NEW c \in RateOwners, Decided(c)
  PROVE  /\ rateClock' \in 0 .. RateTime
         /\ readTime' \in [RateOwners -> -1 .. RateTime]
         /\ arg' \in [RateOwners -> Identities \union {NoIdentity}]
<1>1. -1 \in -1 .. RateTime
  BY Limits
<1>2. readTime' \in [RateOwners -> -1 .. RateTime]
  BY <1>1, Zenon DEF RateTypes, Decided
<1>3. arg' \in [RateOwners -> Identities \union {NoIdentity}]
  BY Zenon DEF RateTypes, Decided
<1> QED
  BY <1>2, <1>3, Zenon DEF RateTypes, Decided

\* Decide keeps the types.
LEMMA DecideTypes ==
  ASSUME RateTypes, TableInv, NEW c \in RateOwners, NEW k \in Identities, NEW i \in RateSlots,
         NEW l \in Credits, NEW credits \in [RateSlots -> Credits], Decide(c, k, i, l, credits)
  PROVE  /\ credit' \in [RateSlots -> Credits]
         /\ granted' \in [Identities -> Nat]
         /\ decision' \in [key : Identities \union {NoIdentity},
                           kind : {"none", "allow", "limited", "full"}, wait : Nat]
         /\ Decided(c)
         /\ \A j \in RateSlots : j # i => credit'[j] = credits[j]
         /\ credits[i] = l => credit'[i] = IF l < RefillPeriod THEN l ELSE l - RefillPeriod
<1>1. l \in Nat /\ l <= FullCredit /\ FullCredit \in Nat /\ RefillPeriod \in Nat
  BY Limits DEF Credits
<1>2. CASE l < RefillPeriod
  <2>1. RefillPeriod - l \in Nat
    BY <1>1, <1>2
  <2>2. CeilDiv(RefillPeriod - l, RefillTokens) \in Nat
    BY <2>1, CeilDivReaches, Limits, Zenon
  <2>3. CeilDiv(CeilDiv(RefillPeriod - l, RefillTokens), Second) \in Nat
    BY <2>2, CeilDivReaches, Limits, SMTT(60)
  <2> QED
    BY <1>2, <2>3 DEF Decide, RateTypes
<1>3. CASE ~(l < RefillPeriod)
  <2>1. l - RefillPeriod \in Credits
    BY <1>1, <1>3 DEF Credits
  <2>2. credit' = [credits EXCEPT ![i] = l - RefillPeriod]
    BY <1>3, Zenon DEF Decide
  <2>3. granted[k] + 1 \in Nat
    BY DEF RateTypes
  <2> QED
    BY <1>3, <2>1, <2>2, <2>3 DEF Decide, RateTypes
<1> QED
  BY <1>2, <1>3, Zenon

\* Such a table is a table.
LEMMA AfterIsTable ==
  ASSUME RateTypes, TableInv, NEW c \in RateOwners, NEW k \in Identities, NEW t \in Nat, NEW i,
         Decided(c), TableAfter(k, t, i)
  PROVE  TableInv'
<1>1. \A b \in RateOwners : readTime'[b] # -1 => arg'[b] \in Identities
  BY Zenon DEF Decided, RateTypes, TableInv
<1>2. ASSUME NEW j \in 1 .. used' PROVE key'[j] \in Identities /\ updated'[j] <= last'
  <2>1. CASE j = i
    BY <2>1 DEF TableAfter
  <2>2. CASE j # i
    BY <2>2, Zenon DEF TableAfter, TableInv
  <2> QED
    BY <2>1, <2>2, Zenon
<1>3. ASSUME NEW j \in 1 .. used', NEW m \in 1 .. used', key'[j] = key'[m] PROVE j = m
  <2>1. CASE j = i \/ m = i
    BY <1>3, <2>1 DEF TableAfter
  <2>2. CASE j # i /\ m # i
    BY <1>3, <2>2, Zenon DEF TableAfter, TableInv
  <2> QED
    BY <2>1, <2>2, Zenon
<1> QED
  BY <1>1, <1>2, <1>3, Zenon DEF TableInv

\* An identity that has a slot ...
LEMMA KnownDecided ==
  ASSUME RateTypes, TableInv, NEW c \in limiter.owners, UNCHANGED limiter, AdmitKnown(c)
  PROVE  /\ RateTypes' /\ TableInv'
         /\ \E i : TableAfter(arg[c], readTime[c], i) /\ Outcome(arg[c], readTime[c], i)
<1> DEFINE k == arg[c]
           t == readTime[c]
<1>1. c \in RateOwners /\ k \in Identities /\ t \in 0 .. RateTime /\ t \in Nat /\ t >= last
  BY CallerReady, Zenon DEF AdmitKnown
<1>2. PICK i \in 1 .. used : key[i] = k /\ i \in Visited(k) /\ Decide(c, k, i, Refilled(i, t), Refill(k, t))
  BY Zenon DEF AdmitKnown
<1>3. last' = t /\ updated' = Touch(k, t) /\ used' = used /\ key' = key
  BY Zenon DEF AdmitKnown
<1> HIDE DEF k, t
<1>4. /\ Refilled(i, t) = Filled(credit[i], t - updated[i])
      /\ Level(k, t) = Refilled(i, t)
  BY <1>1, <1>2, LevelsFollow, Zenon DEF LevelFacts
<1>5. i \in RateSlots /\ credit[i] \in Credits /\ t - updated[i] \in Nat
  BY <1>1, UsedSlots DEF TableInv
<1>6. Refilled(i, t) \in Credits
  BY <1>4, <1>5, FillsInParts, Zenon
<1>7. Touch(k, t)[i] = t /\ Refill(k, t)[i] = Refilled(i, t)
  BY <1>2, <1>5, Zenon DEF Touch, Refill
<1>8. /\ Refill(k, t) \in [RateSlots -> Credits]
      /\ Touch(k, t) \in [RateSlots -> 0 .. RateTime]
  BY <1>1, SearchRefills, Zenon
<1>9. /\ credit' \in [RateSlots -> Credits]
      /\ granted' \in [Identities -> Nat]
      /\ decision' \in [key : Identities \union {NoIdentity},
                        kind : {"none", "allow", "limited", "full"}, wait : Nat]
      /\ Decided(c)
      /\ \A j \in RateSlots : j # i => credit'[j] = Refill(k, t)[j]
      /\ credit'[i] = IF Refilled(i, t) < RefillPeriod THEN Refilled(i, t) ELSE Refilled(i, t) - RefillPeriod
  BY <1>1, <1>2, <1>5, <1>6, <1>7, <1>8, DecideTypes, SMTT(60)
<1>10. RateTypes'
  <2>1. used' \in 0 .. limiter'.capacity /\ key' \in [RateSlots -> Identities \union {NoIdentity}]
    BY <1>3, Zenon DEF RateTypes
  <2> QED
    BY <1>1, <1>3, <1>8, <1>9, <2>1, DecidedTypes, SMTT(60) DEF RateTypes
<1>11. TableAfter(k, t, i)
  <2>1. ASSUME NEW j \in 1 .. used, j # i
        PROVE  /\ key[j] # k /\ updated'[j] <= t
               /\ Filled(credit'[j], t - updated'[j]) = Filled(credit[j], t - updated[j])
    <3>1. key[j] # k
      BY <1>2, <2>1, Zenon DEF TableInv
    <3>2. j \in RateSlots
      BY UsedSlots, Zenon
    <3> QED
      BY <1>1, <1>3, <1>9, <2>1, <3>1, <3>2, SearchRefills
  <2>2. used \in Nat
    BY UsedSlots, Zenon
  <2> QED
    BY <1>2, <1>3, <1>7, <2>1, <2>2 DEF TableAfter
<1>12. Outcome(k, t, i)
  <2>1. i # 0
    BY <1>2
  <2>2. Refilled(i, t) \in Nat /\ RefillPeriod \in Nat
    BY <1>6, Limits, SMTT(60) DEF Credits
  <2>3. CASE Refilled(i, t) < RefillPeriod
    BY <1>2, <1>4, <1>9, <2>1, <2>3, SMTT(60) DEF Outcome, Decide
  <2>4. CASE ~(Refilled(i, t) < RefillPeriod)
    BY <1>2, <1>4, <1>9, <2>1, <2>2, <2>4, SMTT(60) DEF Outcome, Decide
  <2> QED
    BY <2>3, <2>4, Zenon
<1>13. TableInv'
  BY <1>1, <1>9, <1>11, AfterIsTable, Zenon
<1> QED
  BY <1>10, <1>11, <1>12, <1>13, Zenon DEF k, t

\* ... and one that takes slot i: a new one, or one that is full.
LEMMA TakeDecided ==
  ASSUME RateTypes, TableInv, NEW c \in limiter.owners, UNCHANGED limiter,
         readTime[c] # -1, readTime[c] >= last, ~Known(arg[c]),
         NEW i \in RateSlots, TakeSlot(c, arg[c], readTime[c], i), last' = readTime[c],
         \/ used' = used /\ i \in FullSlots(readTime[c])
         \/ used' = used + 1 /\ i = used + 1 /\ used < limiter.capacity
  PROVE  /\ RateTypes' /\ TableInv'
         /\ \E j : TableAfter(arg[c], readTime[c], j) /\ Outcome(arg[c], readTime[c], j)
<1> DEFINE k == arg[c]
           t == readTime[c]
           credits == [Refill(k, t) EXCEPT ![i] = FullCredit]
<1>1. c \in RateOwners /\ k \in Identities /\ t \in 0 .. RateTime /\ t \in Nat /\ t >= last
  BY CallerReady, SMTT(60)
<1>2. /\ key' = [key EXCEPT ![i] = k]
      /\ updated' = [Touch(k, t) EXCEPT ![i] = t]
      /\ Decide(c, k, i, FullCredit, credits)
      /\ last' = t
  BY Zenon DEF TakeSlot
<1>3. \A j \in 1 .. used : key[j] # k
  BY Zenon DEF Known
<1>4. \/ used' = used /\ i \in 1 .. used /\ Refilled(i, t) = FullCredit
      \/ used' = used + 1 /\ i = used + 1 /\ used < limiter.capacity
  BY SMTT(60) DEF FullSlots
<1> HIDE DEF k, t
<1>5. /\ Refill(k, t) \in [RateSlots -> Credits]
      /\ Touch(k, t) \in [RateSlots -> 0 .. RateTime]
  BY <1>1, SearchRefills, Zenon
<1>6. FullCredit \in Credits /\ FullCredit \in Nat /\ RefillPeriod \in Nat /\ FullCredit >= RefillPeriod
  BY Limits DEF Credits
<1>7. credits \in [RateSlots -> Credits] /\ credits[i] = FullCredit
  BY <1>5, <1>6, Zenon
<1>8. \A j \in RateSlots : j # i => credits[j] = Refill(k, t)[j]
  BY <1>5, SMTT(60)
<1> HIDE DEF credits
<1>9. /\ credit' \in [RateSlots -> Credits]
      /\ granted' \in [Identities -> Nat]
      /\ decision' \in [key : Identities \union {NoIdentity},
                        kind : {"none", "allow", "limited", "full"}, wait : Nat]
      /\ Decided(c)
      /\ \A j \in RateSlots : j # i => credit'[j] = credits[j]
      /\ credit'[i] = FullCredit - RefillPeriod
  BY <1>1, <1>2, <1>6, <1>7, DecideTypes, SMTT(60)
<1>10. used' \in 0 .. limiter.capacity /\ used' \in Nat /\ used <= used' /\ i \in 1 .. used'
  BY <1>4, UsedSlots, SMTT(60) DEF RateTypes
<1>11. key' \in [RateSlots -> Identities \union {NoIdentity}] /\ updated' \in [RateSlots -> 0 .. RateTime]
  BY <1>1, <1>2, <1>5, SMTT(60) DEF RateTypes
<1>12. RateTypes'
  BY <1>1, <1>2, <1>9, <1>10, <1>11, DecidedTypes, SMTT(60) DEF RateTypes
<1>13. TableAfter(k, t, i)
  <2>1. ASSUME NEW j \in 1 .. used', j # i
        PROVE  /\ j \in 1 .. used /\ key'[j] = key[j] /\ key[j] # k /\ updated'[j] <= t
               /\ Filled(credit'[j], t - updated'[j]) = Filled(credit[j], t - updated[j])
    <3>1. j \in 1 .. used
      BY <1>4, <2>1, UsedSlots
    <3>2. j \in RateSlots
      BY <3>1, UsedSlots, SMTT(60)
    <3>3. key'[j] = key[j] /\ updated'[j] = Touch(k, t)[j] /\ credit'[j] = Refill(k, t)[j]
      BY <1>2, <1>5, <1>8, <1>9, <2>1, <3>2, SMTT(60) DEF RateTypes
    <3> QED
      BY <1>1, <1>3, <3>1, <3>3, SearchRefills, SMTT(60)
  <2>2. i # 0 /\ key'[i] = k /\ updated'[i] = t
    BY <1>2, <1>5, <1>10, SMTT(60) DEF RateTypes
  <2>3. i \in 1 .. used => Filled(credit[i], t - updated[i]) = FullCredit
    <3>1. i \in 1 .. used => Refilled(i, t) = Filled(credit[i], t - updated[i])
      BY <1>1, LevelsFollow, SMTT(60) DEF LevelFacts
    <3> QED
      BY <1>4, <3>1, UsedSlots, SMTT(60)
  <2> QED
    BY <1>2, <1>10, <2>1, <2>2, <2>3, SMTT(60) DEF TableAfter
<1>14. Outcome(k, t, i)
  <2>1. Level(k, t) = FullCredit
    BY <1>1, <1>3, LevelsFollow, SMTT(60) DEF LevelFacts
  <2>2. i # 0 /\ ~(FullCredit < RefillPeriod)
    BY <1>6, <1>10, SMTT(60)
  <2> QED
    BY <1>2, <1>6, <1>9, <2>1, <2>2, SMTT(60) DEF Outcome, Decide
<1>15. TableInv'
  BY <1>1, <1>9, <1>13, AfterIsTable, Zenon
<1> QED
  BY <1>12, <1>13, <1>14, <1>15, Zenon DEF k, t

\* An identity that is turned away for lack of room.
LEMMA FullDecided ==
  ASSUME RateTypes, TableInv, NEW c \in limiter.owners, UNCHANGED limiter, NoCapacity(c)
  PROVE  /\ RateTypes' /\ TableInv'
         /\ \E i : TableAfter(arg[c], readTime[c], i) /\ Outcome(arg[c], readTime[c], i)
<1> DEFINE k == arg[c]
           t == readTime[c]
<1>1. c \in RateOwners /\ k \in Identities /\ t \in 0 .. RateTime /\ t \in Nat /\ t >= last
  BY CallerReady, SMTT(60) DEF NoCapacity
<1>2. /\ Decided(c) /\ last' = t /\ used' = used /\ key' = key /\ granted' = granted
      /\ credit' = Refill(k, t) /\ updated' = Touch(k, t)
      /\ decision' = [key |-> k, kind |-> "full", wait |-> 0]
  BY Zenon DEF NoCapacity
<1>3. \A j \in 1 .. used : key[j] # k
  BY SMTT(60) DEF NoCapacity, Known
<1> HIDE DEF k, t
<1>4. /\ credit' \in [RateSlots -> Credits]
      /\ updated' \in [RateSlots -> 0 .. RateTime]
  BY <1>1, <1>2, SearchRefills, SMTT(60)
<1>5. RateTypes'
  <2>1. decision' \in [key : Identities \union {NoIdentity},
                      kind : {"none", "allow", "limited", "full"}, wait : Nat]
    BY <1>1, <1>2, SMTT(60)
  <2>2. /\ used' \in 0 .. limiter'.capacity /\ key' \in [RateSlots -> Identities \union {NoIdentity}]
        /\ granted' \in [Identities -> Nat] /\ limiter' \in Limiters
    BY <1>2, SMTT(60) DEF RateTypes
  <2> QED
    BY <1>1, <1>2, <1>4, <2>1, <2>2, DecidedTypes, SMTT(60) DEF RateTypes
<1>6. TableAfter(k, t, 0)
  <2>1. used \in Nat
    BY UsedSlots, SMTT(60)
  <2> QED
    BY <1>1, <1>2, <1>3, <2>1, SearchRefills DEF TableAfter
<1>7. Outcome(k, t, 0)
  <2>1. Level(k, t) = FullCredit
    BY <1>1, <1>3, LevelsFollow, SMTT(60) DEF LevelFacts
  <2> QED
    BY <1>2, <2>1, Zenon DEF Outcome
<1>8. TableInv'
  BY <1>1, <1>2, <1>6, AfterIsTable, Zenon
<1> QED
  BY <1>5, <1>6, <1>7, <1>8, SMTT(60) DEF k, t

-----------------------------------------------------------------------------
(* What a decision does to the levels *)

\* Every bucket fills with time ...
LEMMA LevelsFill ==
  ASSUME RateTypes, TableInv, NEW k, NEW t \in Nat, t >= last
  PROVE  /\ Level(k, t) = Filled(Level(k, last), t - last)
         /\ Level(k, t) \in Credits /\ Level(k, last) \in Credits
<1>1. last \in Nat /\ last >= last /\ t - last \in Nat
  BY UsedSlots
<1>2. CASE \E i \in 1 .. used : key[i] = k
  <2>1. PICK i \in 1 .. used : key[i] = k
    BY <1>2, Zenon
  <2>2. /\ Level(k, t) = Filled(credit[i], t - updated[i])
        /\ Level(k, last) = Filled(credit[i], last - updated[i])
    BY <1>1, <2>1, LevelsFollow, Zenon DEF LevelFacts
  <2>3. credit[i] \in Credits /\ updated[i] \in Nat /\ updated[i] <= last
    BY UsedSlots, Zenon DEF TableInv
  <2>4. last - updated[i] \in Nat /\ (last - updated[i]) + (t - last) = t - updated[i] /\ t - updated[i] \in Nat
    BY <1>1, <2>3
  <2>5. Filled(Filled(credit[i], last - updated[i]), t - last) = Filled(credit[i], (last - updated[i]) + (t - last))
    <3> DEFINE a == last - updated[i]
               b == t - last
    <3>1. a \in Nat /\ b \in Nat
      BY <1>1, <2>4, Zenon
    <3> HIDE DEF a, b
    <3>2. Filled(Filled(credit[i], a), b) = Filled(credit[i], a + b)
      BY <2>3, <3>1, FillsInParts
    <3> QED
      BY <3>2, Zenon DEF a, b
  <2>6. Filled(credit[i], t - updated[i]) \in Credits /\ Filled(credit[i], last - updated[i]) \in Credits
    BY <2>3, <2>4, FillsInParts, ZenonT(60)
  <2> QED
    BY <2>2, <2>4, <2>5, <2>6, Zenon
<1>3. CASE \A i \in 1 .. used : key[i] # k
  <2>1. Level(k, t) = FullCredit /\ Level(k, last) = FullCredit
    BY <1>1, <1>3, LevelsFollow, Zenon DEF LevelFacts
  <2>2. FullCredit \in Credits
    BY Limits DEF Credits
  <2> QED
    BY <1>1, <2>1, <2>2, FillsInParts, Zenon
<1> QED
  BY <1>2, <1>3, Zenon

\* ... and a decision for k changes no other bucket, although the table forgets
\* the identity whose slot it reuses.
LEMMA LevelsMove ==
  ASSUME RateTypes, TableInv, RateTypes', TableInv',
         NEW k \in Identities, NEW t \in Nat, t >= last, NEW i, TableAfter(k, t, i)
  PROVE  /\ \A j \in Identities : j # k => Level(j, last)' = Level(j, t)
         /\ Level(k, last)' = IF i = 0 THEN FullCredit ELSE credit'[i]
         /\ i # 0 => \A n \in Nat : Level(k, last + n)' = Filled(credit'[i], n)
<1>1. LevelFacts'
  BY LevelsFollow, PTL
<1>2. last' = t /\ t >= t /\ t - t = 0
  BY DEF TableAfter
<1>3. \A n \in Nat : n >= t =>
         /\ \A j \in 1 .. used' : Level(key[j], n)' = Filled(credit'[j], n - updated'[j])
         /\ \A j : (\A m \in 1 .. used' : key'[m] # j) => Level(j, n)' = FullCredit
  BY <1>1, <1>2, Zenon DEF LevelFacts
<1>4. ASSUME NEW j \in Identities, j # k PROVE Level(j, last)' = Level(j, t)
  <2>1. CASE \E m \in 1 .. used : key[m] = j /\ m # i
    <3>1. PICK m \in 1 .. used : key[m] = j /\ m # i
      BY <2>1, Zenon
    <3>2. m \in 1 .. used'
      BY UsedSlots DEF TableAfter
    <3>3. key'[m] = j /\ Filled(credit'[m], t - updated'[m]) = Filled(credit[m], t - updated[m])
      BY <3>1, <3>2, SMTT(60) DEF TableAfter
    <3>4. Level(j, last)' = Filled(credit'[m], t - updated'[m])
      BY <1>2, <1>3, <3>2, <3>3, Zenon
    <3>5. Level(j, t) = Filled(credit[m], t - updated[m])
      BY <3>1, LevelsFollow, Zenon DEF LevelFacts
    <3> QED
      BY <3>3, <3>4, <3>5, Zenon
  <2>2. CASE ~\E m \in 1 .. used : key[m] = j /\ m # i
    <3>1. \A m \in 1 .. used' : key'[m] # j
      BY <1>4, <2>2 DEF TableAfter
    <3>2. Level(j, last)' = FullCredit
      BY <1>2, <1>3, <3>1, SMTT(60)
    <3>3. CASE i \in 1 .. used /\ key[i] = j
      <4>1. Level(j, t) = Filled(credit[i], t - updated[i])
        BY <3>3, LevelsFollow, Zenon DEF LevelFacts
      <4> QED
        BY <1>4, <3>2, <3>3, <4>1, Zenon DEF TableAfter
    <3>4. CASE ~(i \in 1 .. used /\ key[i] = j)
      <4>1. \A m \in 1 .. used : key[m] # j
        BY <2>2, <3>4, Zenon
      <4>2. Level(j, t) = FullCredit
        BY <4>1, LevelsFollow, Zenon DEF LevelFacts
      <4> QED
        BY <3>2, <4>2, Zenon
    <3> QED
      BY <3>3, <3>4, Zenon
  <2> QED
    BY <2>1, <2>2, SMTT(60)
<1>5. CASE i = 0
  <2>1. \A m \in 1 .. used' : key'[m] # k
    BY <1>5 DEF TableAfter
  <2> QED
    BY <1>2, <1>3, <1>4, <1>5, <2>1, Zenon
<1>6. CASE i # 0
  <2>1. i \in 1 .. used' /\ key'[i] = k /\ updated'[i] = t /\ i \in RateSlots
    <3>1. i \in 1 .. used' /\ key'[i] = k /\ updated'[i] = t
      BY <1>6, SMTT(60) DEF TableAfter
    <3>2. /\ used' \in 0 .. limiter'.capacity
          /\ limiter'.capacity \in Nat /\ GroupCapacity \in Nat /\ limiter'.capacity <= GroupCapacity
      BY RateAssumption DEF RateTypes
    <3> QED
      BY <3>1, <3>2, SMTT(60) DEF RateSlots
  <2>2. ASSUME NEW n \in Nat PROVE Level(k, last + n)' = Filled(credit'[i], n)
    <3>1. t + n \in Nat /\ t + n >= t /\ (t + n) - t = n
      OBVIOUS
    <3>2. Level(k, t + n)' = Filled(credit'[i], (t + n) - t)
      BY <1>3, <2>1, <3>1, Zenon
    <3> QED
      BY <1>2, <3>1, <3>2, Zenon
  <2>3. Level(k, last)' = Filled(credit'[i], 0)
    BY <1>2, <1>3, <2>1, Zenon
  <2>4. credit'[i] \in Credits
    BY <2>1, Zenon DEF RateTypes
  <2>5. Level(k, last)' = credit'[i]
    BY <2>3, <2>4, FillsInParts, Zenon
  <2> QED
    BY <1>4, <1>6, <2>2, <2>5, Zenon
<1> QED
  BY <1>5, <1>6, Zenon

-----------------------------------------------------------------------------
(* The theorem *)

\* What an identity was granted and still has never exceeds what it started with
\* and what was refilled.
AccountInv ==
    \A k \in Identities :
       granted[k] * RefillPeriod + Level(k, last) <= FullCredit + last * RefillTokens

RateInv == RateTypes /\ TableInv /\ RetrySuffices /\ AccountInv

\* The buckets of the abstract specification fill alike.
LEMMA BucketFills ==
  ASSUME NEW l, NEW e
  PROVE  Bucket!Fill(l, e) = Filled(l, e)
BY Zenon DEF Bucket!Fill, Filled

\* A decision of the table is a decision of the bucket of its identity.
LEMMA DecisionRefines ==
  ASSUME RateTypes, TableInv, RateTypes', TableInv',
         NEW k \in Identities, NEW t \in 0 .. RateTime, t >= last, NEW i,
         TableAfter(k, t, i), Outcome(k, t, i)
  PROVE  Bucket!BucketNext
<1> DEFINE l == Level(k, t)
           lev == [j \in Identities |-> Level(j, last)]
           lev1 == [j \in Identities |-> Level(j, last)']
           dec1 == [key |-> decision'.key, kind |-> decision'.kind]
<1>1. t \in Nat /\ last' = t
  BY Limits DEF TableAfter
<1>2. \A j \in Identities : Level(j, t) = Bucket!Fill(lev[j], t - last) /\ Level(j, t) \in Credits
  BY <1>1, LevelsFill, BucketFills, Zenon
<1>3. /\ \A j \in Identities : j # k => lev1[j] = Level(j, t)
      /\ lev1[k] = IF i = 0 THEN FullCredit ELSE credit'[i]
  BY <1>1, LevelsMove, SMTT(60)
<1>4. dec1.key = k
  BY DEF Outcome
<1> HIDE DEF lev, lev1, dec1
<1>5. lev1 = [j \in Identities |-> lev1[j]]
  BY Zenon DEF lev1
<1>6. l \in Nat /\ RefillPeriod \in Nat
  BY <1>2, Limits DEF Credits
<1>7. CASE i # 0 /\ l < RefillPeriod
  <2>1. credit'[i] = l /\ granted' = granted /\ dec1 = [key |-> k, kind |-> "limited"]
    BY <1>6, <1>7 DEF Outcome, dec1
  <2>2. lev1 = [j \in Identities |-> Bucket!Fill(lev[j], t - last)]
    BY <1>2, <1>3, <1>5, <1>7, <2>1, SMTT(60)
  <2>3. Bucket!Limit(k, t)
    BY <1>1, <1>2, <1>7, <2>1, <2>2, Zenon DEF Bucket!Limit, Bucket!Decides, lev, lev1, dec1
  <2> QED
    BY <1>1, <1>4, <2>3, SMTT(60) DEF Bucket!BucketNext, dec1
<1>8. CASE i # 0 /\ l >= RefillPeriod
  <2>1. /\ credit'[i] = l - RefillPeriod /\ granted' = [granted EXCEPT ![k] = granted[k] + 1]
        /\ dec1 = [key |-> k, kind |-> "allow"]
    BY <1>6, <1>8, SMTT(60) DEF Outcome, dec1
  <2>2. lev1 = [j \in Identities |-> IF j = k THEN Bucket!Fill(lev[j], t - last) - RefillPeriod
                                               ELSE Bucket!Fill(lev[j], t - last)]
    BY <1>2, <1>3, <1>5, <1>8, <2>1, SMTT(60)
  <2>3. Bucket!Grant(k, t)
    BY <1>1, <1>2, <1>8, <2>1, <2>2, Zenon DEF Bucket!Grant, Bucket!Decides, lev, lev1, dec1
  <2> QED
    BY <1>1, <1>4, <2>3, SMTT(60) DEF Bucket!BucketNext, dec1
<1>9. CASE i = 0
  <2>1. l = FullCredit /\ granted' = granted /\ dec1 = [key |-> k, kind |-> "full"]
    BY <1>9 DEF Outcome, dec1
  <2>2. lev1 = [j \in Identities |-> Bucket!Fill(lev[j], t - last)]
    BY <1>2, <1>3, <1>5, <1>9, <2>1, SMTT(60)
  <2>3. Bucket!TurnAway(k, t)
    BY <1>1, <1>2, <1>9, <2>1, <2>2, Zenon DEF Bucket!TurnAway, Bucket!Decides, lev, lev1, dec1
  <2> QED
    BY <1>1, <1>4, <2>3, SMTT(60) DEF Bucket!BucketNext, dec1
<1> QED
  BY <1>7, <1>8, <1>9, Zenon DEF Outcome

\* A 429 asks for a wait that is long enough.
LEMMA DecisionRetries ==
  ASSUME RateTypes, TableInv, RateTypes', TableInv',
         NEW k \in Identities, NEW t \in 0 .. RateTime, t >= last, NEW i,
         TableAfter(k, t, i), Outcome(k, t, i)
  PROVE  RetrySuffices'
<1> DEFINE l == Level(k, t)
           m == CeilDiv(RefillPeriod - l, RefillTokens)
           w == CeilDiv(m, Second)
<1> SUFFICES ASSUME decision'.kind = "limited"
             PROVE  /\ decision'.wait > 0
                    /\ Level(decision.key, last + decision.wait * Second)' >= RefillPeriod
  BY SMTT(60) DEF RetrySuffices
<1>1. i # 0 /\ l < RefillPeriod /\ credit'[i] = l /\ decision'.key = k /\ decision'.wait = w
  BY DEF Outcome
<1>2. t \in Nat /\ l \in Nat /\ RefillPeriod \in Nat /\ RefillPeriod - l \in Nat /\ RefillPeriod - l > 0
  <2>1. t \in Nat /\ l \in Credits
    BY Limits, LevelsFill
  <2> QED
    BY <1>1, <2>1, Limits DEF Credits
<1> HIDE DEF l
<1>3. m \in Nat /\ m > 0 /\ (\A e \in Nat : e >= m => e * RefillTokens >= RefillPeriod - l)
  BY <1>2, CeilDivReaches, Limits, Zenon
<1> HIDE DEF m
<1>4. w \in Nat /\ w > 0 /\ (\A e \in Nat : e >= w => e * Second >= m)
  BY <1>3, CeilDivReaches, Limits, Zenon
<1> HIDE DEF w
<1>5. PICK n \in Nat : n = w * Second /\ n >= m
  BY <1>4, TimesOrder, Limits, SMTT(60)
<1>6. Level(decision.key, last + decision.wait * Second)' = Level(k, last + n)'
  BY <1>1, <1>5, SMTT(60) DEF Level, Known, Refilled
<1>7. Level(k, last + n)' = Filled(l, n)
  BY <1>1, <1>2, <1>5, LevelsMove
<1>8. n * RefillTokens >= RefillPeriod - l /\ n * RefillTokens \in Nat
  BY <1>3, <1>5, TimesOrder, Limits, Zenon
<1>9. Filled(l, n) >= RefillPeriod
  BY <1>2, <1>8, Limits DEF Filled
<1> QED
  BY <1>1, <1>4, <1>6, <1>7, <1>9, Zenon

\* What is granted is paid for.
LEMMA DecisionAccounts ==
  ASSUME RateTypes, TableInv, RateTypes', TableInv', AccountInv,
         NEW k \in Identities, NEW t \in 0 .. RateTime, t >= last, NEW i,
         TableAfter(k, t, i), Outcome(k, t, i)
  PROVE  AccountInv'
<1>1. t \in Nat /\ last \in Nat /\ t - last \in Nat /\ last' = t
  BY Limits, UsedSlots DEF TableAfter
<1> DEFINE x == last * RefillTokens
           y == (t - last) * RefillTokens
<1>2. x \in Nat /\ y \in Nat /\ t * RefillTokens = x + y
  <2>1. last + (t - last) = t
    BY <1>1
  <2>2. x \in Nat /\ y \in Nat /\ (last + (t - last)) * RefillTokens = x + y
    BY <1>1, TimesOrder, Limits, SMTT(60)
  <2> QED
    BY <2>1, <2>2, Zenon
<1> SUFFICES ASSUME NEW j \in Identities
             PROVE  granted'[j] * RefillPeriod + Level(j, last)' <= FullCredit + t * RefillTokens
  BY <1>1, Zenon DEF AccountInv
<1> DEFINE p == granted[j] * RefillPeriod
           lev == Level(j, last)
           new == Level(j, t)
<1>3. p + lev <= FullCredit + x
  BY SMTT(60) DEF AccountInv
<1>4. granted[j] \in Nat /\ p \in Nat /\ FullCredit \in Nat /\ RefillPeriod \in Nat
  BY TimesOrder, Limits, Zenon DEF RateTypes
<1>5. new = Filled(lev, t - last) /\ new \in Credits /\ lev \in Credits
  BY <1>1, LevelsFill, Zenon
<1>6. lev \in Nat /\ new \in Nat
  BY <1>5, Limits DEF Credits
<1>7. new <= lev + y
  <2>1. new = IF lev + y >= FullCredit THEN FullCredit ELSE lev + y
    BY <1>5, SMTT(60) DEF Filled
  <2> HIDE DEF lev, new, y
  <2> QED
    BY <1>2, <1>4, <1>6, <2>1
<1> HIDE DEF x, y
<1>8. CASE j # k
  <2>1. Level(j, last)' = new
    BY <1>1, <1>8, LevelsMove, SMTT(60)
  <2>2. granted'[j] = granted[j]
    BY <1>8, Zenon DEF Outcome, RateTypes
  <2> HIDE DEF lev, new
  <2> QED
    BY <1>2, <1>3, <1>4, <1>6, <1>7, <2>1, <2>2, SMTT(60)
<1>9. CASE j = k
  <2>1. Level(j, last)' = IF i = 0 THEN FullCredit ELSE credit'[i]
    BY <1>1, <1>9, LevelsMove, Zenon
  <2>2. CASE granted' = granted
    <3>1. Level(j, last)' = new
      BY <1>9, <2>1, <2>2, <1>4, <1>6, SMTT(60) DEF Outcome, RateTypes
    <3> HIDE DEF lev, new
    <3> QED
      BY <1>2, <1>3, <1>4, <1>6, <1>7, <2>2, <3>1, SMTT(60)
  <2>3. CASE granted' # granted
    <3>1. Level(j, last)' = new - RefillPeriod /\ granted'[j] = granted[j] + 1
      BY <1>9, <2>1, <2>3, Zenon DEF Outcome, RateTypes
    <3>2. (granted[j] + 1) * RefillPeriod = p + RefillPeriod
      BY <1>4, SMTT(60)
    <3> HIDE DEF p, lev, new
    <3> QED
      BY <1>2, <1>3, <1>4, <1>6, <1>7, <3>1, <3>2, SMTT(60)
  <2> QED
    BY <2>2, <2>3, Zenon
<1> QED
  BY <1>8, <1>9, SMTT(60)

\* A step that takes no decision: the clock ticks, a caller reads it, or a caller
\* is refused before it reaches the table.
LEMMA QuietStep ==
  ASSUME RateInv, UNCHANGED limiter,
         \/ RateTick
         \/ \E c \in limiter.owners :
              \/ \E k \in limiter.identities : ReadClock(c, k)
              \/ TimeGoesBack(c) \/ KeyDenied(c)
  PROVE  RateInv' /\ UNCHANGED Bucket!bucketVars
<1>1. UNCHANGED <<last, used, key, credit, updated, granted, decision>>
  BY SMTT(60) DEF RateTick, ReadClock, TimeGoesBack, KeyDenied, slotVars
<1>2. UNCHANGED Bucket!bucketVars
  BY <1>1, SMTT(60) DEF Bucket!bucketVars, Level, Known, Refilled
<1>3. RetrySuffices'
  BY <1>1, SMTT(60) DEF RateInv, RetrySuffices, Level, Known, Refilled
<1>4. AccountInv'
  BY <1>1, SMTT(60) DEF RateInv, AccountInv, Level, Known, Refilled
<1> DEFINE Calls == /\ rateClock' \in 0 .. RateTime
                    /\ readTime' \in [RateOwners -> -1 .. RateTime]
                    /\ arg' \in [RateOwners -> Identities \union {NoIdentity}]
                    /\ \A c \in RateOwners : readTime'[c] # -1 => arg'[c] \in Identities
<1>5. Calls
  <2>1. RateTypes /\ TableInv /\ RateTime \in Nat /\ limiter.owners \subseteq RateOwners
        /\ limiter.identities \subseteq Identities
    BY Limits, RateAssumption, SMTT(60) DEF RateInv, RateTypes
  <2>2. CASE RateTick
    BY <2>1, <2>2, SMTT(60) DEF RateTick, RateTypes, TableInv
  <2>3. ASSUME NEW c \in limiter.owners, NEW k \in limiter.identities, ReadClock(c, k)
        PROVE  Calls
    <3>1. rateClock \in -1 .. RateTime
      BY <2>1, SMTT(60) DEF RateTypes
    <3> QED
      BY <2>1, <2>3, <3>1, SMTT(60) DEF ReadClock, RateTypes, TableInv
  <2>4. ASSUME NEW c \in limiter.owners, TimeGoesBack(c) \/ KeyDenied(c)
        PROVE  Calls
    <3>1. c \in RateOwners /\ Decided(c)
      BY <2>1, <2>4, SMTT(60) DEF TimeGoesBack, KeyDenied
    <3>2. \A b \in RateOwners : readTime'[b] # -1 => arg'[b] \in Identities
      BY <2>1, <3>1, SMTT(60) DEF Decided, RateTypes, TableInv
    <3> QED
      BY <2>1, <3>1, <3>2, DecidedTypes, SMTT(60)
  <2> QED
    BY <2>2, <2>3, <2>4, SMTT(60)
<1>6. RateTypes'
  BY <1>1, <1>5, SMTT(60) DEF RateInv, RateTypes
<1>7. TableInv'
  BY <1>1, <1>5, SMTT(60) DEF RateInv, TableInv
<1> QED
  BY <1>2, <1>3, <1>4, <1>6, <1>7, SMTT(60) DEF RateInv

\* A decision keeps the invariant and is a step of the buckets.
LEMMA DecisionStep ==
  ASSUME RateInv, RateTypes', TableInv', NEW k \in Identities, NEW t \in 0 .. RateTime, t >= last,
         \E i : TableAfter(k, t, i) /\ Outcome(k, t, i)
  PROVE  RateInv' /\ Bucket!BucketNext
<1>1. PICK i : TableAfter(k, t, i) /\ Outcome(k, t, i)
  BY Zenon
<1>2. RateTypes /\ TableInv /\ AccountInv
  BY Zenon DEF RateInv
<1>3. Bucket!BucketNext
  BY <1>1, <1>2, DecisionRefines, Zenon
<1>4. RetrySuffices' /\ AccountInv'
  BY <1>1, <1>2, DecisionRetries, DecisionAccounts, SMTT(60)
<1> QED
  BY <1>3, <1>4, Zenon DEF RateInv

\* The identity has a slot.
LEMMA KnownStep ==
  ASSUME RateInv, UNCHANGED limiter, NEW c \in limiter.owners, AdmitKnown(c)
  PROVE  RateInv' /\ Bucket!BucketNext
<1>1. RateTypes /\ TableInv /\ readTime[c] # -1 /\ readTime[c] >= last
  BY SMTT(60) DEF RateInv, AdmitKnown
<1> QED
  BY <1>1, CallerReady, KnownDecided, DecisionStep, SMTT(60)

\* It takes one that is full.
LEMMA ReuseStep ==
  ASSUME RateInv, UNCHANGED limiter, NEW c \in limiter.owners, AdmitReuse(c)
  PROVE  RateInv' /\ Bucket!BucketNext
<1>1. /\ RateTypes /\ TableInv /\ readTime[c] # -1 /\ readTime[c] >= last /\ ~Known(arg[c])
      /\ last' = readTime[c] /\ used' = used
  BY Zenon DEF RateInv, AdmitReuse
<1>2. PICK i \in FullSlots(readTime[c]) : TakeSlot(c, arg[c], readTime[c], i)
  BY Zenon DEF AdmitReuse
<1>3. i \in RateSlots
  BY <1>1, UsedSlots, SMTT(60) DEF FullSlots
<1> QED
  BY <1>1, <1>2, <1>3, CallerReady, TakeDecided, DecisionStep, Zenon

\* It takes a new one.
LEMMA NewStep ==
  ASSUME RateInv, UNCHANGED limiter, NEW c \in limiter.owners, AdmitNew(c)
  PROVE  RateInv' /\ Bucket!BucketNext
<1>1. /\ RateTypes /\ TableInv /\ readTime[c] # -1 /\ readTime[c] >= last /\ ~Known(arg[c])
      /\ last' = readTime[c] /\ used' = used + 1 /\ used < limiter.capacity
      /\ TakeSlot(c, arg[c], readTime[c], used + 1)
  BY Zenon DEF RateInv, AdmitNew
<1>2. used + 1 \in RateSlots
  BY <1>1, UsedSlots
<1> QED
  BY <1>1, <1>2, CallerReady, TakeDecided, DecisionStep, Zenon

\* There is none for it.
LEMMA FullStep ==
  ASSUME RateInv, UNCHANGED limiter, NEW c \in limiter.owners, NoCapacity(c)
  PROVE  RateInv' /\ Bucket!BucketNext
<1>1. RateTypes /\ TableInv /\ readTime[c] # -1 /\ readTime[c] >= last
  BY Zenon DEF RateInv, NoCapacity
<1> QED
  BY <1>1, CallerReady, FullDecided, DecisionStep, SMTT(60)

\* Every step keeps the invariant and is a step of the buckets, or none of theirs.
LEMMA RateStep ==
  ASSUME RateInv, [RateNext]_rateVars
  PROVE  RateInv' /\ [Bucket!BucketNext]_Bucket!bucketVars
<1>1. CASE UNCHANGED rateVars
  <2>1. UNCHANGED Bucket!bucketVars
    BY <1>1, SMTT(60) DEF rateVars, Bucket!bucketVars, Level, Known, Refilled
  <2>2. RateInv'
    BY <1>1 DEF rateVars, RateInv, RateTypes, TableInv, RetrySuffices, AccountInv, Level, Known, Refilled
  <2> QED
    BY <2>1, <2>2, Zenon
<1>2. CASE RateNext
  BY <1>2, QuietStep, KnownStep, ReuseStep, NewStep, FullStep, ZenonT(60) DEF RateNext, RateCall
<1> QED
  BY <1>1, <1>2, Zenon

\* The initial table keeps the invariant and is that of full buckets.
LEMMA RateStart ==
  ASSUME RateInit
  PROVE  RateInv /\ Bucket!BucketInit
<1>1. used = 0 /\ last = 0 /\ granted = [k \in Identities |-> 0]
  BY SMTT(60) DEF RateInit
<1>2. RateTypes
  <2>1. 0 \in Credits /\ 0 \in 0 .. RateTime /\ -1 \in -1 .. RateTime
    BY Limits, SMTT(60) DEF Credits
  <2>2. 0 \in 0 .. limiter.capacity
    BY RateAssumption, SMTT(60) DEF RateInit
  <2> QED
    BY <2>1, <2>2, Zenon DEF RateInit, RateTypes
<1>3. TableInv
  BY DEF RateInit, TableInv
<1>4. \A k : Level(k, last) = FullCredit
  BY <1>1, <1>2, <1>3, LevelsFollow, SMTT(60) DEF LevelFacts
<1>5. RetrySuffices
  BY Zenon DEF RateInit, RetrySuffices
<1>6. AccountInv
  <2>1. 0 * RefillPeriod = 0 /\ 0 * RefillTokens = 0 /\ FullCredit \in Nat
    BY Limits, SMTT(60)
  <2> QED
    BY <1>1, <1>4, <2>1 DEF AccountInv
<1>7. Bucket!BucketInit
  BY <1>1, <1>4, Zenon DEF RateInit, Bucket!BucketInit
<1> QED
  BY <1>2, <1>3, <1>5, <1>6, <1>7, SMTT(60) DEF RateInv

\* The account bounds what was granted.
LEMMA AccountBounds ==
  ASSUME RateInv
  PROVE  AdmissionsBounded
<1> SUFFICES ASSUME NEW k \in Identities
             PROVE  granted[k] * RefillPeriod <= FullCredit + last * RefillTokens
  BY Zenon DEF AdmissionsBounded
<1>1. last \in Nat /\ last >= last
  BY UsedSlots DEF RateInv
<1>2. Level(k, last) \in Credits
  BY <1>1, LevelsFill, SMTT(60) DEF RateInv
<1>3. granted[k] * RefillPeriod \in Nat /\ last * RefillTokens \in Nat
  BY <1>1, TimesOrder, Limits, Zenon DEF RateInv, RateTypes
<1>4. granted[k] * RefillPeriod + Level(k, last) <= FullCredit + last * RefillTokens
  BY Zenon DEF RateInv, AccountInv
<1>5. Level(k, last) \in Nat /\ FullCredit \in Nat
  BY <1>2, Limits DEF Credits
<1> QED
  BY <1>3, <1>4, <1>5

\* The limiter implements one token bucket per identity, whatever the burst, the
\* rate, the size of the table and the number of owners that share it; no
\* identity is admitted beyond its burst and refill, and Retry-After suffices.
THEOREM LimiterKeepsBuckets == RateSpec => BucketsKept
<1>1. RateInit => RateInv /\ Bucket!BucketInit
  BY RateStart, Zenon
<1>2. RateInv /\ [RateNext]_rateVars => RateInv' /\ [Bucket!BucketNext]_Bucket!bucketVars
  BY RateStep, Zenon
<1>3. RateInv => RetrySuffices /\ AdmissionsBounded
  BY AccountBounds, Zenon DEF RateInv
<1> QED
  BY <1>1, <1>2, <1>3, PTL DEF RateSpec, BucketsKept, Bucket!BucketSpec

=============================================================================
