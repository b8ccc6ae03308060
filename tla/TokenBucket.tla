----------------------------- MODULE TokenBucket -----------------------------
(***************************************************************************)
(* What a rate limiter promises (src/http_server/include/http_server/      *)
(* rate_limit.h): every identity has a token bucket of its own, filled     *)
(* continuously up to the burst, and an admission takes one token from it. *)
(* There is no table, no slot and no reuse.  Identities may be turned away *)
(* for lack of room only while their own bucket is full, so that no debt   *)
(* is ever forgotten.                                                      *)
(***************************************************************************)
EXTENDS Naturals

CONSTANTS Keys, NoKey, MaxLevel, Rate, Charge, Times

VARIABLES
    level,     \* credit of every identity at the time of the last decision
    time,      \* time of the last decision
    granted,   \* admissions of every identity so far
    decision   \* the last decision: its identity and its outcome

bucketVars == <<level, time, granted, decision>>

Fill(l, elapsed) ==
    IF l + elapsed * Rate >= MaxLevel THEN MaxLevel ELSE l + elapsed * Rate

BucketInit ==
    /\ level = [k \in Keys |-> MaxLevel]
    /\ time = 0
    /\ granted = [k \in Keys |-> 0]
    /\ decision = [key |-> NoKey, kind |-> "none"]

\* The next decision is taken at time t, for identity k and of this kind; all
\* buckets fill up to t.
Decides(k, t, kind) ==
    /\ k \in Keys /\ t \in Times /\ t >= time
    /\ decision' = [key |-> k, kind |-> kind]
    /\ time' = t

Grant(k, t) ==
    /\ Decides(k, t, "allow")
    /\ Fill(level[k], t - time) >= Charge
    /\ level' = [j \in Keys |-> IF j = k THEN Fill(level[j], t - time) - Charge
                                         ELSE Fill(level[j], t - time)]
    /\ granted' = [granted EXCEPT ![k] = granted[k] + 1]

Limit(k, t) ==
    /\ Decides(k, t, "limited")
    /\ Fill(level[k], t - time) < Charge
    /\ level' = [j \in Keys |-> Fill(level[j], t - time)]
    /\ UNCHANGED granted

TurnAway(k, t) ==
    /\ Decides(k, t, "full")
    /\ Fill(level[k], t - time) = MaxLevel
    /\ level' = [j \in Keys |-> Fill(level[j], t - time)]
    /\ UNCHANGED granted

BucketNext ==
    LET k == decision'.key
        t == time'
    IN  Grant(k, t) \/ Limit(k, t) \/ TurnAway(k, t)

BucketSpec == BucketInit /\ [][BucketNext]_bucketVars
=============================================================================
