----------------------------- MODULE RateLimiter -----------------------------
(***************************************************************************)
(* internal/ratelimit: a token bucket and a daily counter per client, with *)
(* limits that a configuration reload may change under the callers.        *)
(*                                                                         *)
(* Time is counted in ticks and tokens in units: a call costs Unit units,  *)
(* a bucket of rate r gains r units a tick and holds at most the gain of   *)
(* Burst ticks (the 10 seconds of the code), but always room for one call. *)
(* The code's float64 arithmetic is exact here.                            *)
(***************************************************************************)
EXTENDS Integers

CONSTANTS
    Clients,    \* client ids
    Callers,    \* goroutines that call Allow
    Rates,      \* the rates (qps) a configuration may ask for
    Quotas,     \* the daily quotas it may ask for, 0 for none
    Unit,       \* units one call costs
    Burst,      \* ticks of gain a bucket holds
    Day,        \* ticks in a day
    MaxTime     \* bound on the clock

ASSUME LimitsAssumption == Rates \subseteq Nat /\ Quotas \subseteq Nat
ASSUME UnitAssumption ==
    Unit \in Nat \ {0} /\ Burst \in Nat /\ Day \in Nat \ {0} /\ MaxTime \in Nat

VARIABLES
    enabled, qps, dailyQuota,   \* the active limits
    buckets,    \* client -> its bucket; a client outside DOMAIN has none
    counts,     \* client -> its daily counter, likewise
    entering,   \* callers past the unlocked check of enabled
    now,        \* the clock
    born,       \* history: when the bucket of a client was made
    granted     \* history: calls that bucket has paid for

limits == <<enabled, qps, dailyQuota>>
limiterVars == <<limits, buckets, counts, entering, now, born, granted>>

Larger(a, b) == IF a > b THEN a ELSE b
Smaller(a, b) == IF a < b THEN a ELSE b

Today == now \div Day

Empty == [c \in {} |-> 0]
With(f, c, v) == [d \in DOMAIN f \cup {c} |-> IF d = c THEN v ELSE f[d]]

LimiterInit ==   \* NewTokenBucketManager
    /\ enabled \in BOOLEAN /\ qps \in Rates /\ dailyQuota \in Quotas
    /\ buckets = Empty /\ counts = Empty
    /\ entering = {}
    /\ now = 0
    /\ born = [c \in Clients |-> 0]
    /\ granted = [c \in Clients |-> 0]

-----------------------------------------------------------------------------
(* The counter of a client, made anew when the date has changed.           *)
DailyCount(c) ==
    IF c \in DOMAIN counts /\ counts[c].date = Today
    THEN counts[c] ELSE [date |-> Today, count |-> 0]

QuotaSpent(c) == dailyQuota > 0 /\ DailyCount(c).count >= dailyQuota

NewBucket ==
    LET capacity == Larger(qps * Burst, Unit)
    IN  [capacity |-> capacity, tokens |-> capacity, rate |-> qps, last |-> now]

\* Mutant: the gain is added and the moment is not remembered.
RefillAgain(b) ==
    [b EXCEPT !.tokens = Smaller(b.tokens + (now - b.last) * b.rate, b.capacity)]

Refill(b) ==
    [b EXCEPT !.tokens = Smaller(b.tokens + (now - b.last) * b.rate, b.capacity),
              !.last = now]

(* The bucket of a client, made if it has none, and refilled.              *)
CurrentBucket(c) == Refill(IF c \in DOMAIN buckets THEN buckets[c] ELSE NewBucket)

(* Allow(c) starts with a load of enabled, before the mutex is taken; it   *)
(* returns true at once when limiting is off.                              *)
CheckEnabled(p, c) ==
    /\ enabled
    /\ \A e \in entering : e.caller # p
    /\ entering' = entering \cup {[caller |-> p, client |-> c]}
    /\ UNCHANGED <<limits, buckets, counts, now, born, granted>>

(* The rest of Allow runs under the mutex: refused by the quota, before    *)
(* the bucket is looked at;                                                *)
RefuseByQuota(e) ==
    LET c == e.client IN
    /\ QuotaSpent(c)
    /\ counts' = With(counts, c, DailyCount(c))
    /\ entering' = entering \ {e}
    /\ UNCHANGED <<limits, buckets, now, born, granted>>

(* or refilled, and then refused or granted by the bucket.                 *)
Settle(e, tokens, calls) ==
    LET c == e.client IN
    /\ buckets' = With(buckets, c, [CurrentBucket(c) EXCEPT !.tokens = tokens])
    /\ counts' = With(counts, c, [DailyCount(c) EXCEPT !.count = @ + calls])
    /\ born' = IF c \in DOMAIN buckets THEN born ELSE [born EXCEPT ![c] = now]
    /\ granted' = [granted EXCEPT ![c] =
           (IF c \in DOMAIN buckets THEN granted[c] ELSE 0) + calls]
    /\ entering' = entering \ {e}
    /\ UNCHANGED <<limits, now>>

RefuseByBucket(e) ==
    LET tokens == CurrentBucket(e.client).tokens IN
    /\ ~QuotaSpent(e.client)
    /\ tokens < Unit
    /\ Settle(e, tokens, 0)

\* Mutant: the call is granted whatever the bucket holds.
GrantUnpaid(e) ==
    /\ ~QuotaSpent(e.client)
    /\ Settle(e, CurrentBucket(e.client).tokens - Unit, 1)

\* Mutant: the quota is not consulted.
GrantOverQuota(e) ==
    LET tokens == CurrentBucket(e.client).tokens IN
    /\ tokens >= Unit
    /\ Settle(e, tokens - Unit, 1)

Grant(e) ==
    LET tokens == CurrentBucket(e.client).tokens IN
    /\ ~QuotaSpent(e.client)
    /\ tokens >= Unit
    /\ Settle(e, tokens - Unit, 1)

\* Mutant: the buckets and counters of the old limits stay.
ReloadKeepsState(on, rate, quota) ==
    /\ enabled' = on /\ qps' = rate /\ dailyQuota' = quota
    /\ UNCHANGED <<buckets, counts, entering, now, born, granted>>

(* A configuration reload; it takes effect whole, under the mutex, but for *)
(* the callers that have read enabled already.                             *)
Reload(on, rate, quota) ==
    /\ enabled' = on /\ qps' = rate /\ dailyQuota' = quota
    /\ buckets' = Empty /\ counts' = Empty
    /\ UNCHANGED <<entering, now, born, granted>>

Tick ==
    /\ now < MaxTime
    /\ now' = now + 1
    /\ UNCHANGED <<limits, buckets, counts, entering, born, granted>>

LimiterNext ==
    \/ \E p \in Callers, c \in Clients : CheckEnabled(p, c)
    \/ \E e \in entering : RefuseByQuota(e) \/ RefuseByBucket(e) \/ Grant(e)
    \/ \E on \in BOOLEAN, rate \in Rates, quota \in Quotas : Reload(on, rate, quota)
    \/ Tick

LimiterSpec == LimiterInit /\ [][LimiterNext]_limiterVars
-----------------------------------------------------------------------------
Buckets == [capacity : Nat, tokens : Nat, rate : Nat, last : Nat]
Counts == [date : Nat, count : Nat]

(* Type correctness; in particular the tokens of a bucket are never spent  *)
(* below zero, and neither a counter nor a history goes down.              *)
LimiterTypeOK ==
    /\ enabled \in BOOLEAN /\ qps \in Rates /\ dailyQuota \in Quotas
    /\ DOMAIN buckets \subseteq Clients /\ buckets \in [DOMAIN buckets -> Buckets]
    /\ DOMAIN counts \subseteq Clients /\ counts \in [DOMAIN counts -> Counts]
    /\ entering \subseteq [caller : Callers, client : Clients]
    /\ now \in Nat
    /\ born \in [Clients -> Nat]
    /\ granted \in [Clients -> Nat]

(* Conservation: since the bucket of a client was made it has paid for no  *)
(* more than its burst plus what it gained over time, whatever the         *)
(* interleaving of callers, clients and ticks.                             *)
NoOvergrant ==
    \A c \in DOMAIN buckets :
        LET b == buckets[c]
        IN  /\ b.tokens <= b.capacity
            /\ b.tokens + Unit * granted[c] <= b.capacity + b.rate * (b.last - born[c])
            /\ born[c] <= b.last /\ b.last <= now

(* A client never has more calls counted for a day than the quota now in   *)
(* force, even right after a reload has lowered it.                        *)
QuotaHolds ==
    \A c \in DOMAIN counts :
        dailyQuota > 0 => counts[c].count <= dailyQuota

(* tokenbucket.go:47-48: a reload takes effect immediately and is not      *)
(* "diluted by stale buckets": every bucket works with the active rate.    *)
LimitsInForce ==
    \A c \in DOMAIN buckets :
        buckets[c].rate = qps /\ buckets[c].capacity = Larger(qps * Burst, Unit)
=============================================================================
