----------------------------- MODULE ReloadProofs -----------------------------
(***************************************************************************)
(* Theorems about ConfigReload and about RateLimiter, the component that a *)
(* reload changes under its callers.                                       *)
(*                                                                         *)
(* ConfigReload, for any number of consoles and of edits: types, that no   *)
(* configuration stays active with restart-required fields nobody was told *)
(* of, and that a reload that met no other one leaves all components with  *)
(* the active configuration.  RateLimiter, for any clients, callers,       *)
(* rates, quotas and lengths of a tick, a burst and a day.                 *)
(***************************************************************************)
EXTENDS ConfigReload, RateLimiter, TLAPS

-----------------------------------------------------------------------------
(* The reload of the configuration.                                        *)

(* A reload that has read the file holds a configuration that parsed.      *)
Holding == {"loaded", "stored", "limited", "pruned", "alerting", "compared"}
HoldsGood == \A r \in Reloaders : pc[r] \in Holding => loaded[r] \in Applied
TypeInv == TypeOK /\ HoldsGood

(* Where the announcement of the active configuration stands: it was made, *)
(* or a reload that has stored this configuration has still to compare it  *)
(* or to send the alert.  It matters that restartFP itself is announced: a *)
(* reload that finds no difference may then keep silent.                   *)
Pending(r) == pc[r] \in Holding \ {"loaded"} /\ loaded[r] = current
AnnounceInv ==
    /\ restartFP \in announced
    /\ \A r \in Reloaders :
          pc[r] = "compared" /\ r \notin flagged
              => RestartFingerprint(loaded[r]) \in announced
    /\ RestartFingerprint(current) \in announced \/ \E r \in Reloaders : Pending(r)

(* Initial states have their types, and the start configuration counts as  *)
(* announced.                                                              *)
LEMMA InitInv == Init => TypeInv /\ AnnounceInv
<1> SUFFICES ASSUME Init PROVE TypeInv /\ AnnounceInv
  OBVIOUS
<1>1. TypeInv
  <2>1. file \in Configs /\ file.good
    BY DEF Init, Applied
  <2>2. current \in Configs /\ current.good
    BY <2>1 DEF Init, Configs
  <2>3. current \in Applied
    BY <2>2 DEF Applied
  <2>4. mtime \in Nat /\ lastMod \in 0..mtime
    BY DEF Init
  <2>5. Parts \subseteq Applied
    BY <2>3 DEF Init, Parts
  <2>6. HoldsGood
    BY DEF Init, HoldsGood, Holding
  <2>7. announced \subseteq Fields
    BY DEF Init
  <2>8. /\ loaded \in [Reloaders -> Applied \cup {None}]
        /\ pc \in [Reloaders -> {"starting", "idle", "read", "loaded", "stored", "limited",
                                "pruned", "alerting", "compared"}]
    BY DEF Init
  <2> QED BY <2>1, <2>3, <2>4, <2>5, <2>6, <2>7, <2>8 DEF Init, TypeInv, TypeOK
<1>2. AnnounceInv
  BY DEF Init, AnnounceInv, RestartFingerprint, Configs, Applied, Reloaders
<1> QED BY <1>1, <1>2

(* Every step keeps the types, and what a reload holds good.               *)
LEMMA TypeStep == TypeInv /\ [Next]_vars => TypeInv'
<1> SUFFICES ASSUME TypeInv, [Next]_vars PROVE TypeInv'
  OBVIOUS
<1> USE EditsAssumption, ReloadersAssumption
    DEF TypeInv, TypeOK, HoldsGood, Holding, Configs, Applied, Parts, Reloaders, Goto,
        fileVars, partVars, historyVars
<1>1. CASE Edit
  BY <1>1 DEF Edit
<1>2. CASE StartPolling
  BY <1>2 DEF StartPolling
<1>3. CASE Poll
  BY <1>3 DEF Poll, Begin, Busy
<1>4. CASE PruneHourly
  BY <1>4 DEF PruneHourly
<1>5. ASSUME NEW r \in Reloaders, ReloadConfig(r) PROVE TypeInv'
  BY <1>5 DEF ReloadConfig, Begin, Busy
<1>6. ASSUME NEW r \in Reloaders, Step(r) PROVE TypeInv'
  <2>1. CASE Read(r)
    BY <2>1 DEF Read
  <2>2. CASE ReadFails(r)
    BY <2>2 DEF ReadFails
  <2>3. CASE Store(r)
    BY <2>3 DEF Store
  <2>4. CASE ReloadLimiter(r)
    BY <2>4 DEF ReloadLimiter
  <2>5. CASE Prune(r)
    BY <2>5 DEF Prune
  <2>6. CASE ReloadAlerts(r)
    BY <2>6 DEF ReloadAlerts
  <2>7. CASE Compare(r)
    BY <2>7 DEF Compare
  <2>8. CASE Finish(r)
    BY <2>8 DEF Finish, RestartFingerprint
  <2> QED BY <1>6, <2>1, <2>2, <2>3, <2>4, <2>5, <2>6, <2>7, <2>8 DEF Step
<1>7. CASE UNCHANGED vars
  BY <1>7 DEF vars
<1> QED BY <1>1, <1>2, <1>3, <1>4, <1>5, <1>6, <1>7 DEF Next

(* Only Store changes the active configuration, and the reload that stored *)
(* it owes the announcement until Compare or Finish has settled it.        *)
LEMMA AnnounceStep == TypeInv /\ AnnounceInv /\ [Next]_vars => AnnounceInv'
<1> SUFFICES ASSUME TypeInv, AnnounceInv, [Next]_vars PROVE AnnounceInv'
  OBVIOUS
<1> USE DEF TypeInv, TypeOK, Holding, AnnounceInv, Pending, Goto, RestartFingerprint,
            Configs, Applied, fileVars, partVars, historyVars
<1>1. CASE Edit
  BY <1>1 DEF Edit
<1>2. CASE StartPolling
  BY <1>2, ReloadersAssumption DEF StartPolling, Reloaders
<1>3. CASE Poll
  BY <1>3, ReloadersAssumption DEF Poll, Begin, Reloaders
<1>4. CASE PruneHourly
  BY <1>4 DEF PruneHourly
<1>5. ASSUME NEW r \in Reloaders, ReloadConfig(r) PROVE AnnounceInv'
  BY <1>5 DEF ReloadConfig, Begin
<1>6. ASSUME NEW r \in Reloaders, Step(r) PROVE AnnounceInv'
  <2>1. CASE Read(r)
    BY <2>1 DEF Read
  <2>2. CASE ReadFails(r)
    BY <2>2 DEF ReadFails
  <2>3. CASE Store(r)
    BY <2>3 DEF Store
  <2>4. CASE ReloadLimiter(r)
    BY <2>4 DEF ReloadLimiter
  <2>5. CASE Prune(r)
    BY <2>5 DEF Prune
  <2>6. CASE ReloadAlerts(r)
    BY <2>6 DEF ReloadAlerts
  <2>7. CASE Compare(r)
    BY <2>7 DEF Compare
  <2>8. CASE Finish(r)
    <3>1. announced \subseteq announced' /\ RestartFingerprint(loaded[r]) \in announced'
      BY <2>8 DEF Finish
    <3>2. current' = current /\ restartFP' = RestartFingerprint(loaded[r])
      BY <2>8 DEF Finish
    <3>3. \A q \in Reloaders \ {r} : pc'[q] = pc[q] /\ loaded'[q] = loaded[q]
                                     /\ (q \in flagged' <=> q \in flagged)
      BY <2>8 DEF Finish
    <3>4. pc'[r] = "idle"
      BY <2>8 DEF Finish
    <3> QED BY <3>1, <3>2, <3>3, <3>4
  <2> QED BY <1>6, <2>1, <2>2, <2>3, <2>4, <2>5, <2>6, <2>7, <2>8 DEF Step
<1>7. CASE UNCHANGED vars
  BY <1>7 DEF vars
<1> QED BY <1>1, <1>2, <1>3, <1>4, <1>5, <1>6, <1>7 DEF Next

(* Whatever is edited, only configurations that parsed become active or    *)
(* reach a component (Manager.Reload, watcher.go:77-85).                   *)
THEOREM TypeCorrect == Spec => []TypeOK
<1>1. Init => TypeInv
  BY InitInv
<1>2. TypeInv => TypeOK
  BY DEF TypeInv
<1> QED BY <1>1, <1>2, TypeStep, PTL DEF Spec

(* Once reloads have come to rest, the restart-required fields in force    *)
(* are announced or those of the start, whatever reloads overlapped, for   *)
(* any number of consoles and edits (proxy.go:522-540).                    *)
THEOREM RestartAnnouncedAlways == Spec => []RestartAnnounced
<1>1. Init => TypeInv /\ AnnounceInv
  BY InitInv
<1>2. TypeInv /\ AnnounceInv /\ [Next]_vars => (TypeInv /\ AnnounceInv)'
  BY TypeStep, AnnounceStep
<1>3. AnnounceInv => RestartAnnounced
  BY DEF AnnounceInv, RestartAnnounced, Pending, Busy, Holding
<1> QED BY <1>1, <1>2, <1>3, PTL DEF Spec
-----------------------------------------------------------------------------
(* While no reload is between Store and Finish, the components agree with  *)
(* the active configuration, unless an overlap has come between.  A reload *)
(* that has met no other one is alone, and has applied to each component   *)
(* it has passed the configuration that it stored.                         *)
Applying == Holding \ {"loaded"}
Alone(r) == pc[r] \notin {"idle", "starting"} /\ r \notin crowd
TogetherInv ==
    /\ ~overlapped /\ (\A r \in Reloaders : pc[r] \notin Applying)
          => limiter = current /\ pruned = current /\ alerts = current
    /\ \A r \in Reloaders : Alone(r) =>
          /\ \A q \in Reloaders \ {r} : pc[q] \in {"idle", "starting"}
          /\ pc[r] \in Applying => current = loaded[r]
          /\ pc[r] \in {"limited", "pruned", "alerting", "compared"} => limiter = current
          /\ pc[r] \in {"pruned", "alerting", "compared"} => pruned = current
          /\ pc[r] \in {"alerting", "compared"} => alerts = current

LEMMA TogetherStep == TypeOK /\ TogetherInv /\ [Next]_vars => TogetherInv'
<1> SUFFICES ASSUME TypeOK, TogetherInv, [Next]_vars PROVE TogetherInv'
  OBVIOUS
<1> USE DEF TypeOK, TogetherInv, Applying, Holding, Alone, Goto, fileVars, partVars,
            historyVars
<1>1. CASE Edit
  BY <1>1 DEF Edit
<1>2. CASE StartPolling
  BY <1>2, ReloadersAssumption DEF StartPolling, Reloaders
<1>3. ASSUME NEW r \in Reloaders, Begin(r),
             UNCHANGED <<loaded, current, partVars, overlapped>>
      PROVE  TogetherInv'
  <2>1. CASE Busy = {}
    BY <1>3, <2>1 DEF Begin, Busy
  <2>2. CASE Busy # {}
    <3>1. \A q \in Reloaders : ~Alone(q)'
      BY <1>3, <2>2 DEF Begin, Busy
    <3> QED BY <1>3, <3>1 DEF Begin
  <2> QED BY <2>1, <2>2
<1>4. CASE Poll
  BY <1>3, <1>4 DEF Poll, Reloaders
<1>5. CASE PruneHourly
  BY <1>5 DEF PruneHourly
<1>6. ASSUME NEW r \in Reloaders, ReloadConfig(r) PROVE TogetherInv'
  BY <1>3, <1>6 DEF ReloadConfig
<1>7. ASSUME NEW r \in Reloaders, Step(r) PROVE TogetherInv'
  <2>1. CASE Read(r)
    BY <2>1 DEF Read
  <2>2. CASE ReadFails(r)
    BY <2>2 DEF ReadFails
  <2>3. CASE Store(r)
    BY <2>3 DEF Store
  <2>4. CASE ReloadLimiter(r)
    BY <2>4 DEF ReloadLimiter
  <2>5. CASE Prune(r)
    BY <2>5 DEF Prune
  <2>6. CASE ReloadAlerts(r)
    BY <2>6 DEF ReloadAlerts
  <2>7. CASE Compare(r)
    BY <2>7 DEF Compare
  <2>8. CASE Finish(r)
    <3>1. /\ current' = current /\ limiter' = limiter /\ pruned' = pruned /\ alerts' = alerts
          /\ pc[r] = "compared" /\ pc'[r] = "idle" /\ (overlapped' <=> r \in crowd)
      BY <2>8 DEF Finish
    <3>2. \A q \in Reloaders \ {r} :
             pc'[q] = pc[q] /\ loaded'[q] = loaded[q] /\ (q \in crowd' <=> q \in crowd)
      BY <2>8 DEF Finish
    <3>3. CASE r \in crowd
      <4>1. \A q \in Reloaders : Alone(q)' => q # r /\ Alone(q)
        BY <3>1, <3>2
      <4> QED BY <3>1, <3>2, <3>3, <4>1
    <3>4. CASE r \notin crowd
      <4>1. Alone(r) /\ limiter = current /\ pruned = current /\ alerts = current
        BY <3>1, <3>4
      <4>2. \A q \in Reloaders : ~Alone(q)'
        BY <3>1, <3>2, <4>1
      <4> QED BY <3>1, <4>1, <4>2
    <3> QED BY <3>3, <3>4
  <2> QED BY <1>7, <2>1, <2>2, <2>3, <2>4, <2>5, <2>6, <2>7, <2>8 DEF Step
<1>8. CASE UNCHANGED vars
  BY <1>8 DEF vars
<1> QED BY <1>1, <1>2, <1>4, <1>5, <1>6, <1>7, <1>8 DEF Next

(* At rest, the rate limiter, the retention policy and the alerts follow   *)
(* the active configuration, unless the last reload overlapped another     *)
(* (onConfigReload, proxy.go:508-541; README.md:155).                      *)
THEOREM AppliedTogetherAlways == Spec => []AppliedTogether
<1>1. Init => TypeInv /\ TogetherInv
  <2> SUFFICES ASSUME Init PROVE TogetherInv
    BY InitInv
  <2> QED BY DEF Init, TogetherInv, Alone, Applying, Holding
<1>2. TypeInv /\ TogetherInv /\ [Next]_vars => (TypeInv /\ TogetherInv)'
  BY TypeStep, TogetherStep DEF TypeInv
<1>3. TogetherInv => AppliedTogether
  BY DEF TogetherInv, AppliedTogether, Parts, Busy, Applying, Holding
<1> QED BY <1>1, <1>2, <1>3, PTL DEF Spec

-----------------------------------------------------------------------------
(* The rate limiter.                                                       *)

LEMMA TodayType == LimiterTypeOK => Today \in Nat
BY UnitAssumption DEF LimiterTypeOK, Today

LEMMA DailyCountType ==
    ASSUME LimiterTypeOK, NEW c \in Clients
    PROVE  DailyCount(c) \in Counts
BY TodayType DEF LimiterTypeOK, DailyCount, Counts

(* What NewBucket and Refill make: a full bucket, and one that has gained  *)
(* at most what the elapsed ticks are worth.                               *)
LEMMA NewBucketIs ==
    ASSUME LimiterTypeOK
    PROVE  /\ NewBucket \in Buckets
           /\ NewBucket.tokens = NewBucket.capacity
           /\ NewBucket.capacity = Larger(qps * Burst, Unit)
           /\ NewBucket.rate = qps
           /\ NewBucket.last = now
<1>1. qps \in Nat /\ Burst \in Nat /\ Unit \in Nat
  BY LimitsAssumption, UnitAssumption DEF LimiterTypeOK
<1>2. qps * Burst \in Nat
  BY <1>1
<1>3. Larger(qps * Burst, Unit) \in Nat
  BY <1>1, <1>2 DEF Larger
<1> QED BY <1>1, <1>3 DEF NewBucket, Buckets, LimiterTypeOK

LEMMA RefillIs ==
    ASSUME NEW b \in Buckets, now \in Nat, b.last <= now
    PROVE  /\ Refill(b) \in Buckets
           /\ Refill(b).tokens <= b.capacity
           /\ Refill(b).tokens <= b.tokens + (now - b.last) * b.rate
           /\ Refill(b).capacity = b.capacity
           /\ Refill(b).rate = b.rate
           /\ Refill(b).last = now
<1>1. b.tokens \in Nat /\ b.capacity \in Nat /\ b.rate \in Nat /\ b.last \in Nat
  BY DEF Buckets
<1>2. now - b.last \in Nat
  BY <1>1
<1>3. (now - b.last) * b.rate \in Nat
  BY <1>1, <1>2
<1> DEFINE gained == Smaller(b.tokens + (now - b.last) * b.rate, b.capacity)
<1>4. /\ gained \in Nat /\ gained <= b.capacity
      /\ gained <= b.tokens + (now - b.last) * b.rate
  BY <1>1, <1>3 DEF Smaller
<1>5. Refill(b) = [b EXCEPT !.tokens = gained, !.last = now]
  BY DEF Refill
<1> HIDE DEF gained
<1> QED BY <1>4, <1>5 DEF Buckets

(* The books of one client's bucket, before it pays for a call.            *)
Ledger(b, g, t) ==
    /\ b.tokens <= b.capacity
    /\ b.tokens + Unit * g <= b.capacity + b.rate * (b.last - t)
    /\ t <= b.last

LEMMA CurrentBucketIs ==
    ASSUME LimiterTypeOK, NoOvergrant, LimitsInForce, NEW c \in Clients
    PROVE  /\ CurrentBucket(c) \in Buckets
           /\ CurrentBucket(c).rate = qps
           /\ CurrentBucket(c).capacity = Larger(qps * Burst, Unit)
           /\ CurrentBucket(c).last = now
           /\ c \in DOMAIN buckets => Ledger(CurrentBucket(c), granted[c], born[c])
           /\ c \notin DOMAIN buckets => Ledger(CurrentBucket(c), 0, now)
<1> DEFINE b == buckets[c]
<1> now \in Nat /\ Unit \in Nat
  BY UnitAssumption DEF LimiterTypeOK
<1>1. CASE c \in DOMAIN buckets
  <2>1. b \in Buckets /\ b.last <= now
    BY <1>1 DEF LimiterTypeOK, NoOvergrant
  <2>2. CurrentBucket(c) = Refill(b)
    BY <1>1 DEF CurrentBucket
  <2> DEFINE r == Refill(b)
  <2>3. /\ r \in Buckets /\ r.tokens <= b.capacity
        /\ r.tokens <= b.tokens + (now - b.last) * b.rate
        /\ r.capacity = b.capacity /\ r.rate = b.rate /\ r.last = now
    BY <2>1, RefillIs
  <2>4. /\ b.tokens + Unit * granted[c] <= b.capacity + b.rate * (b.last - born[c])
        /\ born[c] <= b.last
    BY <1>1 DEF NoOvergrant
  <2>5. b.rate = qps /\ b.capacity = Larger(qps * Burst, Unit)
    BY <1>1 DEF LimitsInForce
  <2>6. /\ b.tokens \in Nat /\ b.capacity \in Nat /\ b.rate \in Nat /\ b.last \in Nat
        /\ r.tokens \in Nat /\ granted[c] \in Nat /\ born[c] \in Nat
        /\ Unit * granted[c] \in Nat
    BY <2>1, <2>3 DEF Buckets, LimiterTypeOK
  <2>7. b.rate * (b.last - born[c]) + (now - b.last) * b.rate = b.rate * (now - born[c])
    BY <2>6
  <2>8. /\ (now - b.last) * b.rate \in Int /\ b.rate * (b.last - born[c]) \in Int
        /\ b.rate * (now - born[c]) \in Int
    BY <2>6
  <2> HIDE DEF b, r
  <2>9. r.tokens + Unit * granted[c] <= b.capacity + b.rate * (now - born[c])
    BY <2>3, <2>4, <2>6, <2>7, <2>8
  <2>10. Ledger(r, granted[c], born[c])
    BY <2>1, <2>3, <2>4, <2>6, <2>9 DEF Ledger
  <2> QED BY <1>1, <2>2, <2>3, <2>5, <2>10 DEF b, r
<1>2. CASE c \notin DOMAIN buckets
  <2> DEFINE n == NewBucket
             r == Refill(n)
  <2>1. CurrentBucket(c) = r
    BY <1>2 DEF CurrentBucket
  <2>2. /\ n \in Buckets /\ n.tokens = n.capacity /\ n.rate = qps /\ n.last = now
        /\ n.capacity = Larger(qps * Burst, Unit)
    BY NewBucketIs
  <2>3. /\ r \in Buckets /\ r.tokens <= n.capacity
        /\ r.capacity = n.capacity /\ r.rate = n.rate /\ r.last = now
    BY <2>2, RefillIs
  <2> HIDE DEF n, r
  <2>4. r.tokens \in Nat /\ r.capacity \in Nat /\ r.rate \in Nat
    BY <2>3 DEF Buckets
  <2>5. Unit * 0 = 0 /\ r.rate * (r.last - now) = 0
    BY <2>3, <2>4
  <2>6. Ledger(r, 0, now)
    BY <2>2, <2>3, <2>4, <2>5 DEF Ledger
  <2> QED BY <1>2, <2>1, <2>2, <2>3, <2>6
<1> QED BY <1>1, <1>2

-----------------------------------------------------------------------------
LimiterInv == LimiterTypeOK /\ NoOvergrant /\ QuotaHolds /\ LimitsInForce

(* Refusing or granting a call (calls is 0 or 1) keeps the books.          *)
LEMMA SettleStep ==
    ASSUME LimiterInv, NEW e \in entering, NEW calls \in {0, 1},
           NEW tokens \in Nat,
           tokens + Unit * calls = CurrentBucket(e.client).tokens,
           dailyQuota > 0 => DailyCount(e.client).count + calls <= dailyQuota,
           Settle(e, tokens, calls)
    PROVE  LimiterInv'
<1> DEFINE c == e.client
           b == CurrentBucket(c)
           paid == [b EXCEPT !.tokens = tokens]
           dc == [DailyCount(c) EXCEPT !.count = @ + calls]
<1>1. c \in Clients /\ now \in Nat /\ Unit \in Nat /\ calls \in Nat
  BY UnitAssumption DEF LimiterInv, LimiterTypeOK
<1>2. /\ b \in Buckets /\ b.rate = qps /\ b.capacity = Larger(qps * Burst, Unit)
      /\ b.last = now
      /\ c \in DOMAIN buckets => Ledger(b, granted[c], born[c])
      /\ c \notin DOMAIN buckets => Ledger(b, 0, now)
  BY <1>1, CurrentBucketIs DEF LimiterInv
<1>3. /\ paid \in Buckets /\ paid.tokens = tokens /\ paid.capacity = b.capacity
      /\ paid.rate = b.rate /\ paid.last = now
  BY <1>2 DEF Buckets
<1>4. DailyCount(c) \in Counts
  BY <1>1, DailyCountType DEF LimiterInv
<1>5. dc \in Counts /\ dc.count = DailyCount(c).count + calls
  <2> DEFINE x == DailyCount(c)
  <2>1. x \in Counts /\ dc = [x EXCEPT !.count = x.count + calls]
    BY <1>4
  <2> HIDE DEF x, dc
  <2>2. x.count + calls \in Nat
    BY <1>1, <2>1 DEF Counts
  <2>3. dc \in Counts /\ dc.count = x.count + calls
    BY <2>1, <2>2 DEF Counts
  <2> QED BY <2>3 DEF x
<1>6. /\ buckets' = With(buckets, c, paid) /\ counts' = With(counts, c, dc)
      /\ entering' \subseteq entering
      /\ UNCHANGED <<enabled, qps, dailyQuota, now>>
  BY DEF Settle, limits
<1>7. /\ born' = IF c \in DOMAIN buckets THEN born ELSE [born EXCEPT ![c] = now]
      /\ granted' = [granted EXCEPT ![c] =
             (IF c \in DOMAIN buckets THEN granted[c] ELSE 0) + calls]
  BY DEF Settle
<1> HIDE DEF b, paid, dc
<1>8. /\ DOMAIN buckets' = DOMAIN buckets \cup {c}
      /\ buckets' \in [DOMAIN buckets' -> Buckets]
      /\ buckets'[c] = paid
      /\ \A d \in DOMAIN buckets : d # c => buckets'[d] = buckets[d]
  <2>1. buckets \in [DOMAIN buckets -> Buckets]
    BY DEF LimiterInv, LimiterTypeOK
  <2> QED BY <1>3, <1>6, <2>1 DEF With
<1>9. /\ DOMAIN counts' = DOMAIN counts \cup {c}
      /\ counts' \in [DOMAIN counts' -> Counts]
      /\ counts'[c] = dc
      /\ \A d \in DOMAIN counts : d # c => counts'[d] = counts[d]
  <2>1. counts \in [DOMAIN counts -> Counts]
    BY DEF LimiterInv, LimiterTypeOK
  <2> QED BY <1>5, <1>6, <2>1 DEF With
<1>10. LimiterTypeOK'
  <2>1. born' \in [Clients -> Nat] /\ granted' \in [Clients -> Nat]
    <3>1. born \in [Clients -> Nat] /\ granted \in [Clients -> Nat]
      BY DEF LimiterInv, LimiterTypeOK
    <3>2. (IF c \in DOMAIN buckets THEN granted[c] ELSE 0) + calls \in Nat
      BY <1>1, <3>1
    <3>3. granted' \in [Clients -> Nat]
      BY <1>7, <3>1, <3>2
    <3>4. born' \in [Clients -> Nat]
      BY <1>1, <1>7, <3>1
    <3> QED BY <3>3, <3>4
  <2>2. entering' \subseteq [caller : Callers, client : Clients] /\ now' \in Nat
    BY <1>6 DEF LimiterInv, LimiterTypeOK
  <2>3. DOMAIN buckets' \subseteq Clients /\ DOMAIN counts' \subseteq Clients
    BY <1>1, <1>8, <1>9 DEF LimiterInv, LimiterTypeOK
  <2>4. enabled' \in BOOLEAN /\ qps' \in Rates /\ dailyQuota' \in Quotas
    BY <1>6 DEF LimiterInv, LimiterTypeOK
  <2> QED BY <1>8, <1>9, <2>1, <2>2, <2>3, <2>4 DEF LimiterTypeOK
<1>11. Ledger(paid, granted'[c], born'[c])
  <2>1. CASE c \in DOMAIN buckets
    <3>1. granted'[c] = granted[c] + calls /\ born'[c] = born[c] /\ granted[c] \in Nat
      BY <1>1, <1>7, <2>1 DEF LimiterInv, LimiterTypeOK
    <3>2. Unit * (granted[c] + calls) = Unit * granted[c] + Unit * calls
      BY <1>1, <3>1
    <3>3. /\ Unit * granted[c] \in Nat /\ Unit * calls \in Nat /\ b.tokens \in Nat
      BY <1>1, <1>2, <3>1 DEF Buckets
    <3>4. tokens + Unit * calls = b.tokens
      BY DEF b
    <3>5. b.capacity \in Nat
      BY <1>2 DEF Buckets
    <3> QED BY <1>2, <1>3, <2>1, <3>1, <3>2, <3>3, <3>4, <3>5 DEF Ledger
  <2>2. CASE c \notin DOMAIN buckets
    <3>1. granted'[c] = calls /\ born'[c] = now
      BY <1>1, <1>7, <2>2 DEF LimiterInv, LimiterTypeOK
    <3>2. Unit * calls \in Nat /\ b.tokens \in Nat /\ Unit * 0 = 0 /\ b.capacity \in Nat
      BY <1>1, <1>2 DEF Buckets
    <3>3. tokens + Unit * calls = b.tokens
      BY DEF b
    <3> QED BY <1>2, <1>3, <2>2, <3>1, <3>2, <3>3 DEF Ledger
  <2> QED BY <2>1, <2>2
<1>12. \A d \in DOMAIN buckets : d # c => granted'[d] = granted[d] /\ born'[d] = born[d]
  BY <1>7 DEF LimiterInv, LimiterTypeOK
<1>13. NoOvergrant'
  <2> SUFFICES ASSUME NEW d \in DOMAIN buckets'
               PROVE  /\ Ledger(buckets'[d], granted'[d], born'[d])
                      /\ buckets'[d].last <= now'
    BY DEF NoOvergrant, Ledger
  <2>1. CASE d = c
    BY <1>1, <1>3, <1>6, <1>8, <1>11, <2>1
  <2>2. CASE d # c
    <3>1. d \in DOMAIN buckets /\ buckets'[d] = buckets[d]
      BY <1>8, <2>2
    <3> QED BY <1>6, <1>12, <2>2, <3>1 DEF LimiterInv, NoOvergrant, Ledger
  <2> QED BY <2>1, <2>2
<1>14. QuotaHolds'
  BY <1>5, <1>6, <1>9 DEF LimiterInv, QuotaHolds
<1>15. LimitsInForce'
  BY <1>2, <1>3, <1>6, <1>8 DEF LimiterInv, LimitsInForce
<1> QED BY <1>10, <1>13, <1>14, <1>15 DEF LimiterInv

LEMMA LimiterStep ==
    ASSUME LimiterInv, [LimiterNext]_limiterVars
    PROVE  LimiterInv'
<1>1. ASSUME NEW p \in Callers, NEW c \in Clients, CheckEnabled(p, c) PROVE LimiterInv'
  BY <1>1 DEF CheckEnabled, LimiterInv, LimiterTypeOK, NoOvergrant, QuotaHolds,
              LimitsInForce, limits
<1>2. ASSUME NEW e \in entering, RefuseByQuota(e) PROVE LimiterInv'
  <2> DEFINE c == e.client
  <2>1. c \in Clients
    BY DEF LimiterInv, LimiterTypeOK
  <2>2. DailyCount(c) \in Counts
    BY <2>1, DailyCountType DEF LimiterInv
  <2>3. counts' = With(counts, c, DailyCount(c)) /\ entering' \subseteq entering
        /\ UNCHANGED <<enabled, qps, dailyQuota, buckets, now, born, granted>>
    BY <1>2 DEF RefuseByQuota, limits
  <2>4. /\ DOMAIN counts' = DOMAIN counts \cup {c}
        /\ counts' \in [DOMAIN counts' -> Counts]
        /\ counts'[c] = DailyCount(c)
        /\ \A d \in DOMAIN counts : d # c => counts'[d] = counts[d]
    <3>1. counts \in [DOMAIN counts -> Counts]
      BY DEF LimiterInv, LimiterTypeOK
    <3> QED BY <2>2, <2>3, <3>1 DEF With
  <2>5. LimiterTypeOK' /\ NoOvergrant' /\ LimitsInForce'
    BY <2>1, <2>3, <2>4 DEF LimiterInv, LimiterTypeOK, NoOvergrant, LimitsInForce
  <2>6. dailyQuota > 0 => DailyCount(c).count <= dailyQuota
    BY LimitsAssumption DEF LimiterInv, LimiterTypeOK, QuotaHolds, DailyCount
  <2>7. QuotaHolds'
    BY <2>3, <2>4, <2>6 DEF LimiterInv, QuotaHolds
  <2> QED BY <2>5, <2>7 DEF LimiterInv
<1>3. ASSUME NEW e \in entering, ~QuotaSpent(e.client)
      PROVE  /\ e.client \in Clients
             /\ CurrentBucket(e.client).tokens \in Nat
             /\ dailyQuota > 0 => DailyCount(e.client).count + 1 <= dailyQuota
             /\ DailyCount(e.client).count \in Nat
  <2>1. e.client \in Clients
    BY DEF LimiterInv, LimiterTypeOK
  <2>2. DailyCount(e.client) \in Counts /\ CurrentBucket(e.client) \in Buckets
    BY <2>1, DailyCountType, CurrentBucketIs DEF LimiterInv
  <2>3. dailyQuota \in Nat
    BY LimitsAssumption DEF LimiterInv, LimiterTypeOK
  <2> QED BY <1>3, <2>1, <2>2, <2>3 DEF QuotaSpent, Counts, Buckets
<1>4. ASSUME NEW e \in entering, RefuseByBucket(e) PROVE LimiterInv'
  <2>1. ~QuotaSpent(e.client) /\ Settle(e, CurrentBucket(e.client).tokens, 0)
    BY <1>4 DEF RefuseByBucket
  <2>2. dailyQuota \in Nat /\ Unit \in Nat
    BY LimitsAssumption, UnitAssumption DEF LimiterInv, LimiterTypeOK
  <2> QED BY <1>3, <2>1, <2>2, SettleStep
<1>5. ASSUME NEW e \in entering, Grant(e) PROVE LimiterInv'
  <2> DEFINE tokens == CurrentBucket(e.client).tokens
  <2>1. ~QuotaSpent(e.client) /\ tokens >= Unit /\ Settle(e, tokens - Unit, 1)
    BY <1>5 DEF Grant
  <2>2. Unit \in Nat /\ tokens \in Nat
    BY <1>3, <2>1, UnitAssumption
  <2>3. tokens - Unit \in Nat /\ (tokens - Unit) + Unit * 1 = tokens
    BY <2>1, <2>2
  <2> QED BY <1>3, <2>1, <2>3, SettleStep
<1>6. ASSUME NEW on \in BOOLEAN, NEW rate \in Rates, NEW quota \in Quotas,
             Reload(on, rate, quota)
      PROVE  LimiterInv'
  <2>1. DOMAIN buckets' = {} /\ DOMAIN counts' = {}
    BY <1>6 DEF Reload, Empty
  <2>2. buckets' \in [DOMAIN buckets' -> Buckets] /\ counts' \in [DOMAIN counts' -> Counts]
    BY <1>6 DEF Reload, Empty
  <2> QED BY <1>6, <2>1, <2>2
          DEF Reload, LimiterInv, LimiterTypeOK, NoOvergrant, QuotaHolds, LimitsInForce
<1>7. CASE Tick
  BY <1>7 DEF Tick, LimiterInv, LimiterTypeOK, NoOvergrant, QuotaHolds, LimitsInForce,
              limits, Buckets
<1>8. CASE UNCHANGED limiterVars
  BY <1>8 DEF limiterVars, LimiterInv, LimiterTypeOK, NoOvergrant, QuotaHolds,
              LimitsInForce, limits
<1> QED BY <1>1, <1>2, <1>4, <1>5, <1>6, <1>7, <1>8 DEF LimiterNext

LEMMA LimiterInvAlways == LimiterSpec => []LimiterInv
<1>1. LimiterInit => LimiterInv
  <2> SUFFICES ASSUME LimiterInit PROVE LimiterInv
    OBVIOUS
  <2>1. DOMAIN buckets = {} /\ DOMAIN counts = {}
    BY DEF LimiterInit, Empty
  <2>2. buckets \in [DOMAIN buckets -> Buckets] /\ counts \in [DOMAIN counts -> Counts]
    BY DEF LimiterInit, Empty
  <2> QED BY <2>1, <2>2 DEF LimiterInit, LimiterInv, LimiterTypeOK, NoOvergrant,
                            QuotaHolds, LimitsInForce
<1>2. LimiterInv /\ [LimiterNext]_limiterVars => LimiterInv'
  BY LimiterStep
<1> QED BY <1>1, <1>2, PTL DEF LimiterSpec

(* Tokens and counts are never negative, whatever is reloaded and when.    *)
THEOREM LimiterTypeCorrect == LimiterSpec => []LimiterTypeOK
<1>1. LimiterInv => LimiterTypeOK
  BY DEF LimiterInv
<1> QED BY <1>1, LimiterInvAlways, PTL

(* No bucket pays for more calls than its burst and its gain allow.        *)
THEOREM NoOvergrantAlways == LimiterSpec => []NoOvergrant
<1>1. LimiterInv => NoOvergrant
  BY DEF LimiterInv
<1> QED BY <1>1, LimiterInvAlways, PTL

(* No client passes its daily quota.                                       *)
THEOREM QuotaHoldsAlways == LimiterSpec => []QuotaHolds
<1>1. LimiterInv => QuotaHolds
  BY DEF LimiterInv
<1> QED BY <1>1, LimiterInvAlways, PTL

(* No bucket works with limits that were replaced.                         *)
THEOREM LimitsInForceAlways == LimiterSpec => []LimitsInForce
<1>1. LimiterInv => LimitsInForce
  BY DEF LimiterInv
<1> QED BY <1>1, LimiterInvAlways, PTL
=============================================================================
