--------------------------- MODULE DetectorProofs ---------------------------
(* Theorems about Detector, for any number of callers, payloads and        *)
(* replies, any size of the cache and any durations.                       *)
EXTENDS Detector, SequenceTheorems, TLAPS

Held(q) == {q[i] : i \in DOMAIN q}

Once(q) == \A i, j \in DOMAIN q : q[i] = q[j] => i = j

(* A payload that is new to the FIFO is in it once after it has joined.    *)
LEMMA JoinFifo ==
    ASSUME NEW S, NEW q \in Seq(S), NEW k \in S, Once(q), k \notin Held(q)
    PROVE  /\ Append(q, k) \in Seq(S)
           /\ Len(Append(q, k)) = Len(q) + 1
           /\ Once(Append(q, k))
           /\ Held(Append(q, k)) = Held(q) \cup {k}
<1> DEFINE r == Append(q, k)
<1>1. /\ r \in Seq(S) /\ Len(r) = Len(q) + 1
      /\ DOMAIN r = 1..(Len(q) + 1) /\ DOMAIN q = 1..Len(q) /\ Len(q) \in Nat
    OBVIOUS
<1>2. \A i \in DOMAIN r : r[i] = IF i = Len(q) + 1 THEN k ELSE q[i]
    BY <1>1
<1>3. Once(r)
  <2> SUFFICES ASSUME NEW i \in DOMAIN r, NEW j \in DOMAIN r, r[i] = r[j]
               PROVE  i = j
      BY DEF Once
  <2>1. CASE i = Len(q) + 1 /\ j # Len(q) + 1
      BY <1>1, <1>2, <2>1 DEF Held
  <2>2. CASE j = Len(q) + 1 /\ i # Len(q) + 1
      BY <1>1, <1>2, <2>2 DEF Held
  <2>3. CASE i # Len(q) + 1 /\ j # Len(q) + 1
      BY <1>1, <1>2, <2>3 DEF Once
  <2> QED BY <2>1, <2>2, <2>3
<1>4. Held(r) = Held(q) \cup {k}
  <2>1. ASSUME NEW x \in Held(r) PROVE x \in Held(q) \cup {k}
      BY <1>1, <1>2 DEF Held
  <2>2. ASSUME NEW x \in Held(q) PROVE x \in Held(r)
    <3>1. PICK i \in DOMAIN q : x = q[i]
        BY DEF Held
    <3>2. i \in DOMAIN r /\ r[i] = x
        BY <1>1, <1>2, <3>1
    <3> QED BY <3>2 DEF Held
  <2>3. k \in Held(r)
    <3>1. Len(q) + 1 \in DOMAIN r /\ r[Len(q) + 1] = k
        BY <1>1, <1>2
    <3> QED BY <3>1 DEF Held
  <2> QED BY <2>1, <2>2, <2>3
<1> HIDE DEF r
<1>5. QED BY <1>1, <1>3, <1>4 DEF r

(* The head, and nothing else, leaves the FIFO when its tail is kept.      *)
LEMMA EvictHead ==
    ASSUME NEW S, NEW q \in Seq(S), Once(q), Len(q) > 0
    PROVE  /\ Tail(q) \in Seq(S)
           /\ Len(Tail(q)) = Len(q) - 1
           /\ Once(Tail(q))
           /\ Held(Tail(q)) = Held(q) \ {Head(q)}
<1> DEFINE r == Tail(q)
<1>1. /\ r \in Seq(S) /\ Len(r) = Len(q) - 1
      /\ DOMAIN r = 1..(Len(q) - 1) /\ DOMAIN q = 1..Len(q) /\ Len(q) \in Nat
    OBVIOUS
<1>2. \A i \in DOMAIN r : r[i] = q[i + 1] /\ i + 1 \in DOMAIN q
    BY <1>1
<1>3. Head(q) = q[1] /\ 1 \in DOMAIN q
    BY <1>1
<1>4. Once(r)
    BY <1>1, <1>2 DEF Once
<1>5. ASSUME NEW x \in Held(r) PROVE x \in Held(q) \ {Head(q)}
  <2>1. PICK i \in DOMAIN r : x = r[i]
      BY <1>5 DEF Held
  <2>2. x = q[i + 1] /\ i + 1 \in DOMAIN q /\ i + 1 # 1
      BY <1>1, <1>2, <2>1
  <2>3. x # q[1]
      BY <1>3, <2>2 DEF Once
  <2> QED BY <1>3, <2>2, <2>3 DEF Held
<1>6. ASSUME NEW x \in Held(q) \ {Head(q)} PROVE x \in Held(r)
  <2>1. PICK i \in DOMAIN q : x = q[i]
      BY <1>6 DEF Held
  <2>2. i # 1
      BY <1>3, <1>6, <2>1
  <2>3. i - 1 \in DOMAIN r /\ r[i - 1] = x
      BY <1>1, <1>2, <2>1, <2>2
  <2> QED BY <2>3 DEF Held
<1> HIDE DEF r
<1>7. QED BY <1>1, <1>4, <1>5, <1>6 DEF r

(* Masking a payload, by the rules or by findings, yields a payload.       *)
LEMMA MaskType ==
    /\ \A v \in Payloads : maskValue(v) \in Payloads
    /\ \A v \in Payloads : \A f : setPaths(v, f) \in Payloads
    /\ Blank \in Payloads
BY DEF Payloads, Text, maskValue, maskFieldValue, maskString, setPaths, Blank

(* No findings, no change.                                                 *)
LEMMA NoFindings ==
    ASSUME NEW v \in Payloads PROVE setPaths(v, {}) = v
BY DEF Payloads, setPaths
-----------------------------------------------------------------------------
(* What makes the properties inductive.  A caller that has not finished    *)
(* holds its payload as the rules have left it; an entry is filed under    *)
(* the payload the model was asked about and does not outlive its time;    *)
(* a failure that has reached the breaker keeps it open long enough.       *)
InHand ==
    \A p \in Callers :
        pc[p] \in Places \ {"idle", "done"} => out[p] = maskValue(args[p])

Honest ==
    \A k \in DOMAIN cache :
        cache[k].of = k /\ cache[k].expiry <= cache[k].at + TTL

Paused ==
    \A p \in Callers :
        /\ failedAt[p] <= now
        /\ pc[p] # "failed" => failedUntil >= failedAt[p] + BrokenFor

Inv == TypeOK /\ InHand /\ Honest /\ Paused /\ FreshFindings /\ PausedAfterFailure

Reports == [by : Reasons, key : Payloads, findings : Findings, age : Int]

(* The parts of the type invariant, for the caller and for the detector.   *)
CallerTypes ==
    /\ pc \in [Callers -> Places]
    /\ args \in [Callers -> Payloads] /\ out \in [Callers -> Payloads]
    /\ reply \in [Callers -> Findings]
    /\ used \in [Callers -> Reports]
    /\ failedAt \in [Callers -> Int]

FifoTypes ==
    /\ fifo \in Seq(Payloads) /\ Len(fifo) <= CacheMax
    /\ Once(fifo)
    /\ cache \in [Held(fifo) -> Entries]

LEMMA TypeParts ==
    TypeOK <=> now \in Nat /\ failedUntil \in Int /\ CallerTypes /\ FifoTypes
BY DEF TypeOK, CallerTypes, FifoTypes, Once, Held, Reports

(* Ending the second pass with findings of this payload, or none, that are *)
(* no older than the time to live.                                         *)
Fair(p, u) ==
    /\ u \in Reports
    /\ u.by \in {"cache", "model"} => u.key = out[p] /\ u.age <= TTL
    /\ u.by \notin {"cache", "model"} => u.findings = {}

LEMMA FinishFair ==
    ASSUME NEW p \in Callers, NEW u, Inv, Fair(p, u), Finish(p, u),
           pc[p] \in Places \ {"idle", "done"}, UNCHANGED args
    PROVE  /\ out' \in [Callers -> Payloads]
           /\ used' \in [Callers -> Reports]
           /\ pc' \in [Callers -> Places]
           /\ InHand' /\ FreshFindings'
<1>1. CallerTypes
    BY TypeParts DEF Inv
<1>2. /\ out' = [out EXCEPT ![p] = setPaths(out[p], u.findings)]
      /\ used' = [used EXCEPT ![p] = u] /\ pc' = [pc EXCEPT ![p] = "done"]
      /\ args' = args
    BY DEF Finish
<1>3. out' \in [Callers -> Payloads] /\ used' \in [Callers -> Reports]
      /\ pc' \in [Callers -> Places]
    BY <1>1, <1>2, MaskType DEF CallerTypes, Fair, Places
<1>4. InHand'
    BY <1>1, <1>2 DEF InHand, Inv, CallerTypes
<1>5. FreshFindings'
  <2> SUFFICES ASSUME NEW q \in Callers, pc'[q] = "done"
               PROVE  /\ out'[q] = setPaths(maskValue(args[q]), used'[q].findings)
                      /\ used'[q].by \in {"cache", "model"} =>
                             used'[q].key = maskValue(args[q]) /\ used'[q].age <= TTL
                      /\ used'[q].by \notin {"cache", "model"} =>
                             used'[q].findings = {}
      BY <1>2 DEF FreshFindings
  <2>1. CASE q = p
    <3>1. out[p] = maskValue(args[p])
        BY DEF Inv, InHand
    <3>2. used'[p] = u /\ out'[p] = setPaths(out[p], u.findings)
        BY <1>1, <1>2 DEF CallerTypes
    <3> QED BY <2>1, <3>1, <3>2 DEF Fair
  <2>2. CASE q # p
    <3>1. pc[q] = "done" /\ out'[q] = out[q] /\ used'[q] = used[q]
        BY <1>1, <1>2, <2>2 DEF CallerTypes
    <3> QED BY <3>1 DEF Inv, FreshFindings
  <2> QED BY <2>1, <2>2
<1> QED BY <1>3, <1>4, <1>5

(* A step that moves p without finishing or restarting it.                 *)
LEMMA Move ==
    ASSUME NEW p \in Callers, NEW to \in Places \ {"idle", "done"}, Inv,
           pc[p] \in Places \ {"idle", "done"}, pc' = [pc EXCEPT ![p] = to],
           UNCHANGED <<args, out, used>>
    PROVE  InHand' /\ FreshFindings' /\ pc' \in [Callers -> Places]
<1>1. pc \in [Callers -> Places]
    BY TypeParts DEF Inv, CallerTypes
<1>2. pc' \in [Callers -> Places]
    BY <1>1 DEF Places
<1>3. \A q \in Callers : pc'[q] = IF q = p THEN to ELSE pc[q]
    BY <1>1
<1>4. InHand'
    BY <1>1, <1>3 DEF InHand, Inv
<1>5. FreshFindings'
    BY <1>1, <1>3 DEF FreshFindings, Inv
<1> QED BY <1>2, <1>4, <1>5

LEMMA InitInv == Init => Inv
<1> USE DetectorAssumption
<1> SUFFICES ASSUME Init PROVE Inv
    OBVIOUS
<1>1. Held(<<>>) = {} /\ Once(<<>>) /\ <<>> \in Seq(Payloads) /\ Len(<<>>) = 0
    BY DEF Held, Once
<1>2. FifoTypes
    BY <1>1 DEF Init, FifoTypes
<1>3. Unused \in Reports
    BY MaskType DEF Unused, Reports, Reasons
<1>4. CallerTypes
    BY <1>3, MaskType DEF Init, CallerTypes, Places
<1>5. TypeOK
    BY <1>2, <1>4, TypeParts DEF Init
<1>6. InHand /\ FreshFindings /\ PausedAfterFailure
    BY DEF Init, InHand, FreshFindings, PausedAfterFailure
<1>7. Honest /\ Paused
    BY DEF Init, Honest, Paused
<1> QED BY <1>5, <1>6, <1>7 DEF Inv
(* Nothing else is a finding's: the second pass that ends without one.     *)
LEMMA NothingFair ==
    ASSUME NEW p \in Callers, NEW why \in {"paused", "failed"}, Inv, Nothing(p, why)
    PROVE  \E u : Fair(p, u) /\ Finish(p, u)
<1> USE DetectorAssumption
<1>1. CallerTypes
    BY TypeParts DEF Inv
<1> DEFINE u == [by |-> why, key |-> out[p], findings |-> {}, age |-> 0]
<1>2. u \in Reports
    BY <1>1 DEF CallerTypes, Reports, Reasons
<1>3. Fair(p, u)
    BY <1>2 DEF Fair
<1> QED BY <1>3 DEF Nothing

(* Masking begins.                                                         *)
LEMMA MaskStep ==
    ASSUME NEW p \in Callers, NEW isParams \in BOOLEAN, Inv, mask(p, isParams)
    PROVE  Inv'
<1> USE DetectorAssumption
<1>1. CallerTypes
    BY TypeParts DEF Inv
<1>2. PICK v \in Arguments, asks \in BOOLEAN :
          /\ pc[p] = "idle"
          /\ args' = [args EXCEPT ![p] = v]
          /\ out' = [out EXCEPT ![p] = maskValue(v)]
          /\ pc' = [pc EXCEPT ![p] = IF asks THEN "lookup" ELSE "done"]
          /\ used' = [used EXCEPT ![p] =
                         IF asks THEN Unused ELSE [Unused EXCEPT !.by = "skipped"]]
          /\ UNCHANGED <<now, detector, reply, failedAt>>
    BY DEF mask
<1>3. v \in Payloads /\ maskValue(v) \in Payloads
    BY MaskType
<1>4. Unused \in Reports /\ [Unused EXCEPT !.by = "skipped"] \in Reports
      /\ [Unused EXCEPT !.by = "skipped"].by = "skipped"
      /\ [Unused EXCEPT !.by = "skipped"].findings = {}
    BY MaskType DEF Unused, Reports, Reasons
<1>5. CallerTypes'
    BY <1>1, <1>2, <1>3, <1>4 DEF CallerTypes, Places
<1>6. FifoTypes'
    BY <1>2, TypeParts DEF Inv, FifoTypes, detector
<1>7. TypeOK'
    BY <1>2, <1>5, <1>6, TypeParts DEF TypeOK, FifoTypes, CallerTypes, Once, Held,
       Reports, detector, Inv
<1>8. Honest' /\ Paused'
    BY <1>1, <1>2 DEF Inv, Honest, Paused, detector, CallerTypes
<1>9. InHand'
    BY <1>1, <1>2 DEF Inv, InHand, CallerTypes
<1>10. PausedAfterFailure'
    BY <1>1, <1>2 DEF Inv, PausedAfterFailure, CallerTypes
<1>11. FreshFindings'
  <2> SUFFICES ASSUME NEW q \in Callers, pc'[q] = "done"
               PROVE  /\ out'[q] = setPaths(maskValue(args'[q]), used'[q].findings)
                      /\ used'[q].by \in {"cache", "model"} =>
                             used'[q].key = maskValue(args'[q]) /\ used'[q].age <= TTL
                      /\ used'[q].by \notin {"cache", "model"} =>
                             used'[q].findings = {}
      BY DEF FreshFindings
  <2>1. CASE q = p
    <3>1. /\ args'[p] = v /\ out'[p] = maskValue(v)
          /\ used'[p] = [Unused EXCEPT !.by = "skipped"]
        BY <1>1, <1>2, <2>1 DEF CallerTypes
    <3> QED BY <1>3, <1>4, <2>1, <3>1, NoFindings
  <2>2. CASE q # p
    <3>1. pc[q] = "done" /\ out'[q] = out[q] /\ used'[q] = used[q] /\ args'[q] = args[q]
        BY <1>1, <1>2, <2>2 DEF CallerTypes
    <3> QED BY <3>1 DEF Inv, FreshFindings
  <2> QED BY <2>1, <2>2
<1> QED BY <1>7, <1>8, <1>9, <1>10, <1>11 DEF Inv

(* The cache answers.                                                      *)
LEMMA GetStep ==
    ASSUME NEW p \in Callers, Inv, Get(p) PROVE Inv'
<1>1. CallerTypes /\ FifoTypes /\ now \in Nat
    BY TypeParts DEF Inv
<1> DEFINE e == cache[out[p]]
           u == [by |-> "cache", key |-> e.of, findings |-> e.findings,
                 age |-> now - e.at]
<1>2. /\ pc[p] = "lookup" /\ out[p] \in DOMAIN cache /\ now <= e.expiry
      /\ Finish(p, u) /\ UNCHANGED <<now, detector, args, reply, failedAt>>
    BY DEF Get, Hit
<1>3. e \in Entries
    BY <1>1, <1>2 DEF FifoTypes
<1>4. u \in Reports
    BY <1>1, <1>3 DEF Entries, Reports, Reasons
<1>5. e.of = out[p] /\ now - e.at <= TTL
  <2>1. e.of = out[p] /\ e.expiry <= e.at + TTL
      BY <1>2 DEF Inv, Honest
  <2> QED BY <1>1, <1>2, <1>3, <2>1, DetectorAssumption DEF Entries
<1>6. Fair(p, u)
    BY <1>4, <1>5 DEF Fair
<1> HIDE DEF u
<1>7. /\ out' \in [Callers -> Payloads] /\ used' \in [Callers -> Reports]
      /\ pc' \in [Callers -> Places] /\ InHand' /\ FreshFindings'
    BY <1>2, <1>6, FinishFair DEF Places
<1>8. CallerTypes' /\ FifoTypes'
    BY <1>1, <1>2, <1>7 DEF CallerTypes, FifoTypes, detector
<1>9. TypeOK'
    BY <1>1, <1>2, <1>8, TypeParts DEF Inv, detector, TypeOK, CallerTypes, FifoTypes,
       Once, Held, Reports
<1>10. pc' = [pc EXCEPT ![p] = "done"]
    BY <1>2 DEF Finish
<1>11. Honest' /\ Paused' /\ PausedAfterFailure'
    BY <1>1, <1>2, <1>10 DEF Inv, Honest, Paused, PausedAfterFailure, detector, CallerTypes
<1> QED BY <1>7, <1>9, <1>11 DEF Inv
(* A step of p that leaves the detector, the clock and the payloads alone. *)
LEMMA QuietStep ==
    ASSUME NEW p \in Callers, Inv,
           GetMisses(p) \/ Ask(p) \/ Answered(p) \/ Failed(p)
    PROVE  Inv'
<1>1. CallerTypes /\ FifoTypes /\ now \in Nat
    BY TypeParts DEF Inv
<1>2. UNCHANGED <<now, detector, args, out, used>>
    BY DEF GetMisses, Ask, Answered, Failed
<1>3. PICK to \in Places \ {"idle", "done"} :
          pc' = [pc EXCEPT ![p] = to] /\ pc[p] \in Places \ {"idle", "done"}
    BY DEF GetMisses, Ask, Answered, Failed, Places
<1>4. InHand' /\ FreshFindings' /\ pc' \in [Callers -> Places]
    BY <1>2, <1>3, Move
<1>5. reply' \in [Callers -> Findings] /\ failedAt' \in [Callers -> Int]
    BY <1>1 DEF GetMisses, Ask, Answered, Failed, CallerTypes
<1>6. TypeOK'
    BY <1>1, <1>2, <1>4, <1>5, TypeParts DEF Inv, TypeOK, detector, CallerTypes,
       FifoTypes, Once, Held, Reports
<1>7. Honest'
    BY <1>2 DEF Inv, Honest, detector
<1>8. Paused' /\ PausedAfterFailure'
  <2> USE DetectorAssumption
  <2>1. CASE GetMisses(p)
      BY <1>1, <2>1 DEF GetMisses, Inv, Paused, PausedAfterFailure, CallerTypes, detector
  <2>2. CASE Ask(p)
      BY <1>1, <2>2 DEF Ask, Inv, Paused, PausedAfterFailure, CallerTypes, detector, TypeOK
  <2>3. CASE Answered(p)
      BY <1>1, <2>3 DEF Answered, Inv, Paused, PausedAfterFailure, CallerTypes, detector
  <2>4. CASE Failed(p)
      BY <1>1, <2>4 DEF Failed, Inv, Paused, PausedAfterFailure, CallerTypes, detector
  <2> QED BY <2>1, <2>2, <2>3, <2>4
<1> QED BY <1>4, <1>6, <1>7, <1>8 DEF Inv

(* The second pass ends without findings.                                  *)
LEMMA NothingStep ==
    ASSUME NEW p \in Callers, Inv, isBroken(p) \/ markBroken(p) PROVE Inv'
<1> USE DetectorAssumption
<1>1. CallerTypes /\ FifoTypes /\ now \in Nat /\ failedUntil \in Int
    BY TypeParts DEF Inv
<1>2. /\ pc[p] \in Places \ {"idle", "done"}
      /\ UNCHANGED <<now, cache, fifo, args, reply, failedAt>>
      /\ failedUntil' = failedUntil \/ failedUntil' = now + BrokenFor
      /\ \E why \in {"paused", "failed"} : Nothing(p, why)
    BY DEF isBroken, markBroken, detector, Places
<1>3. PICK u : Fair(p, u) /\ Finish(p, u)
    BY <1>2, NothingFair
<1>4. /\ out' \in [Callers -> Payloads] /\ used' \in [Callers -> Reports]
      /\ pc' \in [Callers -> Places] /\ InHand' /\ FreshFindings'
    BY <1>2, <1>3, FinishFair
<1>5. CallerTypes' /\ FifoTypes' /\ now' \in Nat /\ failedUntil' \in Int
    BY <1>1, <1>2, <1>4 DEF CallerTypes, FifoTypes
<1>6. TypeOK'
    BY <1>5 DEF TypeOK, CallerTypes, FifoTypes, Once, Held, Reports
<1>7. pc' = [pc EXCEPT ![p] = "done"]
    BY <1>3 DEF Finish
<1>8. Honest' /\ PausedAfterFailure'
    BY <1>1, <1>2, <1>7 DEF Inv, Honest, PausedAfterFailure, CallerTypes
<1>9. Paused'
  <2>1. CASE isBroken(p)
      BY <1>1, <1>2, <1>7, <2>1 DEF isBroken, detector, Inv, Paused, CallerTypes
  <2>2. CASE markBroken(p)
      BY <1>1, <1>2, <1>7, <2>2 DEF markBroken, Inv, Paused, CallerTypes
  <2> QED BY <2>1, <2>2
<1> QED BY <1>4, <1>6, <1>8, <1>9 DEF Inv

(* Storing a reply: the entry joins the FIFO unless it is there, and the   *)
(* head leaves when there is one too many.                                 *)
LEMMA PutStep ==
    ASSUME NEW p \in Callers, Inv, Put(p) PROVE Inv'
<1> USE DetectorAssumption
<1>1. CallerTypes /\ FifoTypes /\ now \in Nat /\ failedUntil \in Int
    BY TypeParts DEF Inv
<1> DEFINE k == out[p]
           queue == IF k \in DOMAIN cache THEN fifo ELSE Append(fifo, k)
           full == Len(queue) > CacheMax
           stored == With(k, Entry(p))
           u == [by |-> "model", key |-> k, findings |-> reply[p], age |-> 0]
<1>2. /\ pc[p] = "answered"
      /\ fifo' = IF full THEN Tail(queue) ELSE queue
      /\ cache' = IF full THEN [x \in DOMAIN stored \ {Head(queue)} |-> stored[x]]
                          ELSE stored
      /\ Finish(p, u)
      /\ reply' = [reply EXCEPT ![p] = {}]
      /\ UNCHANGED <<now, failedUntil, args, failedAt>>
    BY DEF Put, Store
<1>3. k \in Payloads /\ DOMAIN cache = Held(fifo) /\ Len(fifo) \in Nat
    BY <1>1 DEF CallerTypes, FifoTypes
<1>4. /\ queue \in Seq(Payloads) /\ Len(queue) <= CacheMax + 1 /\ Once(queue)
      /\ Held(queue) = Held(fifo) \cup {k} /\ Len(queue) \in Nat
  <2>1. CASE k \in DOMAIN cache
      BY <1>1, <1>3, <2>1 DEF FifoTypes
  <2>2. CASE k \notin DOMAIN cache
      BY <1>1, <1>3, <2>2, JoinFifo DEF FifoTypes
  <2> QED BY <2>1, <2>2
<1>5. Entry(p) \in Entries /\ Entry(p).of = k /\ Entry(p).expiry <= Entry(p).at + TTL
    BY <1>1, <1>3 DEF Entry, Entries, CallerTypes
<1>6. /\ stored \in [Held(queue) -> Entries]
      /\ \A x \in Held(queue) :
             stored[x].of = x /\ stored[x].expiry <= stored[x].at + TTL
  <2>1. \A x \in Held(fifo) : cache[x] \in Entries /\ cache[x].of = x
                               /\ cache[x].expiry <= cache[x].at + TTL
      BY <1>1, <1>3 DEF FifoTypes, Inv, Honest
  <2>2. DOMAIN stored = Held(queue)
      BY <1>3, <1>4 DEF With
  <2>3. \A x \in Held(queue) : stored[x] = IF x = k THEN Entry(p) ELSE cache[x]
      BY <1>3, <1>4 DEF With
  <2>4. stored = [x \in Held(queue) |-> stored[x]]
      BY <2>2 DEF With
  <2> HIDE DEF stored
  <2> QED BY <1>4, <1>5, <2>1, <2>2, <2>3, <2>4
<1> HIDE DEF queue, stored, k
<1>7. FifoTypes' /\ Honest'
  <2>1. CASE full
    <3>1. Len(queue) > 0
        BY <1>4, <2>1
    <3>2. /\ Tail(queue) \in Seq(Payloads) /\ Len(Tail(queue)) = Len(queue) - 1
          /\ Once(Tail(queue)) /\ Held(Tail(queue)) = Held(queue) \ {Head(queue)}
        BY <1>4, <3>1, EvictHead
    <3>3. fifo' = Tail(queue)
          /\ cache' = [x \in Held(Tail(queue)) |-> stored[x]]
        BY <1>2, <1>6, <2>1, <3>2
    <3>4. Len(fifo') <= CacheMax
        BY <1>4, <3>2, <3>3
    <3>5. cache' \in [Held(fifo') -> Entries]
        BY <1>6, <3>2, <3>3
    <3>6. Honest'
        BY <1>6, <3>2, <3>3 DEF Honest
    <3> QED BY <3>2, <3>3, <3>4, <3>5, <3>6 DEF FifoTypes, Held, Once
  <2>2. CASE ~full
    <3>1. fifo' = queue /\ cache' = stored /\ Len(queue) <= CacheMax
        BY <1>2, <1>4, <2>2
    <3>2. Honest'
        BY <1>6, <3>1 DEF Honest
    <3> QED BY <1>4, <1>6, <3>1, <3>2 DEF FifoTypes, Held, Once
  <2> QED BY <2>1, <2>2
<1>8. Fair(p, u)
    BY <1>1, <1>3 DEF Fair, Reports, Reasons, CallerTypes, k
<1> HIDE DEF u
<1>9. /\ out' \in [Callers -> Payloads] /\ used' \in [Callers -> Reports]
      /\ pc' \in [Callers -> Places] /\ InHand' /\ FreshFindings'
    BY <1>2, <1>8, FinishFair DEF Places
<1>10. CallerTypes'
    BY <1>1, <1>2, <1>9 DEF CallerTypes
<1>11. TypeOK'
    BY <1>1, <1>2, <1>7, <1>10 DEF TypeOK, CallerTypes, FifoTypes, Once, Held, Reports
<1>12. pc' = [pc EXCEPT ![p] = "done"]
    BY <1>2 DEF Finish
<1>13. Paused' /\ PausedAfterFailure'
    BY <1>1, <1>2, <1>12 DEF Inv, Paused, PausedAfterFailure, CallerTypes
<1> QED BY <1>7, <1>9, <1>11, <1>13 DEF Inv

(* The caller has its copy.                                                *)
LEMMA ReturnStep ==
    ASSUME NEW p \in Callers, Inv, Return(p) PROVE Inv'
<1>1. CallerTypes /\ FifoTypes
    BY TypeParts DEF Inv
<1>2. Unused \in Reports /\ {} \in Findings
    BY MaskType, DetectorAssumption DEF Unused, Reports, Reasons
<1>3. CallerTypes'
    BY <1>1, <1>2, MaskType DEF Return, CallerTypes, Places
<1>4. TypeOK'
    BY <1>1, <1>3 DEF Return, Inv, TypeOK, CallerTypes, FifoTypes, Once, Held, Reports,
       detector
<1>5. Honest' /\ Paused' /\ PausedAfterFailure'
    BY <1>1 DEF Return, Inv, Honest, Paused, PausedAfterFailure, CallerTypes, detector
<1>6. InHand'
    BY <1>1 DEF Return, Inv, InHand, CallerTypes, Places
<1>7. FreshFindings'
    BY <1>1 DEF Return, Inv, FreshFindings, CallerTypes
<1> QED BY <1>4, <1>5, <1>6, <1>7 DEF Inv

(* Time passes.                                                            *)
LEMMA TickStep == ASSUME Inv, Tick PROVE Inv'
<1> USE DetectorAssumption
<1>1. TypeOK' /\ InHand' /\ Honest' /\ FreshFindings'
    BY DEF Tick, Inv, TypeOK, InHand, Honest, FreshFindings, detector
<1>2. Paused' /\ PausedAfterFailure'
    BY DEF Tick, Inv, TypeOK, Paused, PausedAfterFailure, detector
<1> QED BY <1>1, <1>2 DEF Inv

LEMMA InvStep == Inv /\ [Next]_vars => Inv'
<1> SUFFICES ASSUME Inv, [Next]_vars PROVE Inv'
    OBVIOUS
<1>1. CASE UNCHANGED vars
  <2>1. TypeOK' /\ InHand' /\ Honest'
      BY <1>1 DEF vars, Inv, TypeOK, InHand, Honest
  <2>2. Paused' /\ FreshFindings' /\ PausedAfterFailure'
      BY <1>1 DEF vars, Inv, Paused, FreshFindings, PausedAfterFailure
  <2> QED BY <2>1, <2>2 DEF Inv
<1>2. CASE Tick
    BY <1>2, TickStep
<1>3. ASSUME NEW p \in Callers, Mask(p) \/ MaskResult(p) PROVE Inv'
    BY <1>3, MaskStep DEF Mask, MaskResult
<1>4. ASSUME NEW p \in Callers, Step(p) \/ Answered(p) PROVE Inv'
    BY <1>4, GetStep, QuietStep, NothingStep, PutStep, ReturnStep DEF Step
<1> QED BY <1>1, <1>2, <1>3, <1>4 DEF Next

LEMMA InvAlways == Spec => []Inv
BY InitInv, InvStep, PTL DEF Spec

(* The FIFO and the cache always hold the same payloads, each once, and no *)
(* more of them than configured.                                           *)
THEOREM TypeCorrect == Spec => []TypeOK
<1>1. Inv => TypeOK
    BY DEF Inv
<1> QED BY <1>1, InvAlways, PTL

(* A payload is masked by the rules and by just the findings of a reply    *)
(* about that payload no older than the time to live.                      *)
THEOREM FreshFindingsAlways == Spec => []FreshFindings
<1>1. Inv => FreshFindings
    BY DEF Inv
<1> QED BY <1>1, InvAlways, PTL

(* Whoever had to wait for a failure does not wait again during the pause. *)
THEOREM PausedAfterFailureAlways == Spec => []PausedAfterFailure
<1>1. Inv => PausedAfterFailure
    BY DEF Inv
<1> QED BY <1>1, InvAlways, PTL
=============================================================================
