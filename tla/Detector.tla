------------------------------ MODULE Detector ------------------------------
(* Masking of one tool call: mask.Masker with its second pass, the detector *)
(* of llm/llm.go that asks a model for what the rules have missed.          *)
(*                                                                         *)
(* The goroutines of the calls share the detector's cache, its FIFO and    *)
(* the time until which a failed endpoint is left alone, each looked at or *)
(* changed in a critical section of its own.  A payload is a function from *)
(* names to texts; of a text only what the rules and the model make of it  *)
(* matters.  What a reply says is arbitrary: models contradict themselves  *)
(* and name paths that do not exist.                                       *)
EXTENDS Integers, Sequences

CONSTANTS
    Callers,         \* the goroutines that mask
    Names,           \* the fields of a payload
    FieldRules,      \* the fields that a rule names
    Arguments,       \* the payloads to be masked
    Findings,        \* what a model may reply: sets of paths, existing or not
    ApplyToResult,   \* llm.apply_to_result
    TTL,             \* llm.cache_ttl, in ticks
    BrokenFor,       \* how long a failed endpoint is left alone
    CacheMax,        \* llm.cache_entries
    MaxTime          \* bound on the clock

(* "pattern": text that a rule's pattern matches as a whole; "secret": text *)
(* that only a model recognises; "both": a match with a secret beside it;  *)
(* "long": text that takes a payload beyond llm.max_bytes; "rest": what is *)
(* left of "both" once the match is replaced.                              *)
Text == {"plain", "pattern", "secret", "both", "long", "mask", "rest"}

Payloads == [Names -> Text]

ASSUME DetectorAssumption ==
    /\ FieldRules \subseteq Names
    /\ Arguments \subseteq Payloads
    /\ {} \in Findings
    /\ ApplyToResult \in BOOLEAN
    /\ TTL \in Nat /\ BrokenFor \in Nat
    /\ CacheMax \in Nat \ {0}
    /\ MaxTime \in Nat

VARIABLES
    now,          \* the clock
    cache,        \* Client.cache: payload -> what the model found, and until when
    fifo,         \* Client.fifo
    failedUntil,  \* Client.failedUntil
    pc,           \* where each caller is
    args,         \* what it was given
    out,          \* its copy, masked by the rules and then by the findings
    reply,        \* the findings it has received and not yet stored
    used,         \* history: what decided its second pass
    failedAt      \* history: when its last request to the endpoint failed

detector == <<cache, fifo, failedUntil>>
vars == <<now, cache, fifo, failedUntil, pc, args, out, reply, used, failedAt>>

-----------------------------------------------------------------------------
(* The pure part of the masker.                                            *)

maskString(t) ==
    CASE t = "pattern" -> "mask" [] t = "both" -> "rest" [] OTHER -> t

(* A field that a rule names is replaced as a whole, unless a pattern has  *)
(* already changed part of it.                                             *)
maskFieldValue(t) == IF maskString(t) # t THEN maskString(t) ELSE "mask"

maskValue(v) ==
    [n \in Names |-> IF n \in FieldRules THEN maskFieldValue(v[n])
                                         ELSE maskString(v[n])]

(* setPath for each finding: paths that do not exist change nothing.       *)
setPaths(v, found) == [n \in Names |-> IF n \in found THEN "mask" ELSE v[n]]

TooBig(v) == \E n \in Names : v[n] = "long"

-----------------------------------------------------------------------------
Blank == [n \in Names |-> "plain"]

Unused == [by |-> "nothing", key |-> Blank, findings |-> {}, age |-> 0]

Init ==
    /\ now = 0
    /\ cache = [k \in {} |-> Unused]
    /\ fifo = <<>>
    /\ failedUntil = 0
    /\ pc = [p \in Callers |-> "idle"]
    /\ args = [p \in Callers |-> Blank]
    /\ out = [p \in Callers |-> Blank]
    /\ reply = [p \in Callers |-> {}]
    /\ used = [p \in Callers |-> Unused]
    /\ failedAt = [p \in Callers |-> -BrokenFor]

(* The second pass of p is over, with the findings of u.                   *)
Finish(p, u) ==
    /\ out' = [out EXCEPT ![p] = setPaths(out[p], u.findings)]
    /\ used' = [used EXCEPT ![p] = u]
    /\ pc' = [pc EXCEPT ![p] = "done"]

(* It is over without an answer: the result of the rules stands.           *)
Nothing(p, why) ==
    Finish(p, [by |-> why, key |-> out[p], findings |-> {}, age |-> 0])

(* Masker.mask up to the detector's cache: the copy, the rules, and the    *)
(* payloads that are never sent to the model.                              *)
mask(p, isParams) ==
    \E v \in Arguments :
        LET masked == maskValue(v)
            asks == (isParams \/ ApplyToResult) /\ ~TooBig(masked)
        IN  /\ pc[p] = "idle"
            /\ args' = [args EXCEPT ![p] = v]
            /\ out' = [out EXCEPT ![p] = masked]
            /\ pc' = [pc EXCEPT ![p] = IF asks THEN "lookup" ELSE "done"]
            /\ used' = [used EXCEPT ![p] =
                           IF asks THEN Unused ELSE [Unused EXCEPT !.by = "skipped"]]
            /\ UNCHANGED <<now, detector, reply, failedAt>>

Mask(p) == mask(p, TRUE)

MaskResult(p) == mask(p, FALSE)

(* Mutant: entries never expire.                                           *)
HitForEver(k) == k \in DOMAIN cache

(* Client.get.                                                             *)
Hit(k) == k \in DOMAIN cache /\ now <= cache[k].expiry

Get(p) ==
    /\ pc[p] = "lookup" /\ Hit(out[p])
    /\ LET e == cache[out[p]] IN
           Finish(p, [by |-> "cache", key |-> e.of, findings |-> e.findings,
                      age |-> now - e.at])
    /\ UNCHANGED <<now, detector, args, reply, failedAt>>

GetMisses(p) ==
    /\ pc[p] = "lookup" /\ ~Hit(out[p])
    /\ pc' = [pc EXCEPT ![p] = "missed"]
    /\ UNCHANGED <<now, detector, args, out, reply, used, failedAt>>

(* The breaker, looked at under the lock again.                            *)
isBroken(p) ==
    /\ pc[p] = "missed" /\ now < failedUntil
    /\ Nothing(p, "paused")
    /\ UNCHANGED <<now, detector, args, reply, failedAt>>

Ask(p) ==
    /\ pc[p] = "missed" /\ now >= failedUntil
    /\ pc' = [pc EXCEPT ![p] = "asking"]
    /\ UNCHANGED <<now, detector, args, out, reply, used, failedAt>>

(* Mutant: a reply closes the breaker.                                     *)
AnsweredCloses(p) ==
    /\ pc[p] = "asking"
    /\ \E found \in Findings : reply' = [reply EXCEPT ![p] = found]
    /\ pc' = [pc EXCEPT ![p] = "answered"]
    /\ failedUntil' = 0
    /\ UNCHANGED <<now, cache, fifo, args, out, used, failedAt>>

(* The endpoint answers, for as long as the request's deadline lets it.    *)
Answered(p) ==
    /\ pc[p] = "asking"
    /\ \E found \in Findings : reply' = [reply EXCEPT ![p] = found]
    /\ pc' = [pc EXCEPT ![p] = "answered"]
    /\ UNCHANGED <<now, detector, args, out, used, failedAt>>

(* Mutant: a request without a deadline.                                   *)
NeverFailed(p) == FALSE /\ UNCHANGED vars

(* It refuses, its reply does not decode, or the deadline passes.          *)
Failed(p) ==
    /\ pc[p] = "asking"
    /\ pc' = [pc EXCEPT ![p] = "failed"]
    /\ failedAt' = [failedAt EXCEPT ![p] = now]
    /\ UNCHANGED <<now, detector, args, out, reply, used>>

markBroken(p) ==
    /\ pc[p] = "failed"
    /\ failedUntil' = now + BrokenFor
    /\ Nothing(p, "failed")
    /\ UNCHANGED <<now, cache, fifo, args, reply, failedAt>>

(* Client.put: at most one entry too many is there to be dropped.  `of`    *)
(* and `at` are history: the payload the model was asked about, and when   *)
(* its reply was stored.                                                   *)
Entry(p) ==
    [findings |-> reply[p], expiry |-> now + TTL, of |-> out[p], at |-> now]

With(k, e) == [x \in DOMAIN cache \cup {k} |-> IF x = k THEN e ELSE cache[x]]

Store(p, queue) ==
    LET full == Len(queue) > CacheMax
        stored == With(out[p], Entry(p))
    IN  /\ pc[p] = "answered"
        /\ fifo' = IF full THEN Tail(queue) ELSE queue
        /\ cache' = IF full THEN [k \in DOMAIN stored \ {Head(queue)} |-> stored[k]]
                            ELSE stored
        /\ Finish(p, [by |-> "model", key |-> out[p], findings |-> reply[p], age |-> 0])
        /\ reply' = [reply EXCEPT ![p] = {}]
        /\ UNCHANGED <<now, failedUntil, args, failedAt>>

(* Mutant: a payload that is stored again joins the FIFO again.            *)
PutTwice(p) == Store(p, Append(fifo, out[p]))

Put(p) ==
    Store(p, IF out[p] \in DOMAIN cache THEN fifo ELSE Append(fifo, out[p]))

(* The masked copy goes to the audit record.                               *)
Return(p) ==
    /\ pc[p] = "done"
    /\ pc' = [pc EXCEPT ![p] = "idle"]
    /\ args' = [args EXCEPT ![p] = Blank]
    /\ out' = [out EXCEPT ![p] = Blank]
    /\ used' = [used EXCEPT ![p] = Unused]
    /\ UNCHANGED <<now, detector, reply, failedAt>>

Tick ==
    /\ now < MaxTime
    /\ now' = now + 1
    /\ UNCHANGED <<detector, pc, args, out, reply, used, failedAt>>

(* What a caller does once it has begun, the endpoint's replies excepted.  *)
Step(p) ==
    \/ Get(p) \/ GetMisses(p) \/ isBroken(p) \/ Ask(p)
    \/ Failed(p) \/ markBroken(p) \/ Put(p) \/ Return(p)

Next ==
    \/ \E p \in Callers : Mask(p) \/ MaskResult(p) \/ Step(p) \/ Answered(p)
    \/ Tick

Spec == Init /\ [][Next]_vars

(* A request to the endpoint ends, if only by its deadline.                *)
FairSpec == Spec /\ \A p \in Callers : WF_vars(Step(p))

-----------------------------------------------------------------------------
Entries == [findings : Findings, expiry : Int, of : Payloads, at : Int]

Reasons == {"nothing", "skipped", "paused", "failed", "cache", "model"}

Places == {"idle", "lookup", "missed", "asking", "answered", "failed", "done"}

(* Types, and what the cache is: the FIFO holds each cached payload once,  *)
(* and never more than llm.cache_entries of them.                          *)
TypeOK ==
    /\ now \in Nat /\ failedUntil \in Int
    /\ fifo \in Seq(Payloads) /\ Len(fifo) <= CacheMax
    /\ \A i, j \in DOMAIN fifo : fifo[i] = fifo[j] => i = j
    /\ cache \in [{fifo[i] : i \in DOMAIN fifo} -> Entries]
    /\ pc \in [Callers -> Places]
    /\ args \in [Callers -> Payloads] /\ out \in [Callers -> Payloads]
    /\ reply \in [Callers -> Findings]
    /\ used \in [Callers -> [by : Reasons, key : Payloads,
                             findings : Findings, age : Int]]
    /\ failedAt \in [Callers -> Int]

(* What a call is masked by: the rules, whatever becomes of its second     *)
(* pass, and just the findings of a reply about this very payload that is  *)
(* no older than the time to live, although callers share the cache, evict *)
(* each other's entries and hold replies that differ.                      *)
FreshFindings ==
    \A p \in Callers : pc[p] = "done" =>
        LET u == used[p]
            masked == maskValue(args[p])
        IN  /\ out[p] = setPaths(masked, u.findings)
            /\ u.by \in {"cache", "model"} => u.key = masked /\ u.age <= TTL
            /\ u.by \notin {"cache", "model"} => u.findings = {}

(* llm.go:45-47, "keeps one bad call from adding latency to every          *)
(* subsequent tool call": a caller whose request failed does not wait for  *)
(* the endpoint again before the pause is over, whatever other callers     *)
(* that were under way at the time do to the breaker.                      *)
PausedAfterFailure ==
    \A p \in Callers :
        pc[p] \in {"asking", "answered"} => now >= failedAt[p] + BrokenFor

(* masker.go: "a detector failure must never block ... a call".            *)
MaskReturns == \A p \in Callers : (pc[p] # "idle") ~> (pc[p] = "idle")

=============================================================================
