------------------------------ MODULE CallLog -------------------------------
(* The audit log behind the console: live calls are inserted by the audit  *)
(* worker, replays by the console handler as well, the retention policy    *)
(* deletes rows, and replays read the rows they re-issue.                  *)
(*                                                                         *)
(* The store is a database with one statement per critical section.  A     *)
(* replay reads its row, calls the upstream, and writes a row that points  *)
(* back; live calls, deletions, other replays, changes of the policy and a *)
(* restart come in between.                                                *)
EXTENDS Naturals, FiniteSets, Sequences

CONSTANTS
    Replayers,    \* console requests that replay, singly or in a batch
    Pruners,      \* goroutines that prune: startup and hourly, each reload
    Params,       \* what calls are made with
    Results,      \* results of the upstream
    Errors,       \* errors of the upstream
    Down,         \* the error the proxy answers with when the upstream is lost
    None,         \* no answer
    Policies,     \* retention policies the configuration may hold
    QueueSize,    \* room in the audit channel
    BatchMax,     \* cap on the calls of one batch
    MaxRecords,   \* bound on the rows inserted
    MaxTime       \* bound on the clock, in days

Answers == Results \cup Errors

ASSUME CallLogAssumption ==
    /\ Results \cap Errors = {}
    /\ Down \notin Answers /\ None \notin Answers \cup {Down}
    /\ Policies \subseteq [age : Nat, rows : Nat] /\ Policies # {}
    /\ QueueSize \in Nat /\ BatchMax \in Nat
    /\ MaxRecords \in Nat /\ MaxTime \in Nat

(* Column raw_result, "" being Empty: the payload of a live result, "null" *)
(* for a live error, the whole JSON-RPC response for a replay.             *)
Payload(a) == [form |-> "payload", of |-> a]
Envelope(a) == [form |-> "envelope", of |-> a]
Null == [form |-> "null", of |-> None]
Empty == [form |-> "empty", of |-> None]

Recorded ==
    {Payload(a) : a \in Answers} \cup {Envelope(a) : a \in Answers \cup {Down}}
        \cup {Null, Empty}

(* A row; `answer` is history, what came back for the call.                *)
Rows ==
    [params : Params, raw : Recorded, replayOf : Nat, at : Nat,
     answer : Answers \cup {Down, None}]

VARIABLES
    now,        \* the clock
    calls,      \* table calls: id -> row
    nextId,     \* the next id the database gives out
    queue,      \* rows on their way through the audit channel
    retention,  \* audit.retention of the active configuration
    pc,         \* where each console request is
    todo,       \* ids it has still to replay
    orig,       \* id and row of the call it is replaying
    resp,       \* what Replay has returned to it
    verdict,    \* the diff it reports for that call
    ppc,        \* where each pruner is
    policy,     \* the policy it has read
    made,       \* history: every row ever inserted, as it was
    applied     \* history: the policies pruners have worked with

table == <<calls, nextId, made>>
console == <<pc, todo, orig, resp, verdict>>
pruning == <<ppc, policy, applied>>
vars == <<now, calls, nextId, made, queue, retention, pc, todo, orig, resp,
          verdict, ppc, policy, applied>>

NoRow == [params |-> None, raw |-> Empty, replayOf |-> 0, at |-> 0, answer |-> None]

Nobody == [id |-> 0, row |-> NoRow]

Init ==
    /\ now = 0
    /\ calls = [i \in {} |-> NoRow] /\ nextId = 1 /\ made = calls
    /\ queue = <<>>
    /\ retention \in Policies
    /\ pc = [p \in Replayers |-> "idle"] /\ todo = [p \in Replayers |-> <<>>]
    /\ orig = [p \in Replayers |-> Nobody] /\ resp = [p \in Replayers |-> Empty]
    /\ verdict = [p \in Replayers |-> "none"]
    /\ ppc = [q \in Pruners |-> "idle"]
    /\ policy = [q \in Pruners |-> [age |-> 0, rows |-> 0]]
    /\ applied = {}

-----------------------------------------------------------------------------
(* processUpstreamMessage: the record of an answered call, live or         *)
(* replayed, which the channel takes unless it is full.                    *)
LiveRow(par, a) ==
    [params |-> par, raw |-> IF a \in Errors THEN Null ELSE Payload(a),
     replayOf |-> 0, at |-> now, answer |-> a]

(* Mutant: the channel takes every record.                                 *)
EnqueueAlways(par, a) == queue' = Append(queue, LiveRow(par, a))

Enqueue(par, a) ==
    queue' = IF Len(queue) < QueueSize THEN Append(queue, LiveRow(par, a)) ELSE queue

LiveCall ==
    /\ \E par \in Params, a \in Answers : Enqueue(par, a)
    /\ UNCHANGED <<now, table, retention, console, pruning>>

(* Mutant: without AUTOINCREMENT the id follows the largest in the table.  *)
ReusedId == 1 + (CHOOSE i \in 0..(nextId - 1) :
                    /\ i \in DOMAIN calls \cup {0}
                    /\ \A j \in DOMAIN calls : j <= i)

(* No id is given out twice, whatever has been deleted.                    *)
NewId == nextId

With(rows, i, r) == [j \in DOMAIN rows \cup {i} |-> IF j = i THEN r ELSE rows[j]]

Insert(r) ==
    /\ NewId <= MaxRecords
    /\ calls' = With(calls, NewId, r)
    /\ made' = With(made, NewId, r)
    /\ nextId' = NewId + 1

(* The audit worker writes the oldest record, or logs that it could not.   *)
InsertLive ==
    /\ queue # <<>>
    /\ Insert(Head(queue)) \/ UNCHANGED table
    /\ queue' = Tail(queue)
    /\ UNCHANGED <<now, retention, console, pruning>>

-----------------------------------------------------------------------------
(* Replays from the console.                                               *)

Request(p, ids) ==
    /\ pc[p] = "idle"
    /\ todo' = [todo EXCEPT ![p] = ids]
    /\ pc' = [pc EXCEPT ![p] = "next"]
    /\ UNCHANGED <<now, table, queue, retention, orig, resp, verdict, pruning>>

handleReplay(p) == \E i \in 1..MaxRecords : Request(p, <<i>>)

(* resolveReplayIDs: what a filter finds, newest first, up to the cap.     *)
NewestFirst(ids, found) ==
    /\ \A k, l \in DOMAIN ids : k < l => ids[k] > ids[l]
    /\ \A i \in found : \/ \E k \in DOMAIN ids : ids[k] = i
                        \/ \A k \in DOMAIN ids : ids[k] > i

handleReplayBatch(p) ==
    \E pars \in SUBSET Params :
        LET found == {i \in DOMAIN calls : calls[i].params \in pars}
            n == IF Cardinality(found) < BatchMax THEN Cardinality(found) ELSE BatchMax
        IN  \E ids \in [1..n -> found] : NewestFirst(ids, found) /\ Request(p, ids)

(* The row of the next id; an id that is not there is reported as such.    *)
Get(p) ==
    /\ pc[p] = "next" /\ todo[p] # <<>>
    /\ todo' = [todo EXCEPT ![p] = Tail(todo[p])]
    /\ LET i == Head(todo[p]) IN
          IF i \in DOMAIN calls
             THEN /\ orig' = [orig EXCEPT ![p] = [id |-> i, row |-> calls[i]]]
                  /\ pc' = [pc EXCEPT ![p] = "replaying"]
             ELSE UNCHANGED <<orig, pc>>
    /\ UNCHANGED <<now, table, queue, retention, resp, verdict, pruning>>

Returned(p, r) ==
    /\ pc[p] = "replaying"
    /\ resp' = [resp EXCEPT ![p] = r]
    /\ pc' = [pc EXCEPT ![p] = "returned"]
    /\ UNCHANGED <<now, table, retention, todo, orig, verdict, pruning>>

(* Replay: the upstream answers, and the answer is recorded on its way     *)
(* like that of any other call.                                            *)
ReplayAnswered(p) ==
    \E a \in Answers :
        /\ Returned(p, Envelope(a))
        /\ Enqueue(orig[p].row.params, a)

(* The supervisor or the sweeper answers in its place.                     *)
ReplayDown(p) == Returned(p, Envelope(Down)) /\ UNCHANGED queue

(* Not connected, not written, timed out or given up by the console, the   *)
(* last two perhaps as an answer has just been recorded.                   *)
ReplayFails(p) ==
    /\ Returned(p, Empty)
    /\ UNCHANGED queue \/ \E a \in Answers : Enqueue(orig[p].row.params, a)

(* computeDiff: the response without its envelope against the row's raw    *)
(* result as it is.                                                        *)
unwrapResult(r) == IF r.form = "envelope" THEN Payload(r.of) ELSE r

(* Mutant: the response is compared as it came.                            *)
MatchWrapped(got, want) == got = want

Match(got, want) == unwrapResult(got) = want

(* Asked for with `diff`; a failed replay has none, nor has one of a row   *)
(* without a result.                                                       *)
Diff(p) ==
    IF resp[p] = Empty \/ orig[p].row.raw = Empty THEN "none"
    ELSE IF Match(resp[p], orig[p].row.raw) THEN "match" ELSE "differs"

ReplayRow(p) ==
    [params |-> orig[p].row.params, raw |-> resp[p], replayOf |-> orig[p].id,
     at |-> now, answer |-> resp[p].of]

(* recordReplayAudit ignores an insert that fails.                         *)
recordReplayAudit(p) ==
    /\ pc[p] = "returned"
    /\ Insert(ReplayRow(p)) \/ UNCHANGED table
    /\ verdict' = [verdict EXCEPT ![p] = Diff(p)]
    /\ pc' = [pc EXCEPT ![p] = "told"]
    /\ UNCHANGED <<now, queue, retention, todo, orig, resp, pruning>>

Continue(p) ==
    /\ pc[p] = "told" \/ (pc[p] = "next" /\ todo[p] = <<>>)
    /\ pc' = [pc EXCEPT ![p] = IF todo[p] = <<>> THEN "idle" ELSE "next"]
    /\ orig' = [orig EXCEPT ![p] = Nobody]
    /\ resp' = [resp EXCEPT ![p] = Empty]
    /\ verdict' = [verdict EXCEPT ![p] = "none"]
    /\ UNCHANGED <<now, table, queue, retention, todo, pruning>>

-----------------------------------------------------------------------------
(* Retention.                                                              *)

(* pruneNow: the policy of the active configuration is read once.          *)
pruneNow(q) ==
    /\ ppc[q] = "idle" /\ retention # [age |-> 0, rows |-> 0]
    /\ policy' = [policy EXCEPT ![q] = retention]
    /\ applied' = applied \cup {retention}
    /\ ppc' = [ppc EXCEPT ![q] = "age"]
    /\ UNCHANGED <<now, table, queue, retention, console>>

Keep(ids) == calls' = [i \in DOMAIN calls \cap ids |-> calls[i]]

TooOld(row, age) == age > 0 /\ row.at + age < now

(* Mutant: ORDER BY id without DESC.                                       *)
Oldest(n) == {i \in DOMAIN calls : Cardinality({j \in DOMAIN calls : j < i}) < n}

Newest(n) == {i \in DOMAIN calls : Cardinality({j \in DOMAIN calls : j > i}) < n}

DeleteOld(q) ==
    /\ ppc[q] = "age"
    /\ \/ /\ Keep({i \in DOMAIN calls : ~TooOld(calls[i], policy[q].age)})
          /\ ppc' = [ppc EXCEPT ![q] = "rows"]
       \/ UNCHANGED calls /\ ppc' = [ppc EXCEPT ![q] = "idle"]
    /\ UNCHANGED <<now, nextId, made, queue, retention, console, policy, applied>>

DeleteExcess(q) ==
    /\ ppc[q] = "rows"
    /\ \/ policy[q].rows > 0 /\ Keep(Newest(policy[q].rows))
       \/ UNCHANGED calls
    /\ ppc' = [ppc EXCEPT ![q] = "idle"]
    /\ UNCHANGED <<now, nextId, made, queue, retention, console, policy, applied>>

(* A reload of the configuration; the prune it asks for may come late.     *)
onConfigReload ==
    /\ retention' \in Policies
    /\ UNCHANGED <<now, table, queue, console, pruning>>

(* The process dies: what was not yet in the database is lost.             *)
Restart ==
    /\ queue' = <<>>
    /\ pc' = [p \in Replayers |-> "idle"] /\ todo' = [p \in Replayers |-> <<>>]
    /\ orig' = [p \in Replayers |-> Nobody] /\ resp' = [p \in Replayers |-> Empty]
    /\ verdict' = [p \in Replayers |-> "none"]
    /\ ppc' = [q \in Pruners |-> "idle"]
    /\ UNCHANGED <<now, table, retention, policy, applied>>

Tick ==
    /\ now < MaxTime
    /\ now' = now + 1
    /\ UNCHANGED <<table, queue, retention, console, pruning>>

ConsoleStep(p) ==
    \/ handleReplay(p) \/ handleReplayBatch(p) \/ Get(p)
    \/ ReplayAnswered(p) \/ ReplayDown(p) \/ ReplayFails(p)
    \/ recordReplayAudit(p) \/ Continue(p)

PruneStep(q) == pruneNow(q) \/ DeleteOld(q) \/ DeleteExcess(q)

Next ==
    \/ LiveCall \/ InsertLive
    \/ \E p \in Replayers : ConsoleStep(p)
    \/ \E q \in Pruners : PruneStep(q)
    \/ onConfigReload \/ Restart \/ Tick

Spec == Init /\ [][Next]_vars

-----------------------------------------------------------------------------
TypeOK ==
    /\ now \in Nat /\ nextId \in Nat \ {0}
    /\ DOMAIN made = 1..(nextId - 1) /\ DOMAIN calls \subseteq DOMAIN made
    /\ \A i \in DOMAIN made : made[i] \in Rows
    /\ \A i \in DOMAIN calls : calls[i] = made[i]
    /\ queue \in Seq(Rows) /\ Len(queue) <= QueueSize
    /\ retention \in Policies /\ applied \subseteq Policies
    /\ pc \in [Replayers -> {"idle", "next", "replaying", "returned", "told"}]
    /\ todo \in [Replayers -> Seq(Nat)]
    /\ orig \in [Replayers -> [id : Nat, row : Rows \cup {NoRow}]]
    /\ resp \in [Replayers -> Recorded]
    /\ verdict \in [Replayers -> {"none", "match", "differs"}]
    /\ ppc \in [Pruners -> {"idle", "age", "rows"}]
    /\ policy \in [Pruners -> [age : Nat, rows : Nat]]

(* audit/model.go:21-23: a replay "points at the original call it          *)
(* re-issued".  The row it points at was there before and was made with    *)
(* the same parameters, even if retention has deleted it since, and every  *)
(* later row beside it, before the replay was recorded.                    *)
LineageHolds ==
    \A i \in DOMAIN made :
        LET o == made[i].replayOf
        IN  o # 0 => o \in DOMAIN made /\ o < i /\ made[o].params = made[i].params

(* Retention takes nothing an operator has not given up: a row that is     *)
(* gone is older than some policy in use allowed, or was followed by as    *)
(* many rows as one allows; however prunes, inserts and reloads mix.       *)
OnlyExcessDeleted ==
    \A i \in DOMAIN made \ DOMAIN calls :
        \E pol \in applied :
            \/ TooOld(made[i], pol.age)
            \/ /\ pol.rows > 0
               /\ Cardinality({j \in DOMAIN made : j > i}) >= pol.rows

(* What a diff says.  "match" is reported if and only if the original was  *)
(* a live call with a result and the upstream has given the same result;   *)
(* so an error that repeats itself, and the replay of a replay, never      *)
(* match (handler.go takes every raw_result for a bare payload).           *)
DiffExact ==
    \A p \in Replayers : pc[p] = "told" =>
        LET o == orig[p].row
        IN  verdict[p] = "match" <=>
                /\ o.replayOf = 0 /\ o.answer \in Results
                /\ resp[p].form = "envelope" /\ resp[p].of = o.answer
=============================================================================
