--------------------------- MODULE CallLogProofs ----------------------------
(* Theorems about CallLog, for any number of consoles, pruners and rows.   *)
EXTENDS CallLog, FiniteSetTheorems, SequenceTheorems, TLAPS

(* What the rows of live calls and of replays look like: the diff reads    *)
(* this off the column raw_result.                                         *)
Formed(r) ==
    /\ r \in Rows
    /\ r.replayOf = 0 => /\ r.answer \in Answers
                         /\ r.raw = IF r.answer \in Errors THEN Null ELSE Payload(r.answer)
    /\ r.replayOf # 0 => r.raw.form \in {"envelope", "empty"}

(* A row may point at rows that came before it and have its parameters.    *)
Points(r, rows) ==
    r.replayOf # 0 => r.replayOf \in DOMAIN rows /\ rows[r.replayOf].params = r.params

TableInv ==
    /\ nextId \in Nat \ {0}
    /\ DOMAIN made = 1..(nextId - 1) /\ DOMAIN calls \subseteq DOMAIN made
    /\ \A i \in DOMAIN made : Formed(made[i])
    /\ \A i \in DOMAIN calls : calls[i] = made[i]
    /\ LineageHolds

QueueInv ==
    /\ queue \in Seq(Rows) /\ Len(queue) <= QueueSize
    /\ \A i \in DOMAIN queue : Formed(queue[i]) /\ queue[i].replayOf = 0

(* A console that has got a row holds it as it was inserted.               *)
ConsoleInv ==
    /\ pc \in [Replayers -> {"idle", "next", "replaying", "returned", "told"}]
    /\ todo \in [Replayers -> Seq(Nat)]
    /\ orig \in [Replayers -> [id : Nat, row : Rows \cup {NoRow}]]
    /\ resp \in [Replayers -> Recorded]
    /\ verdict \in [Replayers -> {"none", "match", "differs"}]
    /\ \A p \in Replayers :
          /\ pc[p] \in {"replaying", "returned", "told"} =>
                orig[p].id \in DOMAIN made /\ orig[p].row = made[orig[p].id]
          /\ pc[p] \in {"returned", "told"} => resp[p].form \in {"envelope", "empty"}
    /\ DiffExact

PruneInv ==
    /\ now \in Nat /\ retention \in Policies /\ applied \subseteq Policies
    /\ ppc \in [Pruners -> {"idle", "age", "rows"}]
    /\ policy \in [Pruners -> [age : Nat, rows : Nat]]

Inv == TableInv /\ QueueInv /\ ConsoleInv /\ PruneInv

LEMMA InvType == Inv => TypeOK
BY DEF Inv, TableInv, QueueInv, ConsoleInv, PruneInv, TypeOK, Formed

(* Rows of an answered call are well formed.                               *)
LEMMA LiveFormed ==
    ASSUME NEW par \in Params, NEW a \in Answers, now \in Nat
    PROVE  Formed(LiveRow(par, a)) /\ LiveRow(par, a).replayOf = 0
<1>1. Null \in Recorded /\ Payload(a) \in Recorded
    BY DEF Recorded
<1> QED BY <1>1 DEF LiveRow, Formed, Rows

LEMMA EnqueueKeeps ==
    ASSUME NEW par \in Params, NEW a \in Answers, now \in Nat, QueueInv,
           Enqueue(par, a)
    PROVE  QueueInv'
<1> USE CallLogAssumption
<1>1. Formed(LiveRow(par, a)) /\ LiveRow(par, a).replayOf = 0
    BY LiveFormed
<1>2. LiveRow(par, a) \in Rows
    BY <1>1 DEF Formed
<1>3. CASE Len(queue) < QueueSize
  <2>1. queue' = Append(queue, LiveRow(par, a))
      BY <1>3 DEF Enqueue
  <2>2. /\ queue' \in Seq(Rows) /\ Len(queue') = Len(queue) + 1
        /\ DOMAIN queue' = 1..(Len(queue) + 1) /\ DOMAIN queue = 1..Len(queue)
        /\ Len(queue) \in Nat
      BY <1>2, <2>1 DEF QueueInv
  <2>3. \A i \in DOMAIN queue' :
            queue'[i] = IF i = Len(queue) + 1 THEN LiveRow(par, a) ELSE queue[i]
      BY <1>2, <2>1, <2>2 DEF QueueInv
  <2>4. \A i \in DOMAIN queue' : Formed(queue'[i]) /\ queue'[i].replayOf = 0
      BY <1>1, <2>2, <2>3 DEF QueueInv
  <2>5. Len(queue') <= QueueSize
      BY <1>3, <2>2
  <2> QED BY <2>2, <2>4, <2>5 DEF QueueInv
<1>4. CASE ~(Len(queue) < QueueSize)
    BY <1>4 DEF Enqueue, QueueInv
<1> QED BY <1>3, <1>4

(* Inserting a row that is well formed and points back keeps the table.    *)
LEMMA InsertKeeps ==
    ASSUME NEW r, TableInv, Formed(r), Points(r, made), Insert(r)
    PROVE  /\ TableInv'
           /\ DOMAIN made \subseteq DOMAIN made'
           /\ \A i \in DOMAIN made : made'[i] = made[i]
<1>1. /\ nextId' = nextId + 1
      /\ DOMAIN made' = DOMAIN made \cup {nextId}
      /\ DOMAIN calls' = DOMAIN calls \cup {nextId}
      /\ \A i \in DOMAIN made' : made'[i] = IF i = nextId THEN r ELSE made[i]
      /\ \A i \in DOMAIN calls' : calls'[i] = IF i = nextId THEN r ELSE calls[i]
    BY DEF Insert, NewId, With
<1>2. nextId \in Nat \ {0} /\ DOMAIN made = 1..(nextId - 1) /\ nextId \notin DOMAIN made
    BY DEF TableInv
<1>3. DOMAIN made' = 1..(nextId' - 1) /\ nextId' \in Nat \ {0}
    BY <1>1, <1>2
<1>4. \A i \in DOMAIN made : i \in DOMAIN made' /\ made'[i] = made[i]
    BY <1>1, <1>2
<1>5. LineageHolds'
  <2> SUFFICES ASSUME NEW i \in DOMAIN made', made'[i].replayOf # 0
               PROVE  /\ made'[i].replayOf \in DOMAIN made' /\ made'[i].replayOf < i
                      /\ made'[made'[i].replayOf].params = made'[i].params
      BY DEF LineageHolds
  <2>1. CASE i = nextId
    <3>1. made'[i] = r /\ r.replayOf \in DOMAIN made /\ made[r.replayOf].params = r.params
        BY <1>1, <2>1 DEF Points
    <3> QED BY <1>2, <1>4, <2>1, <3>1
  <2>2. CASE i # nextId
    <3>1. i \in DOMAIN made /\ made'[i] = made[i]
        BY <1>1, <2>2
    <3>2. /\ made[i].replayOf \in DOMAIN made /\ made[i].replayOf < i
          /\ made[made[i].replayOf].params = made[i].params
        BY <3>1 DEF TableInv, LineageHolds
    <3> QED BY <1>4, <3>1, <3>2
  <2> QED BY <2>1, <2>2
<1>6. /\ \A i \in DOMAIN made' : Formed(made'[i])
      /\ \A i \in DOMAIN calls' : calls'[i] = made'[i]
      /\ DOMAIN calls' \subseteq DOMAIN made'
    BY <1>1, <1>2 DEF TableInv
<1> QED BY <1>3, <1>4, <1>5, <1>6 DEF TableInv

(* Deleting rows keeps the table.                                          *)
LEMMA DeleteKeeps ==
    ASSUME TableInv, NEW ids, Keep(ids) \/ UNCHANGED calls, UNCHANGED <<nextId, made>>
    PROVE  TableInv'
<1>1. DOMAIN calls' \subseteq DOMAIN calls /\ \A i \in DOMAIN calls' : calls'[i] = calls[i]
    BY DEF Keep
<1>2. LineageHolds'
    BY DEF TableInv, LineageHolds
<1> QED BY <1>1, <1>2 DEF TableInv

(* A console keeps what it holds while rows are added.                     *)
LEMMA ConsoleKeeps ==
    ASSUME ConsoleInv, UNCHANGED console, DOMAIN made \subseteq DOMAIN made',
           \A i \in DOMAIN made : made'[i] = made[i]
    PROVE  ConsoleInv'
<1>1. DiffExact'
    BY DEF console, ConsoleInv, DiffExact
<1> QED BY <1>1 DEF console, ConsoleInv

(* The diff of a well formed row against what Replay returns.              *)
LEMMA DiffIs ==
    ASSUME NEW p \in Replayers, Formed(orig[p].row), resp[p] \in Recorded,
           resp[p].form \in {"envelope", "empty"}
    PROVE  LET o == orig[p].row IN
             Diff(p) = "match" <=> /\ o.replayOf = 0 /\ o.answer \in Results
                                   /\ resp[p].form = "envelope"
                                   /\ resp[p].of = o.answer
<1> USE CallLogAssumption
<1> DEFINE o == orig[p].row
<1>1. CASE resp[p] = Empty
    BY <1>1 DEF Diff, Empty
<1>2. CASE resp[p] # Empty
  <2>1. PICK a \in Answers \cup {Down} : resp[p] = Envelope(a)
      BY <1>2 DEF Recorded, Payload, Envelope, Null, Empty
  <2>2. resp[p].form = "envelope" /\ resp[p].of = a /\ unwrapResult(resp[p]) = Payload(a)
      BY <2>1 DEF Envelope, unwrapResult
  <2>3. Diff(p) = "match" <=> o.raw = Payload(a)
      BY <1>2, <2>2 DEF Diff, Match, Payload, Empty
  <2>4. CASE o.replayOf # 0
    <3>1. o.raw.form # "payload"
        BY <2>4 DEF Formed
    <3> QED BY <2>2, <2>3, <2>4, <3>1 DEF Payload
  <2>5. CASE o.replayOf = 0 /\ o.answer \in Errors
    <3>1. o.raw = Null
        BY <2>5 DEF Formed
    <3>2. o.raw # Payload(a)
        BY <3>1 DEF Null, Payload
    <3> QED BY <2>3, <2>5, <3>2
  <2>6. CASE o.replayOf = 0 /\ o.answer \notin Errors
    <3>1. o.raw = Payload(o.answer) /\ o.answer \in Results
        BY <2>6 DEF Formed, Answers
    <3>2. o.raw = Payload(a) <=> a = o.answer
        BY <3>1 DEF Payload
    <3> QED BY <2>2, <2>3, <2>6, <3>1, <3>2
  <2> QED BY <2>4, <2>5, <2>6
<1> QED BY <1>1, <1>2
-----------------------------------------------------------------------------
(* The initial state, and one lemma for each kind of step.                 *)

LEMMA InitInv == Init => Inv
<1> SUFFICES ASSUME Init PROVE Inv
    OBVIOUS
<1> USE CallLogAssumption
<1>1. TableInv
    BY DEF Init, TableInv, LineageHolds
<1>2. QueueInv
    BY DEF Init, QueueInv
<1>3. ConsoleInv
  <2>1. Empty \in Recorded
      BY DEF Recorded
  <2> QED BY <2>1 DEF Init, ConsoleInv, DiffExact, Nobody
<1>4. PruneInv
    BY DEF Init, PruneInv
<1> QED BY <1>1, <1>2, <1>3, <1>4 DEF Inv

(* Calls on the live path: recorded, and written by the worker.            *)
LEMMA LiveKeeps ==
    ASSUME Inv, LiveCall \/ InsertLive
    PROVE  Inv'
<1> USE DEF Inv
<1>1. CASE LiveCall
  <2>1. QueueInv'
      BY <1>1, EnqueueKeeps DEF LiveCall, PruneInv
  <2>2. TableInv' /\ PruneInv'
      BY <1>1 DEF LiveCall, table, pruning, TableInv, LineageHolds, PruneInv
  <2>3. ConsoleInv'
      BY <1>1, ConsoleKeeps DEF LiveCall, table
  <2> QED BY <2>1, <2>2, <2>3
<1>2. CASE InsertLive
  <2>1. Formed(Head(queue)) /\ Head(queue).replayOf = 0
      BY <1>2 DEF InsertLive, QueueInv
  <2>2. QueueInv'
    <3>1. /\ queue' \in Seq(Rows) /\ Len(queue') = Len(queue) - 1
          /\ Len(queue) \in Nat \ {0}
          /\ DOMAIN queue' = 1..(Len(queue) - 1) /\ DOMAIN queue = 1..Len(queue)
          /\ \A i \in 1..(Len(queue) - 1) : queue'[i] = queue[i + 1]
        BY <1>2 DEF InsertLive, QueueInv
    <3>2. \A i \in DOMAIN queue' : i + 1 \in DOMAIN queue /\ queue'[i] = queue[i + 1]
        BY <3>1
    <3>3. Len(queue') <= QueueSize
        BY <3>1, CallLogAssumption DEF QueueInv
    <3> QED BY <3>1, <3>2, <3>3 DEF QueueInv
  <2>3. /\ TableInv' /\ DOMAIN made \subseteq DOMAIN made'
        /\ \A i \in DOMAIN made : made'[i] = made[i]
    <3>1. CASE Insert(Head(queue))
        BY <2>1, <3>1, InsertKeeps DEF Points
    <3>2. CASE UNCHANGED table
        BY <3>2 DEF table, TableInv, LineageHolds
    <3> QED BY <1>2, <3>1, <3>2 DEF InsertLive
  <2>4. ConsoleInv'
      BY <1>2, <2>3, ConsoleKeeps DEF InsertLive
  <2>5. PruneInv'
      BY <1>2 DEF InsertLive, pruning, PruneInv
  <2> QED BY <2>2, <2>3, <2>4, <2>5
<1> QED BY <1>1, <1>2

(* Asking for replays.                                                     *)
LEMMA RequestKeeps ==
    ASSUME Inv, NEW p \in Replayers, NEW ids \in Seq(Nat), Request(p, ids)
    PROVE  Inv'
<1> USE DEF Inv
<1>1. TableInv' /\ QueueInv' /\ PruneInv'
    BY DEF Request, table, pruning, TableInv, LineageHolds, QueueInv, PruneInv
<1>2. ConsoleInv'
    BY DEF Request, table, ConsoleInv, DiffExact
<1> QED BY <1>1, <1>2

LEMMA HandleKeeps ==
    ASSUME Inv, NEW p \in Replayers, handleReplay(p) \/ handleReplayBatch(p)
    PROVE  Inv'
<1> USE CallLogAssumption
<1>1. CASE handleReplay(p)
  <2>1. PICK i \in 1..MaxRecords : Request(p, <<i>>)
      BY <1>1 DEF handleReplay
  <2>2. <<i>> \in Seq(Nat)
      OBVIOUS
  <2> QED BY <2>1, <2>2, RequestKeeps
<1>2. CASE handleReplayBatch(p)
  <2>1. PICK pars \in SUBSET Params :
            LET found == {i \in DOMAIN calls : calls[i].params \in pars}
                n == IF Cardinality(found) < BatchMax THEN Cardinality(found) ELSE BatchMax
            IN  \E ids \in [1..n -> found] : NewestFirst(ids, found) /\ Request(p, ids)
      BY <1>2 DEF handleReplayBatch
  <2> DEFINE found == {i \in DOMAIN calls : calls[i].params \in pars}
             n == IF Cardinality(found) < BatchMax THEN Cardinality(found) ELSE BatchMax
  <2>2. found \subseteq 1..(nextId - 1) /\ nextId \in Nat
      BY DEF Inv, TableInv
  <2>3. IsFiniteSet(found)
      BY <2>2, FS_Interval, FS_Subset, 1 \in Int, nextId - 1 \in Int
  <2>4. n \in Nat
      BY <2>3, FS_CardinalityType
  <2>5. PICK ids \in [1..n -> found] : Request(p, ids)
      BY <2>1
  <2>6. found \subseteq Nat
      BY <2>2
  <2> HIDE DEF found, n
  <2>7. ids \in [1..n -> Nat]
      BY <2>5, <2>6
  <2>8. ids \in Seq(Nat)
      BY <2>4, <2>7, SeqDef
  <2> QED BY <2>5, <2>8, RequestKeeps
<1> QED BY <1>1, <1>2

(* Reading the row to replay.                                              *)
LEMMA GetKeeps ==
    ASSUME Inv, NEW p \in Replayers, Get(p)
    PROVE  Inv'
<1> USE DEF Inv
<1>1. TableInv' /\ QueueInv' /\ PruneInv'
    BY DEF Get, table, pruning, TableInv, LineageHolds, QueueInv, PruneInv
<1>2. ConsoleInv'
  <2>1. todo' \in [Replayers -> Seq(Nat)] /\ Head(todo[p]) \in Nat
    <3>1. todo[p] \in Seq(Nat) /\ todo[p] # <<>>
        BY DEF Get, ConsoleInv
    <3>2. Tail(todo[p]) \in Seq(Nat) /\ Head(todo[p]) \in Nat
        BY <3>1
    <3> QED BY <3>2 DEF Get, ConsoleInv
  <2> DEFINE i == Head(todo[p])
  <2>2. CASE i \in DOMAIN calls
    <3>1. /\ orig' = [orig EXCEPT ![p] = [id |-> i, row |-> calls[i]]]
          /\ pc' = [pc EXCEPT ![p] = "replaying"]
        BY <2>2 DEF Get
    <3>2. /\ i \in DOMAIN made /\ calls[i] = made[i] /\ calls[i] \in Rows
        BY <2>2 DEF TableInv, Formed
    <3>3. UNCHANGED <<made, resp, verdict>>
        BY DEF Get, table
    <3>4. orig' \in [Replayers -> [id : Nat, row : Rows \cup {NoRow}]]
        BY <2>1, <3>1, <3>2 DEF ConsoleInv
    <3>5. \A q \in Replayers :
             /\ orig'[q] = IF q = p THEN [id |-> i, row |-> calls[i]] ELSE orig[q]
             /\ pc'[q] = IF q = p THEN "replaying" ELSE pc[q]
        BY <3>1 DEF ConsoleInv
    <3>6. DiffExact'
        BY <3>3, <3>5 DEF ConsoleInv, DiffExact
    <3>7. pc' \in [Replayers -> {"idle", "next", "replaying", "returned", "told"}]
        BY <3>1 DEF ConsoleInv
    <3> HIDE DEF i
    <3> QED BY <2>1, <3>2, <3>3, <3>4, <3>5, <3>6, <3>7 DEF ConsoleInv
  <2>3. CASE i \notin DOMAIN calls
    <3>1. UNCHANGED <<orig, pc, made, resp, verdict>>
        BY <2>3 DEF Get, table
    <3> QED BY <2>1, <3>1 DEF ConsoleInv, DiffExact
  <2> QED BY <2>2, <2>3
<1> QED BY <1>1, <1>2

(* Replay returns, with an answer or without.                              *)
LEMMA ReturnedKeeps ==
    ASSUME Inv, NEW p \in Replayers, NEW r \in Recorded,
           r.form \in {"envelope", "empty"}, Returned(p, r)
    PROVE  TableInv' /\ ConsoleInv' /\ PruneInv'
<1> USE DEF Inv
<1>1. TableInv' /\ PruneInv'
    BY DEF Returned, table, pruning, TableInv, LineageHolds, PruneInv
<1>2. ConsoleInv'
    BY DEF Returned, table, ConsoleInv, DiffExact
<1> QED BY <1>1, <1>2

LEMMA ReplayKeeps ==
    ASSUME Inv, NEW p \in Replayers,
           ReplayAnswered(p) \/ ReplayDown(p) \/ ReplayFails(p)
    PROVE  Inv'
<1> USE DEF Inv
<1>1. /\ Empty \in Recorded /\ Empty.form = "empty"
      /\ \A a \in Answers \cup {Down} : Envelope(a) \in Recorded /\ Envelope(a).form = "envelope"
    BY DEF Recorded, Empty, Envelope
<1>2. pc[p] = "replaying" => orig[p].row.params \in Params
  <2>1. \A i \in DOMAIN made : made[i].params \in Params
      BY DEF TableInv, Formed, Rows
  <2> QED BY <2>1 DEF ConsoleInv
<1>3. pc[p] = "replaying"
    BY DEF ReplayAnswered, ReplayDown, ReplayFails, Returned
<1>4. \A a \in Answers : Enqueue(orig[p].row.params, a) => QueueInv'
    BY <1>2, <1>3, EnqueueKeeps DEF PruneInv
<1>5. UNCHANGED queue => QueueInv'
    BY DEF QueueInv
<1>6. CASE ReplayAnswered(p)
  <2>1. PICK a \in Answers : Returned(p, Envelope(a)) /\ Enqueue(orig[p].row.params, a)
      BY <1>6 DEF ReplayAnswered
  <2> QED BY <1>1, <1>4, <2>1, ReturnedKeeps
<1>7. CASE ReplayDown(p)
    BY <1>1, <1>5, <1>7, ReturnedKeeps DEF ReplayDown
<1>8. CASE ReplayFails(p)
    BY <1>1, <1>4, <1>5, <1>8, ReturnedKeeps DEF ReplayFails
<1> QED BY <1>6, <1>7, <1>8

(* The replay is recorded and its diff reported.                           *)
LEMMA RecordKeeps ==
    ASSUME Inv, NEW p \in Replayers, recordReplayAudit(p)
    PROVE  Inv'
<1> USE DEF Inv
<1> DEFINE o == orig[p].row
<1>1. /\ pc[p] = "returned"
      /\ orig[p].id \in DOMAIN made /\ o = made[orig[p].id] /\ Formed(o)
      /\ resp[p] \in Recorded /\ resp[p].form \in {"envelope", "empty"}
    BY DEF recordReplayAudit, ConsoleInv, TableInv
<1>2. Formed(ReplayRow(p)) /\ Points(ReplayRow(p), made)
  <2>1. orig[p].id \in Nat \ {0}
      BY <1>1 DEF TableInv
  <2>2. resp[p].of \in Answers \cup {Down, None}
      BY <1>1 DEF Recorded, Payload, Envelope, Null, Empty
  <2>3. o.params \in Params /\ now \in Nat
      BY <1>1 DEF Formed, Rows, PruneInv
  <2>4. ReplayRow(p) \in Rows
      BY <1>1, <2>1, <2>2, <2>3 DEF ReplayRow, Rows
  <2> QED BY <1>1, <2>1, <2>4 DEF ReplayRow, Formed, Points
<1>3. /\ TableInv' /\ DOMAIN made \subseteq DOMAIN made'
      /\ \A i \in DOMAIN made : made'[i] = made[i]
  <2>1. CASE Insert(ReplayRow(p))
      BY <1>2, <2>1, InsertKeeps
  <2>2. CASE UNCHANGED table
      BY <2>2 DEF table, TableInv, LineageHolds
  <2> QED BY <2>1, <2>2 DEF recordReplayAudit
<1>4. ConsoleInv'
  <2>1. Diff(p) \in {"none", "match", "differs"}
      BY DEF Diff
  <2>2. Diff(p) = "match" <=> /\ o.replayOf = 0 /\ o.answer \in Results
                              /\ resp[p].form = "envelope" /\ resp[p].of = o.answer
      BY <1>1, DiffIs
  <2>3. /\ UNCHANGED <<todo, orig, resp>>
        /\ verdict' = [verdict EXCEPT ![p] = Diff(p)]
        /\ pc' = [pc EXCEPT ![p] = "told"]
      BY DEF recordReplayAudit
  <2>4. \A q \in Replayers : /\ verdict'[q] = IF q = p THEN Diff(p) ELSE verdict[q]
                             /\ pc'[q] = IF q = p THEN "told" ELSE pc[q]
      BY <2>3 DEF ConsoleInv
  <2>5. DiffExact'
      BY <2>2, <2>3, <2>4 DEF ConsoleInv, DiffExact
  <2>6. /\ pc' \in [Replayers -> {"idle", "next", "replaying", "returned", "told"}]
        /\ verdict' \in [Replayers -> {"none", "match", "differs"}]
      BY <2>1, <2>3 DEF ConsoleInv
  <2>7. \A q \in Replayers :
          /\ pc'[q] \in {"replaying", "returned", "told"} =>
                orig'[q].id \in DOMAIN made' /\ orig'[q].row = made'[orig'[q].id]
          /\ pc'[q] \in {"returned", "told"} => resp'[q].form \in {"envelope", "empty"}
      BY <1>1, <1>3, <2>3, <2>4 DEF ConsoleInv
  <2> QED BY <2>3, <2>5, <2>6, <2>7 DEF ConsoleInv
<1>5. QueueInv' /\ PruneInv'
    BY DEF recordReplayAudit, pruning, QueueInv, PruneInv
<1> QED BY <1>3, <1>4, <1>5

LEMMA ContinueKeeps ==
    ASSUME Inv, NEW p \in Replayers, Continue(p)
    PROVE  Inv'
<1> USE DEF Inv
<1>1. TableInv' /\ QueueInv' /\ PruneInv'
    BY DEF Continue, table, pruning, TableInv, LineageHolds, QueueInv, PruneInv
<1>2. Empty \in Recorded
    BY DEF Recorded
<1>3. ConsoleInv'
    BY <1>2 DEF Continue, table, Nobody, ConsoleInv, DiffExact
<1> QED BY <1>1, <1>3

LEMMA PruneKeeps ==
    ASSUME Inv, NEW q \in Pruners, PruneStep(q)
    PROVE  Inv'
<1> USE DEF Inv
<1>1. UNCHANGED <<nextId, made, queue, console>>
    BY DEF PruneStep, pruneNow, DeleteOld, DeleteExcess, table
<1>2. PruneInv'
    BY CallLogAssumption DEF PruneStep, pruneNow, DeleteOld, DeleteExcess, PruneInv
<1>3. TableInv'
  <2>1. CASE pruneNow(q)
      BY <2>1 DEF pruneNow, table, TableInv, LineageHolds
  <2>2. CASE DeleteOld(q)
      BY <1>1, <2>2, DeleteKeeps DEF DeleteOld
  <2>3. CASE DeleteExcess(q)
      BY <1>1, <2>3, DeleteKeeps DEF DeleteExcess
  <2> QED BY <2>1, <2>2, <2>3 DEF PruneStep
<1>4. QueueInv' /\ ConsoleInv'
    BY <1>1, ConsoleKeeps DEF QueueInv
<1> QED BY <1>2, <1>3, <1>4

(* A reload, a restart, the clock, and steps that change nothing.          *)
LEMMA OtherKeeps ==
    ASSUME Inv, onConfigReload \/ Restart \/ Tick \/ UNCHANGED vars
    PROVE  Inv'
<1> USE DEF Inv
<1>1. CASE Restart
  <2>1. TableInv' /\ QueueInv' /\ PruneInv'
      BY <1>1, CallLogAssumption DEF Restart, table, TableInv, LineageHolds, QueueInv, PruneInv
  <2>2. Empty \in Recorded
      BY DEF Recorded
  <2>3. ConsoleInv'
      BY <1>1, <2>2 DEF Restart, table, Nobody, ConsoleInv, DiffExact
  <2> QED BY <2>1, <2>3
<1>2. CASE onConfigReload \/ Tick \/ UNCHANGED vars
  <2>1. UNCHANGED <<table, calls, nextId, made, queue, console>>
      BY <1>2 DEF onConfigReload, Tick, vars, table, console
  <2>2. TableInv' /\ QueueInv'
      BY <2>1 DEF TableInv, LineageHolds, QueueInv
  <2>3. ConsoleInv'
      BY <2>1, ConsoleKeeps
  <2>4. PruneInv'
      BY <1>2 DEF onConfigReload, Tick, vars, pruning, PruneInv
  <2> QED BY <2>2, <2>3, <2>4
<1> QED BY <1>1, <1>2

LEMMA InvAlways == Spec => []Inv
<1>1. Inv /\ [Next]_vars => Inv'
  <2> SUFFICES ASSUME Inv, [Next]_vars PROVE Inv'
      OBVIOUS
  <2>1. CASE LiveCall \/ InsertLive
      BY <2>1, LiveKeeps
  <2>2. ASSUME NEW p \in Replayers, ConsoleStep(p) PROVE Inv'
      BY <2>2, HandleKeeps, GetKeeps, ReplayKeeps, RecordKeeps, ContinueKeeps
         DEF ConsoleStep
  <2>3. ASSUME NEW q \in Pruners, PruneStep(q) PROVE Inv'
      BY <2>3, PruneKeeps
  <2>4. CASE onConfigReload \/ Restart \/ Tick \/ UNCHANGED vars
      BY <2>4, OtherKeeps
  <2> QED BY <2>1, <2>2, <2>3, <2>4 DEF Next
<1> QED BY InitInv, <1>1, PTL DEF Spec

-----------------------------------------------------------------------------
(* The state is always of its type: rows never change once inserted, ids   *)
(* are given out in order, the channel never exceeds its size.             *)
THEOREM TypeCorrect == Spec => []TypeOK
BY InvAlways, InvType, PTL

(* A replay always points at an earlier row with the same parameters,      *)
(* whatever retention deletes and whichever inserts fail.                  *)
THEOREM LineageHoldsAlways == Spec => []LineageHolds
<1>1. Inv => LineageHolds
    BY DEF Inv, TableInv
<1> QED BY InvAlways, <1>1, PTL

(* A diff says "match" exactly for a repeated result of a live call.       *)
THEOREM DiffExactAlways == Spec => []DiffExact
<1>1. Inv => DiffExact
    BY DEF Inv, ConsoleInv
<1> QED BY InvAlways, <1>1, PTL
-----------------------------------------------------------------------------
(* Retention: why a row that is gone was in excess.                        *)

Given(i) ==
    \E pol \in applied :
        \/ TooOld(made[i], pol.age)
        \/ pol.rows > 0 /\ Cardinality({j \in DOMAIN made : j > i}) >= pol.rows

ExcessInv ==
    /\ \A i \in DOMAIN made \ DOMAIN calls : Given(i)
    /\ \A q \in Pruners : ppc[q] # "idle" => policy[q] \in applied

(* The rows after a given one are finitely many, and no fewer when there   *)
(* are more rows.                                                          *)
LEMMA Later ==
    ASSUME NEW m \in Nat, NEW n \in Nat, m <= n, NEW i
    PROVE  /\ Cardinality({j \in 1..m : j > i}) \in Nat
           /\ Cardinality({j \in 1..n : j > i}) \in Nat
           /\ Cardinality({j \in 1..m : j > i}) <= Cardinality({j \in 1..n : j > i})
<1>1. IsFiniteSet(1..n) /\ {j \in 1..n : j > i} \subseteq 1..n
    BY FS_Interval, 1 \in Int, n \in Int
<1>2. IsFiniteSet({j \in 1..n : j > i})
    BY <1>1, FS_Subset
<1>3. {j \in 1..m : j > i} \subseteq {j \in 1..n : j > i}
    OBVIOUS
<1>4. /\ IsFiniteSet({j \in 1..m : j > i})
      /\ Cardinality({j \in 1..m : j > i}) <= Cardinality({j \in 1..n : j > i})
    BY <1>2, <1>3, FS_Subset
<1> QED BY <1>2, <1>4, FS_CardinalityType

(* What justifies a deletion goes on justifying it.                        *)
LEMMA GivenStays ==
    ASSUME Inv, Inv', NEW i \in DOMAIN made, Given(i),
           DOMAIN made \subseteq DOMAIN made', made'[i] = made[i],
           applied \subseteq applied', now <= now'
    PROVE  Given(i)'
<1> DEFINE later == {j \in DOMAIN made : j > i}
<1>1. PICK pol \in applied :
          \/ TooOld(made[i], pol.age)
          \/ pol.rows > 0 /\ Cardinality(later) >= pol.rows
    BY DEF Given
<1>2. pol \in applied' /\ pol.age \in Nat /\ pol.rows \in Nat
    BY <1>1, CallLogAssumption DEF Inv, PruneInv
<1>3. CASE TooOld(made[i], pol.age)
  <2>1. now \in Nat /\ now' \in Nat /\ made[i].at \in Nat
      BY DEF Inv, PruneInv, TableInv, Formed, Rows
  <2>2. pol.age > 0 /\ made[i].at + pol.age < now'
      BY <1>2, <1>3, <2>1 DEF TooOld
  <2>3. TooOld(made[i], pol.age)'
      BY <2>2 DEF TooOld
  <2> QED BY <1>2, <2>3 DEF Given
<1>4. CASE pol.rows > 0 /\ Cardinality(later) >= pol.rows
  <2>1. /\ nextId \in Nat \ {0} /\ DOMAIN made = 1..(nextId - 1)
        /\ nextId' \in Nat \ {0} /\ DOMAIN made' = 1..(nextId' - 1)
      BY DEF Inv, TableInv
  <2>2. nextId - 1 \in Nat /\ nextId' - 1 \in Nat /\ nextId - 1 <= nextId' - 1
    <3>1. \A m, n \in Nat \ {0} : 1..(m - 1) \subseteq 1..(n - 1) => m - 1 <= n - 1
        OBVIOUS
    <3>2. \A n \in Nat \ {0} : n - 1 \in Nat
        OBVIOUS
    <3> QED BY <2>1, <3>1, <3>2
  <2>3. /\ Cardinality(later) \in Nat /\ Cardinality(later') \in Nat
        /\ Cardinality(later) <= Cardinality(later')
      BY <2>1, <2>2, Later
  <2>4. Cardinality(later') >= pol.rows
      BY <1>2, <1>4, <2>3
  <2> QED BY <1>2, <1>4, <2>4 DEF Given
<1> QED BY <1>1, <1>3, <1>4

(* Each deletion takes only rows in excess under the policy it has read.   *)
LEMMA DeletesGiven ==
    ASSUME Inv, Inv', ExcessInv, NEW q \in Pruners, DeleteOld(q) \/ DeleteExcess(q),
           NEW i \in DOMAIN calls \ DOMAIN calls'
    PROVE  Given(i)
<1>1. policy[q] \in applied /\ i \in DOMAIN made /\ calls[i] = made[i]
    BY DEF DeleteOld, DeleteExcess, ExcessInv, Inv, TableInv
<1>2. CASE DeleteOld(q)
  <2>1. TooOld(calls[i], policy[q].age)
      BY <1>2 DEF DeleteOld, Keep
  <2> QED BY <1>1, <2>1 DEF Given
<1>3. CASE DeleteExcess(q)
  <2> DEFINE above == {j \in DOMAIN calls : j > i}
             later == {j \in DOMAIN made : j > i}
  <2>1. policy[q].rows > 0 /\ i \notin Newest(policy[q].rows)
      BY <1>3 DEF DeleteExcess, Keep
  <2>2. ~(Cardinality(above) < policy[q].rows)
      BY <2>1 DEF Newest
  <2>3. above \subseteq later
      BY DEF Inv, TableInv
  <2>4. /\ nextId - 1 \in Nat /\ DOMAIN made = 1..(nextId - 1)
      BY DEF Inv, TableInv
  <2>5. IsFiniteSet(1..(nextId - 1)) /\ later \subseteq 1..(nextId - 1)
      BY <2>4, FS_Interval, 1 \in Int, nextId - 1 \in Int
  <2>6. IsFiniteSet(later)
      BY <2>5, FS_Subset
  <2>7. IsFiniteSet(above) /\ Cardinality(above) <= Cardinality(later)
      BY <2>3, <2>6, FS_Subset
  <2>8. /\ Cardinality(above) \in Nat /\ Cardinality(later) \in Nat
        /\ policy[q].rows \in Nat
      BY <2>6, <2>7, FS_CardinalityType DEF Inv, PruneInv
  <2>9. Cardinality(later) >= policy[q].rows
      BY <2>2, <2>7, <2>8
  <2> QED BY <1>1, <2>1, <2>9 DEF Given
<1> QED BY <1>2, <1>3

(* What a console leaves alone, and that it adds at most one row.          *)
LEMMA ConsoleFrame ==
    ASSUME NEW p \in Replayers, ConsoleStep(p)
    PROVE  UNCHANGED <<now, pruning>> /\ (UNCHANGED table \/ \E r : Insert(r))
<1>1. CASE handleReplay(p) \/ handleReplayBatch(p)
    BY <1>1 DEF handleReplay, handleReplayBatch, Request
<1>2. CASE Get(p) \/ Continue(p)
    BY <1>2 DEF Get, Continue
<1>3. CASE ReplayAnswered(p) \/ ReplayDown(p) \/ ReplayFails(p)
    BY <1>3 DEF ReplayAnswered, ReplayDown, ReplayFails, Returned
<1>4. CASE recordReplayAudit(p)
    BY <1>4 DEF recordReplayAudit
<1> QED BY <1>1, <1>2, <1>3, <1>4 DEF ConsoleStep

(* Only a deletion takes rows, and no step changes one.                     *)
LEMMA StepKeeps ==
    ASSUME Inv, [Next]_vars
    PROVE  /\ DOMAIN made \subseteq DOMAIN made'
           /\ \A i \in DOMAIN made : made'[i] = made[i]
           /\ applied \subseteq applied' /\ now <= now'
           /\ \A i \in DOMAIN made' \ DOMAIN calls' :
                 i \in DOMAIN made /\ (i \in DOMAIN calls =>
                     \E q \in Pruners : DeleteOld(q) \/ DeleteExcess(q))
<1> DEFINE Grown == /\ DOMAIN made \subseteq DOMAIN made'
                    /\ \A i \in DOMAIN made : made'[i] = made[i]
                    /\ \A i \in DOMAIN made' \ DOMAIN calls' :
                          i \in DOMAIN made /\ i \notin DOMAIN calls
<1>1. now \in Nat /\ nextId \notin DOMAIN made
    BY DEF Inv, PruneInv, TableInv
<1>2. ASSUME NEW r, Insert(r) PROVE Grown
    BY <1>1, <1>2 DEF Insert, NewId, With
<1>3. UNCHANGED table => Grown
    BY DEF table
<1> HIDE DEF Grown
<1>4. CASE UNCHANGED vars
    BY <1>1, <1>3, <1>4 DEF vars, table, Grown
<1>5. CASE LiveCall \/ InsertLive \/ onConfigReload \/ Restart \/ Tick
  <2>1. Grown
      BY <1>2, <1>3, <1>5 DEF LiveCall, InsertLive, onConfigReload, Restart, Tick
  <2>2. applied \subseteq applied' /\ now <= now'
      BY <1>1, <1>5 DEF LiveCall, InsertLive, onConfigReload, Restart, Tick, pruning
  <2> QED BY <2>1, <2>2 DEF Grown
<1>6. CASE \E p \in Replayers : ConsoleStep(p)
    BY <1>1, <1>2, <1>3, <1>6, ConsoleFrame DEF pruning, Grown
<1>7. CASE \E q \in Pruners : pruneNow(q)
  <2>1. Grown
      BY <1>3, <1>7 DEF pruneNow
  <2> QED BY <1>1, <1>7, <2>1 DEF pruneNow, Grown
<1>8. CASE \E q \in Pruners : DeleteOld(q) \/ DeleteExcess(q)
  <2>1. UNCHANGED <<made, applied, now>>
      BY <1>8 DEF DeleteOld, DeleteExcess
  <2> QED BY <1>1, <1>8, <2>1
<1> QED BY <1>4, <1>5, <1>6, <1>7, <1>8 DEF Next, PruneStep

LEMMA ExcessStep ==
    ASSUME Inv, Inv', ExcessInv, [Next]_vars
    PROVE  ExcessInv'
<1>1. ASSUME NEW i \in DOMAIN made' \ DOMAIN calls' PROVE Given(i)'
  <2>1. i \in DOMAIN made /\ Given(i)
    <3>1. CASE i \in DOMAIN calls
        BY <3>1, StepKeeps, DeletesGiven
    <3>2. CASE i \notin DOMAIN calls
        BY <3>2, StepKeeps DEF ExcessInv
    <3> QED BY <3>1, <3>2
  <2> QED BY <2>1, StepKeeps, GivenStays
<1>2. ASSUME NEW q \in Pruners, ppc'[q] # "idle" PROVE policy'[q] \in applied'
  <2>1. CASE \E r \in Pruners : PruneStep(r)
      BY <1>2, <2>1 DEF PruneStep, pruneNow, DeleteOld, DeleteExcess, ExcessInv, Inv, PruneInv
  <2>2. CASE Restart
      BY <1>2, <2>2 DEF Restart
  <2>3. CASE LiveCall \/ InsertLive \/ onConfigReload \/ Tick \/ UNCHANGED vars
      BY <1>2, <2>3 DEF LiveCall, InsertLive, onConfigReload, Tick, vars, pruning, ExcessInv
  <2>4. CASE \E p \in Replayers : ConsoleStep(p)
      BY <1>2, <2>4, ConsoleFrame DEF pruning, ExcessInv
  <2> QED BY <2>1, <2>2, <2>3, <2>4 DEF Next
<1> QED BY <1>1, <1>2 DEF ExcessInv

(* No policy change, restart or interleaving of pruners makes retention    *)
(* take a row that no policy in use had given up.                          *)
THEOREM OnlyExcessDeletedAlways == Spec => []OnlyExcessDeleted
<1>1. Init => ExcessInv
    BY DEF Init, ExcessInv
<1>2. ExcessInv => OnlyExcessDeleted
    BY DEF ExcessInv, Given, OnlyExcessDeleted
<1>3. Inv /\ Inv' /\ ExcessInv /\ [Next]_vars => ExcessInv'
    BY ExcessStep
<1> QED BY InvAlways, <1>1, <1>2, <1>3, PTL DEF Spec
=============================================================================
