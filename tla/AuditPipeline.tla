---------------------------- MODULE AuditPipeline ----------------------------
(***************************************************************************)
(* The audit path of internal/proxy: the reader and the handlers enqueue   *)
(* call records on a bounded channel and go on; one worker takes them off  *)
(* and has each inserted by a goroutine of its own, which it waits for     *)
(* only so long; on shutdown the worker drains the channel under a         *)
(* deadline, while run() waits for it under a timer and closes the store.  *)
(*                                                                         *)
(* Timers are abstract: a timeout may fire whenever the code waits on it.  *)
(* The database may be slow, fail, or never return from an insert.         *)
(***************************************************************************)
EXTENDS Naturals, FiniteSets, Sequences

CONSTANTS
    Records,    \* call records
    QueueSize,  \* capacity of auditCh
    None        \* no record

ASSUME QueueAssumption == QueueSize \in Nat \ {0} /\ None \notin Records

VARIABLES
    queue,      \* auditCh
    worker,     \* "serving", "draining" or "exited" (auditDone closed)
    expired,    \* whether the deadline of drainAudit has fired
    hand,       \* the record whose insert the worker waits for
    outcome,    \* what became of a record's insert
    main,       \* where run() is
    gaveUp,     \* whether run() stopped waiting for the worker
    accepted,   \* history: the records that went into the channel, in order
    early,      \* history: those that did while the proxy was running
    stored,     \* history: the records in the database, in order
    logged      \* history: <<record, why>> for every record reported lost

inputVars == <<accepted, early>>
workerVars == <<worker, expired, hand>>
mainVars == <<main, gaveUp>>
vars == <<queue, workerVars, outcome, mainVars, inputVars, stored, logged>>

Outcomes == {"none", "running", "ok", "error"}
Reasons == {"full", "failed", "timeout"}

Elements(s) == {s[i] : i \in DOMAIN s}
Log(r, why) == logged' = logged \cup {<<r, why>>}
Reported(r) == \E why \in Reasons : <<r, why>> \in logged

Init ==
    /\ queue = <<>>
    /\ worker = "serving" /\ expired = FALSE /\ hand = None
    /\ outcome = [r \in Records |-> "none"]
    /\ main = "running" /\ gaveUp = FALSE
    /\ accepted = <<>> /\ early = {}
    /\ stored = <<>> /\ logged = {}

-----------------------------------------------------------------------------
\* Mutant: the channel has no bound.
EnqueueUnbounded(r) ==
    /\ main # "exited"
    /\ r \notin Elements(accepted) /\ ~Reported(r)
    /\ queue' = Append(queue, r)
    /\ accepted' = Append(accepted, r)
    /\ early' = IF main = "running" THEN early \cup {r} ELSE early
    /\ UNCHANGED <<workerVars, outcome, mainVars, stored, logged>>

(* The response path: never waits, and gives the record up when the        *)
(* channel is full.  Nothing stops it while the process lives.             *)
enqueueAudit(r) ==
    /\ main # "exited"
    /\ r \notin Elements(accepted) /\ ~Reported(r)
    /\ IF Len(queue) < QueueSize
       THEN /\ queue' = Append(queue, r)
            /\ accepted' = Append(accepted, r)
            /\ early' = IF main = "running" THEN early \cup {r} ELSE early
            /\ UNCHANGED logged
       ELSE /\ Log(r, "full")
            /\ UNCHANGED <<queue, inputVars>>
    /\ UNCHANGED <<workerVars, outcome, mainVars, stored>>

-----------------------------------------------------------------------------
(* The worker.                                                             *)

\* Mutant: the insert is started and not waited for.
FireAndForget ==
    /\ worker # "exited" /\ hand = None /\ queue # <<>>
    /\ queue' = Tail(queue)
    /\ outcome' = [outcome EXCEPT ![Head(queue)] = "running"]
    /\ UNCHANGED <<workerVars, mainVars, inputVars, stored, logged>>

(* Take the next record and start its insert.  A drain whose deadline has  *)
(* fired may still do so: select picks among the ready cases at random.    *)
Take ==
    /\ worker # "exited" /\ hand = None /\ queue # <<>>
    /\ queue' = Tail(queue)
    /\ hand' = Head(queue)
    /\ outcome' = [outcome EXCEPT ![Head(queue)] = "running"]
    /\ UNCHANGED <<worker, expired, mainVars, inputVars, stored, logged>>

(* The database returns from an insert, or never does.                     *)
InsertReturns(r) ==
    /\ outcome[r] = "running" /\ main # "exited"
    /\ \/ /\ outcome' = [outcome EXCEPT ![r] = "ok"]
          /\ stored' = Append(stored, r)
       \/ /\ outcome' = [outcome EXCEPT ![r] = "error"]
          /\ UNCHANGED stored
    /\ UNCHANGED <<queue, workerVars, mainVars, inputVars, logged>>

(* The worker stops waiting: the insert has returned,                      *)
InsertHeard ==
    /\ hand # None /\ outcome[hand] \in {"ok", "error"}
    /\ hand' = None
    /\ IF outcome[hand] = "error" THEN Log(hand, "failed") ELSE UNCHANGED logged
    /\ UNCHANGED <<queue, worker, expired, outcome, mainVars, inputVars, stored>>

\* Mutant: there is no timeout on the wait.
NoTimeout ==
    /\ hand # None /\ outcome[hand] # "running"
    /\ hand' = None
    /\ Log(hand, "timeout")
    /\ UNCHANGED <<queue, worker, expired, outcome, mainVars, inputVars, stored>>

(* or write_timeout_ms have passed, whether it has returned or not.        *)
InsertTimedOut ==
    /\ hand # None
    /\ hand' = None
    /\ Log(hand, "timeout")
    /\ UNCHANGED <<queue, worker, expired, outcome, mainVars, inputVars, stored>>

BeginDrain ==     \* case <-ctx.Done() of auditWorker
    /\ worker = "serving" /\ hand = None /\ main # "running"
    /\ worker' = "draining"
    /\ UNCHANGED <<queue, expired, hand, outcome, mainVars, inputVars, stored, logged>>

DeadlineFires ==
    /\ worker = "draining" /\ ~expired
    /\ expired' = TRUE
    /\ UNCHANGED <<queue, worker, hand, outcome, mainVars, inputVars, stored, logged>>

\* Mutant: the worker returns as soon as it is told to stop.
EndAtOnce ==
    /\ worker = "draining" /\ hand = None
    /\ worker' = "exited"
    /\ UNCHANGED <<queue, expired, hand, outcome, mainVars, inputVars, stored, logged>>

EndDrain ==       \* the channel is empty, or the deadline has fired
    /\ worker = "draining" /\ hand = None
    /\ queue = <<>> \/ expired
    /\ worker' = "exited"
    /\ UNCHANGED <<queue, expired, hand, outcome, mainVars, inputVars, stored, logged>>

-----------------------------------------------------------------------------
(* run(), from cancel() on.                                                *)

Cancel ==
    /\ main = "running"
    /\ main' = "flushing"
    /\ UNCHANGED <<queue, workerVars, outcome, gaveUp, inputVars, stored, logged>>

Flushed ==        \* <-waitAudit; auditStore.Close()
    /\ main = "flushing" /\ worker = "exited"
    /\ main' = "closed"
    /\ UNCHANGED <<queue, workerVars, outcome, gaveUp, inputVars, stored, logged>>

FlushTimedOut ==  \* the timer of run(); auditStore.Close()
    /\ main = "flushing"
    /\ main' = "closed" /\ gaveUp' = TRUE
    /\ UNCHANGED <<queue, workerVars, outcome, inputVars, stored, logged>>

Exit ==
    /\ main = "closed"
    /\ main' = "exited"
    /\ UNCHANGED <<queue, workerVars, outcome, gaveUp, inputVars, stored, logged>>

Exited == main = "exited" /\ UNCHANGED vars

-----------------------------------------------------------------------------
Alive(A) == main # "exited" /\ A

WorkerStep ==
    \/ Take \/ InsertHeard \/ InsertTimedOut
    \/ BeginDrain \/ DeadlineFires \/ EndDrain

MainStep == Cancel \/ Flushed \/ FlushTimedOut \/ Exit

Next ==
    \/ \E r \in Records : enqueueAudit(r) \/ InsertReturns(r)
    \/ Alive(WorkerStep)
    \/ MainStep
    \/ Exited

Spec == Init /\ [][Next]_vars

(* The worker runs and its timers fire; nothing is assumed of the          *)
(* database, of the callers or of the order to stop.                       *)
FairSpec ==
    /\ Spec
    /\ WF_vars(Alive(Take)) /\ WF_vars(Alive(InsertHeard \/ InsertTimedOut))

-----------------------------------------------------------------------------
Handled(r) == outcome[r] \in {"ok", "error"} \/ Reported(r)

TypeOK ==
    /\ queue \in Seq(Records) /\ Len(queue) <= QueueSize
    /\ worker \in {"serving", "draining", "exited"} /\ expired \in BOOLEAN
    /\ hand \in Records \cup {None}
    /\ outcome \in [Records -> Outcomes]
    /\ main \in {"running", "flushing", "closed", "exited"} /\ gaveUp \in BOOLEAN
    /\ accepted \in Seq(Records) /\ early \subseteq Elements(accepted)
    /\ stored \in Seq(Records)
    /\ logged \subseteq Records \X Reasons

(* The records reach the database in the order the calls ended, whatever   *)
(* was slow, but for those whose insert the worker stopped waiting for     *)
(* (audit.go:83-86: these may still be written later).                     *)
StoredInOrder ==
    LET inTime == {i \in DOMAIN stored : <<stored[i], "timeout">> \notin logged}
        place(r) == CHOOSE n \in DOMAIN accepted : accepted[n] = r
    IN  \A i, j \in inTime : i < j => place(stored[i]) < place(stored[j])

(* proxy.go:322-324: the queue is flushed before the store is closed, "so  *)
(* nothing is dropped mid-write".  Unless the timer of run() or the drain  *)
(* deadline fired, the store is closed only when every record accepted     *)
(* before the stop is in the database or was reported lost.                *)
GracefulFlush ==
    main \in {"closed", "exited"} /\ ~gaveUp /\ ~expired =>
        \A r \in early : Handled(r)

(* Liveness: one insert that never returns does not keep the records       *)
(* behind it from being tried.                                             *)
NeverStuck ==
    \A r \in Records :
        r \in Elements(queue) ~> (r \notin Elements(queue) \/ main # "running")
=============================================================================
