----------------------------- MODULE AuditProofs -----------------------------
(***************************************************************************)
(* Theorems about AuditPipeline, for any records and any channel size.     *)
(***************************************************************************)
EXTENDS AuditPipeline, TLAPS

LEMMA AppendElements ==
    ASSUME NEW s \in Seq(Records), NEW r \in Records
    PROVE  /\ Append(s, r) \in Seq(Records)
           /\ Elements(Append(s, r)) = Elements(s) \cup {r}
<1>1. /\ Len(Append(s, r)) = Len(s) + 1 /\ Append(s, r)[Len(s) + 1] = r
      /\ \A i \in 1..Len(s) : Append(s, r)[i] = s[i]
      /\ Append(s, r) \in Seq(Records) /\ Len(s) \in Nat
  OBVIOUS
<1>2. DOMAIN s = 1..Len(s) /\ DOMAIN Append(s, r) = 1..(Len(s) + 1)
  BY <1>1
<1>3. 1..(Len(s) + 1) = 1..Len(s) \cup {Len(s) + 1}
  BY <1>1
<1> QED BY <1>1, <1>2, <1>3 DEF Elements

LEMMA TailElements ==
    ASSUME NEW s \in Seq(Records), s # <<>>
    PROVE  /\ Head(s) \in Records /\ Tail(s) \in Seq(Records)
           /\ Elements(s) = Elements(Tail(s)) \cup {Head(s)}
<1>1. /\ Len(s) \in Nat /\ Len(s) > 0 /\ Head(s) = s[1]
      /\ Len(Tail(s)) = Len(s) - 1
      /\ \A i \in 1..(Len(s) - 1) : Tail(s)[i] = s[i + 1]
      /\ Head(s) \in Records /\ Tail(s) \in Seq(Records)
  OBVIOUS
<1>2. DOMAIN s = 1..Len(s) /\ DOMAIN Tail(s) = 1..(Len(s) - 1)
  BY <1>1
<1>3. ASSUME NEW i \in 1..Len(s), i # 1 PROVE s[i] \in Elements(Tail(s))
  <2>1. i - 1 \in 1..(Len(s) - 1) /\ (i - 1) + 1 = i
    BY <1>1, <1>3
  <2> QED BY <1>1, <1>2, <2>1 DEF Elements
<1>4. ASSUME NEW i \in 1..(Len(s) - 1) PROVE Tail(s)[i] \in Elements(s)
  <2>1. i + 1 \in 1..Len(s)
    BY <1>1
  <2> QED BY <1>1, <1>2, <2>1 DEF Elements
<1>5. Head(s) \in Elements(s)
  BY <1>1, <1>2 DEF Elements
<1>6. Elements(s) \subseteq Elements(Tail(s)) \cup {Head(s)}
  BY <1>1, <1>2, <1>3 DEF Elements
<1>7. Elements(Tail(s)) \subseteq Elements(s)
  BY <1>2, <1>4 DEF Elements
<1> QED BY <1>1, <1>5, <1>6, <1>7

-----------------------------------------------------------------------------
(* What makes GracefulFlush inductive: an accepted record is in the        *)
(* channel, in the worker's hand, or handled; and the worker returns only  *)
(* after the stop, with both empty or its deadline past.                   *)
FlushInv ==
    /\ queue \in Seq(Records) /\ accepted \in Seq(Records)
    /\ hand \in Records \cup {None}
    /\ outcome \in [Records -> Outcomes]
    /\ early \subseteq Elements(accepted)
    /\ \A r \in Elements(accepted) : r \in Elements(queue) \/ r = hand \/ Handled(r)
    /\ hand # None => worker # "exited"
    /\ worker # "serving" => main # "running"
    /\ worker = "exited" /\ ~expired => \A r \in early : Handled(r)
    /\ main \in {"closed", "exited"} /\ ~gaveUp => worker = "exited"

LEMMA WorkerKeepsFlush ==
    ASSUME FlushInv, WorkerStep
    PROVE  FlushInv'
<1> USE DEF FlushInv
<1>1. CASE Take
  <2> DEFINE h == Head(queue)
  <2>1. /\ worker # "exited" /\ hand = None /\ queue # <<>>
        /\ queue' = Tail(queue) /\ hand' = h
        /\ outcome' = [outcome EXCEPT ![h] = "running"]
        /\ UNCHANGED <<worker, expired, main, gaveUp, accepted, early, logged>>
    BY <1>1 DEF Take, mainVars, inputVars
  <2>2. h \in Records /\ Tail(queue) \in Seq(Records)
        /\ Elements(queue) = Elements(Tail(queue)) \cup {h}
    BY <2>1, TailElements
  <2> HIDE DEF h
  <2>3. outcome' \in [Records -> Outcomes]
    BY <2>1, <2>2 DEF Outcomes
  <2>4. \A r \in Elements(accepted) : r # None
    BY QueueAssumption DEF Elements
  <2>5. \A r \in Elements(accepted) : r # h /\ Handled(r) => Handled(r)'
    <3> SUFFICES ASSUME NEW r \in Elements(accepted), r # h, Handled(r)
                 PROVE  Handled(r)'
      OBVIOUS
    <3>1. r \in Records
      BY DEF Elements
    <3> QED BY <2>1, <3>1 DEF Handled, Reported
  <2>6. Elements(accepted') = Elements(accepted) /\ Elements(queue') = Elements(Tail(queue))
    BY <2>1 DEF Elements
  <2>7. \A r \in Elements(accepted) :
            r \in Elements(Tail(queue)) \/ r = h \/ Handled(r)'
    BY <2>1, <2>2, <2>4, <2>5
  <2> QED BY <2>1, <2>2, <2>3, <2>6, <2>7
<1>2. CASE InsertHeard \/ InsertTimedOut
  <2> PICK h : h = hand
    OBVIOUS
  <2>1. /\ h # None /\ hand' = None /\ Handled(h)'
        /\ logged \subseteq logged'
        /\ UNCHANGED <<queue, worker, expired, outcome, main, gaveUp, accepted, early>>
    <3>1. CASE InsertHeard
      BY <3>1 DEF InsertHeard, Log, mainVars, inputVars, Handled
    <3>2. CASE InsertTimedOut
      BY <3>2 DEF InsertTimedOut, Log, mainVars, inputVars, Handled, Reported, Reasons
    <3> QED BY <1>2, <3>1, <3>2
  <2>2. \A r : Handled(r) => Handled(r)'
    BY <2>1 DEF Handled, Reported
  <2>3. Elements(queue') = Elements(queue) /\ Elements(accepted') = Elements(accepted)
    BY <2>1
  <2>4. \A r \in Elements(accepted) : r \in Elements(queue) \/ Handled(r)'
    BY <2>1, <2>2
  <2> QED BY <2>1, <2>2, <2>3, <2>4
<1>3. CASE BeginDrain \/ DeadlineFires
  <2>1. /\ UNCHANGED <<queue, hand, outcome, main, gaveUp, accepted, early, logged>>
        /\ worker' # "exited" /\ worker # "exited"
        /\ main # "running"
    BY <1>3 DEF BeginDrain, DeadlineFires, mainVars, inputVars
  <2> QED BY <2>1 DEF Handled, Reported
<1>4. CASE EndDrain
  <2>1. /\ UNCHANGED <<queue, expired, hand, outcome, main, gaveUp, accepted, early, logged>>
        /\ worker = "draining" /\ hand = None
        /\ queue = <<>> \/ expired
    BY <1>4 DEF EndDrain, mainVars, inputVars
  <2>2. ~expired => Elements(queue) = {}
    BY <2>1 DEF Elements
  <2>3. \A r \in Elements(accepted) : r # None
    BY QueueAssumption DEF Elements
  <2> QED BY <2>1, <2>2, <2>3 DEF Handled, Reported
<1> QED BY <1>1, <1>2, <1>3, <1>4 DEF WorkerStep

LEMMA FlushStep ==
    ASSUME FlushInv, [Next]_vars
    PROVE  FlushInv'
<1> USE DEF FlushInv
<1>1. ASSUME NEW r \in Records, enqueueAudit(r) PROVE FlushInv'
  <2>1. UNCHANGED <<worker, expired, hand, outcome, main, gaveUp>>
    BY <1>1 DEF enqueueAudit, workerVars, mainVars
  <2>2. \A q : Handled(q) => Handled(q)'
    BY <1>1 DEF enqueueAudit, Handled, Reported, Log
  <2>3. CASE Len(queue) < QueueSize
    <3>1. /\ queue' = Append(queue, r) /\ accepted' = Append(accepted, r)
          /\ early' = IF main = "running" THEN early \cup {r} ELSE early
      BY <1>1, <2>3 DEF enqueueAudit
    <3>2. /\ queue' \in Seq(Records) /\ accepted' \in Seq(Records)
          /\ Elements(queue') = Elements(queue) \cup {r}
          /\ Elements(accepted') = Elements(accepted) \cup {r}
      BY <3>1, AppendElements
    <3> QED BY <2>1, <2>2, <3>1, <3>2
  <2>4. CASE ~(Len(queue) < QueueSize)
    <3>1. UNCHANGED <<queue, accepted, early>>
      BY <1>1, <2>4 DEF enqueueAudit, inputVars
    <3> QED BY <2>1, <2>2, <3>1
  <2> QED BY <2>3, <2>4
<1>2. ASSUME NEW r \in Records, InsertReturns(r) PROVE FlushInv'
  <2>1. /\ UNCHANGED <<queue, worker, expired, hand, main, gaveUp, accepted, early, logged>>
        /\ outcome' \in [Records -> Outcomes]
    BY <1>2 DEF InsertReturns, workerVars, mainVars, inputVars, Outcomes
  <2>2. \A q \in Elements(accepted) : Handled(q) => Handled(q)'
    <3>1. Elements(accepted) \subseteq Records
      BY DEF Elements
    <3>2. \A q \in Records : outcome[q] \in {"ok", "error"} => outcome'[q] = outcome[q]
      BY <1>2 DEF InsertReturns
    <3> QED BY <2>1, <3>1, <3>2 DEF Handled, Reported
  <2>3. Elements(queue') = Elements(queue) /\ Elements(accepted') = Elements(accepted)
    BY <2>1
  <2> QED BY <2>1, <2>2, <2>3
<1>3. CASE MainStep
  <2>1. /\ UNCHANGED <<queue, worker, expired, hand, outcome, accepted, early, logged>>
        /\ main' # "running"
        /\ main' \in {"closed", "exited"} /\ ~gaveUp' => worker = "exited"
    BY <1>3 DEF MainStep, Cancel, Flushed, FlushTimedOut, Exit, workerVars, inputVars
  <2> QED BY <2>1 DEF Handled, Reported
<1>4. CASE UNCHANGED vars
  BY <1>4 DEF vars, workerVars, mainVars, inputVars, Handled, Reported
<1> QED BY <1>1, <1>2, <1>3, <1>4, WorkerKeepsFlush DEF Next, Alive, Exited

(* A stop whose timers do not fire loses no record that was accepted       *)
(* before it, whatever the database did to the others.                     *)
THEOREM GracefulFlushAlways == Spec => []GracefulFlush
<1>1. Init => FlushInv
  BY QueueAssumption DEF Init, FlushInv, Elements, Outcomes
<1>2. FlushInv /\ [Next]_vars => FlushInv'
  BY FlushStep
<1>3. FlushInv => GracefulFlush
  BY DEF FlushInv, GracefulFlush
<1> QED BY <1>1, <1>2, <1>3, PTL DEF Spec

-----------------------------------------------------------------------------
LEMMA TypeInitially == Init => TypeOK
<1> SUFFICES ASSUME Init PROVE TypeOK
  OBVIOUS
<1>1. <<>> \in Seq(Records) /\ Len(<<>>) = 0 /\ 0 <= QueueSize
  BY QueueAssumption
<1>2. outcome \in [Records -> Outcomes]
  BY DEF Init, Outcomes
<1> QED BY <1>1, <1>2 DEF Init, TypeOK

LEMMA TypeStep ==
    ASSUME TypeOK, [Next]_vars
    PROVE  TypeOK'
<1> USE DEF TypeOK, Outcomes, Reasons
<1>1. ASSUME NEW r \in Records, enqueueAudit(r) PROVE TypeOK'
  <2>1. UNCHANGED <<worker, expired, hand, outcome, main, gaveUp, stored>>
    BY <1>1 DEF enqueueAudit, workerVars, mainVars
  <2>2. CASE Len(queue) < QueueSize
    <3>1. /\ queue' = Append(queue, r) /\ accepted' = Append(accepted, r)
          /\ early' \subseteq early \cup {r} /\ logged' = logged
      BY <1>1, <2>2 DEF enqueueAudit
    <3>2. /\ queue' \in Seq(Records) /\ accepted' \in Seq(Records)
          /\ Elements(accepted') = Elements(accepted) \cup {r}
      BY <3>1, AppendElements
    <3>3. Len(queue') <= QueueSize
      BY <2>2, <3>1, QueueAssumption
    <3> QED BY <2>1, <3>1, <3>2, <3>3
  <2>3. CASE ~(Len(queue) < QueueSize)
    BY <1>1, <2>1, <2>3 DEF enqueueAudit, inputVars, Log, Elements
  <2> QED BY <2>2, <2>3
<1>2. CASE Take
  <2>1. /\ queue # <<>> /\ queue' = Tail(queue) /\ hand' = Head(queue)
        /\ outcome' = [outcome EXCEPT ![Head(queue)] = "running"]
        /\ UNCHANGED <<worker, expired, main, gaveUp, accepted, early, stored, logged>>
    BY <1>2 DEF Take, mainVars, inputVars
  <2>2. /\ Head(queue) \in Records /\ Tail(queue) \in Seq(Records)
        /\ Len(Tail(queue)) <= QueueSize
    BY <2>1, QueueAssumption
  <2> QED BY <2>1, <2>2 DEF Elements
<1>3. ASSUME NEW r \in Records, InsertReturns(r) PROVE TypeOK'
  <2>1. /\ outcome' \in [Records -> Outcomes]
        /\ stored' \in Seq(Records)
        /\ UNCHANGED <<queue, worker, expired, hand, main, gaveUp, accepted, early, logged>>
    <3>1. UNCHANGED <<queue, worker, expired, hand, main, gaveUp, accepted, early, logged>>
      BY <1>3 DEF InsertReturns, workerVars, mainVars, inputVars
    <3>2. \/ outcome' = [outcome EXCEPT ![r] = "ok"] /\ stored' = Append(stored, r)
          \/ outcome' = [outcome EXCEPT ![r] = "error"] /\ stored' = stored
      BY <1>3 DEF InsertReturns
    <3>3. Append(stored, r) \in Seq(Records)
      OBVIOUS
    <3> QED BY <3>1, <3>2, <3>3
  <2> QED BY <2>1 DEF Elements
<1>4. CASE InsertHeard \/ InsertTimedOut
  <2>1. /\ hand' = None /\ logged' \subseteq Records \X Reasons
        /\ UNCHANGED <<queue, worker, expired, outcome, main, gaveUp, accepted, early, stored>>
    BY <1>4 DEF InsertHeard, InsertTimedOut, Log, mainVars, inputVars
  <2> QED BY <2>1 DEF Elements
<1>5. CASE BeginDrain \/ DeadlineFires \/ EndDrain
  BY <1>5 DEF BeginDrain, DeadlineFires, EndDrain, mainVars, inputVars, Elements
<1>6. CASE MainStep
  BY <1>6 DEF MainStep, Cancel, Flushed, FlushTimedOut, Exit, workerVars, inputVars, Elements
<1>7. CASE UNCHANGED vars
  BY <1>7 DEF vars, workerVars, mainVars, inputVars, Elements
<1> QED BY <1>1, <1>2, <1>3, <1>4, <1>5, <1>6, <1>7 DEF Next, Alive, WorkerStep, Exited

(* Every variable keeps its type; the channel never holds more records     *)
(* than its capacity, and only records it accepted count as accepted early. *)
THEOREM TypeCorrect == Spec => []TypeOK
<1>1. Init => TypeOK
  BY TypeInitially
<1>2. TypeOK /\ [Next]_vars => TypeOK'
  BY TypeStep
<1> QED BY <1>1, <1>2, PTL DEF Spec

-----------------------------------------------------------------------------
(* What makes StoredInOrder inductive: the channel is in order, and what   *)
(* has left it is ahead of what has not; an insert is running only for the *)
(* record in hand or for one given up; and what is no longer in hand is    *)
(* ahead of what is.                                                       *)
Ahead(s, r, q) == \A m, n \in DOMAIN s : s[m] = r /\ s[n] = q => m < n

Late(r) == <<r, "timeout">> \in logged

Taken(r) == outcome[r] # "none"

QueueInOrder ==
    /\ \A i, j \in DOMAIN accepted : accepted[i] = accepted[j] => i = j
    /\ Elements(queue) \subseteq Elements(accepted)
    /\ \A i, j \in DOMAIN queue : i < j => Ahead(accepted, queue[i], queue[j])
    /\ \A r \in Records : Taken(r) =>
          r \in Elements(accepted) /\ \A q \in Elements(queue) : Ahead(accepted, r, q)

HandIsLast ==
    /\ hand # None => Taken(hand)
    /\ \A r \in Records : hand # None /\ Taken(r) /\ r # hand => Ahead(accepted, r, hand)
    /\ \A r \in Records : outcome[r] = "running" => r = hand \/ Late(r)

StoreInOrder ==
    /\ \A i \in DOMAIN stored : outcome[stored[i]] = "ok"
    /\ \A i, j \in DOMAIN stored :
          i < j /\ ~Late(stored[i]) /\ ~Late(stored[j]) => Ahead(accepted, stored[i], stored[j])

OrderInv == QueueInOrder /\ HandIsLast /\ StoreInOrder

LEMMA EnqueueKeepsOrder ==
    ASSUME TypeOK, OrderInv, NEW r \in Records, enqueueAudit(r)
    PROVE  OrderInv'
<1> USE DEF OrderInv, TypeOK
<1>1. UNCHANGED <<hand, outcome, stored>> /\ \A q : Late(q)' <=> Late(q)
  BY DEF enqueueAudit, workerVars, Log, Late
<1>2. CASE Len(queue) < QueueSize
  <2>1. queue' = Append(queue, r) /\ accepted' = Append(accepted, r)
        /\ r \notin Elements(accepted)
    BY <1>2 DEF enqueueAudit
  <2> DEFINE n == Len(accepted)
             l == Len(queue)
  <2>2. /\ n \in Nat /\ DOMAIN accepted = 1..n /\ DOMAIN accepted' = 1..(n + 1)
        /\ accepted'[n + 1] = r /\ \A i \in 1..n : accepted'[i] = accepted[i]
    BY <2>1
  <2>3. /\ l \in Nat /\ DOMAIN queue = 1..l /\ DOMAIN queue' = 1..(l + 1)
        /\ queue'[l + 1] = r /\ \A i \in 1..l : queue'[i] = queue[i]
    BY <2>1
  <2>4. /\ Elements(accepted') = Elements(accepted) \cup {r}
        /\ Elements(queue') = Elements(queue) \cup {r}
    BY <2>1, AppendElements
  <2> HIDE DEF n, l
  <2>5. \A i \in 1..n : accepted[i] # r
    BY <2>1, <2>2 DEF Elements
  <2>6. ASSUME NEW p, NEW q, p # r, q # r, Ahead(accepted, p, q) PROVE Ahead(accepted', p, q)
    <3> SUFFICES ASSUME NEW i \in 1..(n + 1), NEW j \in 1..(n + 1),
                        accepted'[i] = p, accepted'[j] = q
                 PROVE  i < j
      BY <2>2 DEF Ahead
    <3>1. i \in 1..n /\ j \in 1..n
      BY <2>2, <2>6
    <3> QED BY <2>2, <2>6, <3>1 DEF Ahead
  <2>7. ASSUME NEW p, p # r PROVE Ahead(accepted', p, r)
    <3> SUFFICES ASSUME NEW i \in 1..(n + 1), NEW j \in 1..(n + 1),
                        accepted'[i] = p, accepted'[j] = r
                 PROVE  i < j
      BY <2>2 DEF Ahead
    <3>1. i \in 1..n
      BY <2>2, <2>7
    <3>2. j = n + 1
      BY <2>2, <2>5
    <3> QED BY <2>2, <3>1, <3>2
  <2>8. \A q \in Records : Taken(q) => q # r
    BY <2>1 DEF QueueInOrder
  <2>9. \A i \in 1..l : queue[i] # r
    BY <2>1, <2>3 DEF QueueInOrder, Elements
  <2>10. \A q : Taken(q)' <=> Taken(q)
    BY <1>1 DEF Taken
  <2>11. \A i, j \in DOMAIN accepted' : accepted'[i] = accepted'[j] => i = j
    <3> SUFFICES ASSUME NEW i \in 1..(n + 1), NEW j \in 1..(n + 1),
                        accepted'[i] = accepted'[j]
                 PROVE  i = j
      BY <2>2
    <3>1. CASE i \in 1..n /\ j \in 1..n
      BY <2>2, <3>1 DEF QueueInOrder
    <3>2. CASE i = n + 1 \/ j = n + 1
      BY <2>2, <2>5, <3>2
    <3> QED BY <2>2, <3>1, <3>2
  <2>12. \A i, j \in DOMAIN queue' : i < j => Ahead(accepted', queue'[i], queue'[j])
    <3> SUFFICES ASSUME NEW i \in 1..(l + 1), NEW j \in 1..(l + 1), i < j
                 PROVE  Ahead(accepted', queue'[i], queue'[j])
      BY <2>3
    <3>1. i \in 1..l /\ queue'[i] = queue[i] /\ queue[i] # r
      BY <2>3, <2>9
    <3>2. CASE j = l + 1
      BY <2>3, <2>7, <3>1, <3>2
    <3>3. CASE j \in 1..l
      <4>1. queue'[j] = queue[j] /\ queue[j] # r /\ Ahead(accepted, queue[i], queue[j])
        BY <2>3, <2>9, <3>1, <3>3 DEF QueueInOrder
      <4>2. Ahead(accepted', queue[i], queue[j])
        BY <2>6, <3>1, <4>1
      <4>3. queue'[j] = queue[j]
        BY <4>1
      <4> QED BY <3>1, <4>1, <4>2
    <3> QED BY <2>3, <3>2, <3>3
  <2>13. ASSUME NEW q \in Records, Taken(q)
         PROVE  q \in Elements(accepted)' /\ \A p \in Elements(queue)' : Ahead(accepted', q, p)
    <3>1. \A p \in Elements(queue) : Ahead(accepted, q, p) /\ p # r /\ q # r
      BY <2>1, <2>8, <2>13 DEF QueueInOrder
    <3> QED BY <2>4, <2>6, <2>7, <2>8, <2>13, <3>1 DEF QueueInOrder
  <2>14. QueueInOrder'
    BY <2>4, <2>10, <2>11, <2>12, <2>13 DEF QueueInOrder
  <2>15. HandIsLast'
    BY <1>1, <2>6, <2>8, <2>10 DEF HandIsLast
  <2>16. StoreInOrder'
    <3>1. \A i \in DOMAIN stored : stored[i] \in Records /\ stored[i] # r
      BY <2>8 DEF StoreInOrder, Taken
    <3> QED BY <1>1, <2>6, <3>1 DEF StoreInOrder
  <2> QED BY <2>14, <2>15, <2>16
<1>3. CASE ~(Len(queue) < QueueSize)
  <2>1. UNCHANGED <<queue, accepted>>
    BY <1>3 DEF enqueueAudit, inputVars
  <2>2. Elements(queue') = Elements(queue) /\ Elements(accepted') = Elements(accepted)
    BY <2>1
  <2>3. \A q : Taken(q)' <=> Taken(q)
    BY <1>1 DEF Taken
  <2>4. QueueInOrder'
    BY <2>1, <2>2, <2>3 DEF QueueInOrder
  <2>5. HandIsLast' /\ StoreInOrder'
    BY <1>1, <2>1, <2>3 DEF HandIsLast, StoreInOrder
  <2> QED BY <2>4, <2>5
<1> QED BY <1>2, <1>3

LEMMA TakeKeepsOrder ==
    ASSUME TypeOK, OrderInv, Take
    PROVE  OrderInv'
<1> USE DEF OrderInv, TypeOK
<1> PICK h : h = Head(queue)
  OBVIOUS
<1> DEFINE l == Len(queue)
<1>1. /\ hand = None /\ queue # <<>> /\ queue' = Tail(queue) /\ hand' = h
      /\ outcome' = [outcome EXCEPT ![h] = "running"]
      /\ UNCHANGED <<accepted, stored, logged>>
  BY DEF Take, inputVars
<1>2. /\ l \in Nat /\ DOMAIN queue = 1..l /\ DOMAIN queue' = 1..(l - 1) /\ 1 \in 1..l
      /\ h = queue[1] /\ \A i \in 1..(l - 1) : queue'[i] = queue[i + 1]
  BY <1>1
<1>3. h \in Records /\ Elements(queue) = Elements(queue') \cup {h}
  BY <1>1, TailElements
<1> HIDE DEF l
<1>4. \A i \in 1..(l - 1) : i + 1 \in 1..l /\ 1 < i + 1
  BY <1>2
<1>5. \A q \in Elements(queue') : Ahead(accepted, h, q)
  <2>1. ASSUME NEW i \in 1..(l - 1) PROVE Ahead(accepted, h, queue'[i])
    <3>1. 1 \in DOMAIN queue /\ i + 1 \in DOMAIN queue /\ 1 < i + 1
      BY <1>2, <1>4
    <3>2. Ahead(accepted, queue[1], queue[i + 1])
      BY <3>1 DEF QueueInOrder
    <3> QED BY <1>2, <3>2
  <2>2. ASSUME NEW q \in Elements(queue') PROVE Ahead(accepted, h, q)
    <3>1. PICK i \in 1..(l - 1) : q = queue'[i]
      BY <1>2, <2>2 DEF Elements
    <3> QED BY <2>1, <3>1
  <2> QED BY <2>2
<1>6. ~Taken(h)
  <2>1. Taken(h) => Ahead(accepted, h, h)
    BY <1>3 DEF QueueInOrder
  <2>2. PICK n \in DOMAIN accepted : accepted[n] = h
    BY <1>3 DEF QueueInOrder, Elements
  <2> QED BY <2>1, <2>2 DEF Ahead
<1>7. Taken(h)' /\ \A q \in Records : q # h => outcome'[q] = outcome[q]
  BY <1>1, <1>3 DEF Taken
<1>8. QueueInOrder'
  <2>1. \A i, j \in DOMAIN queue' : i < j => Ahead(accepted, queue'[i], queue'[j])
    <3> SUFFICES ASSUME NEW i \in 1..(l - 1), NEW j \in 1..(l - 1), i < j
                 PROVE  Ahead(accepted, queue'[i], queue'[j])
      BY <1>2
    <3>1. i + 1 \in DOMAIN queue /\ j + 1 \in DOMAIN queue /\ i + 1 < j + 1
      BY <1>2, <1>4
    <3> QED BY <1>2, <3>1 DEF QueueInOrder
  <2>2. ASSUME NEW r \in Records, Taken(r)'
        PROVE  r \in Elements(accepted) /\ \A q \in Elements(queue') : Ahead(accepted, r, q)
    <3>1. CASE r = h
      BY <1>3, <1>5, <3>1 DEF QueueInOrder
    <3>2. CASE r # h
      BY <1>3, <1>7, <2>2, <3>2 DEF QueueInOrder, Taken
    <3> QED BY <3>1, <3>2
  <2>3. Elements(queue') \subseteq Elements(accepted')
    BY <1>1, <1>3 DEF QueueInOrder
  <2>4. \A i, j \in DOMAIN accepted : accepted[i] = accepted[j] => i = j
    BY DEF QueueInOrder
  <2>5. \A r \in Records : Taken(r)' =>
           r \in Elements(accepted)' /\ \A q \in Elements(queue') : Ahead(accepted', r, q)
    BY <1>1, <2>2
  <2> QED BY <1>1, <2>1, <2>3, <2>4, <2>5 DEF QueueInOrder
<1>9. HandIsLast'
  <2>1. \A r \in Records : Taken(r)' /\ r # h => Ahead(accepted, r, h)
    BY <1>3, <1>7 DEF QueueInOrder, Taken
  <2>2. \A r \in Records : outcome'[r] = "running" => r = h \/ Late(r)
    BY <1>1, <1>7, QueueAssumption DEF HandIsLast
  <2>3. hand' = h /\ logged' = logged /\ accepted' = accepted
    BY <1>1
  <2> QED BY <1>7, <2>1, <2>2, <2>3 DEF HandIsLast, Late
<1>10. StoreInOrder'
  <2>1. \A i \in DOMAIN stored : stored[i] \in Records /\ stored[i] # h
    BY <1>6 DEF StoreInOrder, Taken
  <2>2. \A i \in DOMAIN stored : outcome'[stored[i]] = "ok"
    BY <1>7, <2>1 DEF StoreInOrder
  <2> QED BY <1>1, <2>2 DEF StoreInOrder, Late
<1> QED BY <1>8, <1>9, <1>10

LEMMA InsertKeepsOrder ==
    ASSUME TypeOK, OrderInv, NEW r \in Records, InsertReturns(r)
    PROVE  OrderInv'
<1> USE DEF OrderInv, TypeOK
<1>1. /\ outcome[r] = "running"
      /\ UNCHANGED <<queue, hand, accepted, logged>>
      /\ \/ outcome' = [outcome EXCEPT ![r] = "ok"] /\ stored' = Append(stored, r)
         \/ outcome' = [outcome EXCEPT ![r] = "error"] /\ stored' = stored
  BY DEF InsertReturns, workerVars, inputVars
<1>2. outcome'[r] \in {"ok", "error"} /\ \A q \in Records : q # r => outcome'[q] = outcome[q]
  BY <1>1
<1>3. \A q \in Records : Taken(q)' <=> Taken(q)
  BY <1>1, <1>2 DEF Taken
<1>4. QueueInOrder'
  BY <1>1, <1>3 DEF QueueInOrder
<1>5. HandIsLast'
  <2>1. hand \in Records \/ hand = None
    OBVIOUS
  <2>2. \A q \in Records : outcome'[q] = "running" => outcome[q] = "running"
    BY <1>2
  <2>3. hand # None => Taken(hand)'
    BY <1>1, <1>3, <2>1 DEF HandIsLast, Taken
  <2> QED BY <1>1, <1>3, <2>2, <2>3 DEF HandIsLast, Late
<1>6. \A i \in DOMAIN stored : stored[i] \in Records /\ stored[i] # r
  BY <1>1 DEF StoreInOrder
<1>7. StoreInOrder'
  <2>1. CASE stored' = stored
    <3>1. \A i \in DOMAIN stored : outcome'[stored[i]] = "ok"
      BY <1>2, <1>6 DEF StoreInOrder
    <3> QED BY <1>1, <2>1, <3>1 DEF StoreInOrder, Late
  <2>2. CASE outcome' = [outcome EXCEPT ![r] = "ok"] /\ stored' = Append(stored, r)
    <3> DEFINE n == Len(stored)
    <3>1. /\ n \in Nat /\ DOMAIN stored = 1..n /\ DOMAIN stored' = 1..(n + 1)
          /\ stored'[n + 1] = r /\ \A i \in 1..n : stored'[i] = stored[i]
      BY <2>2
    <3> HIDE DEF n
    <3>2. \A i \in 1..(n + 1) : i \in 1..n \/ i = n + 1
      BY <3>1
    <3>3. outcome'[r] = "ok"
      BY <2>2
    <3>4. \A i \in 1..(n + 1) : outcome'[stored'[i]] = "ok"
      BY <1>2, <1>6, <3>1, <3>2, <3>3 DEF StoreInOrder
    <3>5. ASSUME NEW i \in 1..(n + 1), NEW j \in 1..(n + 1), i < j,
                 ~Late(stored'[i]), ~Late(stored'[j])
          PROVE  Ahead(accepted, stored'[i], stored'[j])
      <4>1. i \in 1..n
        BY <3>1, <3>5
      <4>2. CASE j \in 1..n
        BY <3>1, <3>5, <4>1, <4>2 DEF StoreInOrder
      <4>3. CASE j = n + 1
        <5>1. r = hand /\ hand # None
          BY <1>1, <3>1, <3>5, <4>3, QueueAssumption DEF HandIsLast
        <5>2. stored'[i] = stored[i] /\ stored[i] \in Records /\ stored[i] # hand
          BY <1>6, <3>1, <4>1, <5>1
        <5>3. Taken(stored[i])
          BY <3>1, <4>1 DEF StoreInOrder, Taken
        <5> QED BY <3>1, <4>3, <5>1, <5>2, <5>3 DEF HandIsLast
      <4> QED BY <3>2, <4>2, <4>3
    <3> QED BY <1>1, <3>1, <3>4, <3>5 DEF StoreInOrder, Late
  <2> QED BY <1>1, <2>1, <2>2
<1> QED BY <1>4, <1>5, <1>7

LEMMA OrderStep ==
    ASSUME TypeOK, OrderInv, [Next]_vars
    PROVE  OrderInv'
<1> USE DEF OrderInv, TypeOK
<1>1. CASE InsertHeard \/ InsertTimedOut
  <2>1. /\ UNCHANGED <<queue, outcome, accepted, stored>>
        /\ hand # None /\ hand' = None /\ logged \subseteq logged'
        /\ outcome[hand] = "running" => <<hand, "timeout">> \in logged'
    BY <1>1 DEF InsertHeard, InsertTimedOut, Log, inputVars
  <2>2. \A q : Taken(q)' <=> Taken(q)
    BY <2>1 DEF Taken
  <2>3. QueueInOrder'
    BY <2>1, <2>2 DEF QueueInOrder
  <2>4. HandIsLast'
    BY <2>1 DEF HandIsLast, Late
  <2>5. StoreInOrder'
    BY <2>1 DEF StoreInOrder, Late
  <2> QED BY <2>3, <2>4, <2>5
<1>2. ASSUME UNCHANGED <<queue, hand, outcome, accepted, stored, logged>> PROVE OrderInv'
  <2>1. \A q : Taken(q)' <=> Taken(q)
    BY <1>2 DEF Taken
  <2> QED BY <1>2, <2>1 DEF QueueInOrder, HandIsLast, StoreInOrder, Late
<1>3. CASE BeginDrain \/ DeadlineFires \/ EndDrain
  BY <1>2, <1>3 DEF BeginDrain, DeadlineFires, EndDrain, mainVars, inputVars
<1>4. CASE MainStep
  BY <1>2, <1>4 DEF MainStep, Cancel, Flushed, FlushTimedOut, Exit, workerVars, inputVars
<1>5. CASE UNCHANGED vars
  BY <1>2, <1>5 DEF vars, workerVars, inputVars
<1> QED BY <1>1, <1>3, <1>4, <1>5, EnqueueKeepsOrder, TakeKeepsOrder, InsertKeepsOrder
        DEF Next, Alive, WorkerStep, Exited

LEMMA OrderInvAlways == Spec => [](TypeOK /\ OrderInv)
<1>1. Init => TypeOK /\ OrderInv
  <2>1. Init => TypeOK
    BY TypeInitially
  <2>2. Init => OrderInv
    BY DEF Init, OrderInv, QueueInOrder, HandIsLast, StoreInOrder, Taken, Elements
  <2> QED BY <2>1, <2>2
<1>2. TypeOK /\ OrderInv /\ [Next]_vars => (TypeOK /\ OrderInv)'
  BY TypeStep, OrderStep
<1> QED BY <1>1, <1>2, PTL DEF Spec

(* The records of calls reach the database in the order the calls ended,   *)
(* those given up by a timeout excepted, however long the database takes.  *)
THEOREM StoredInOrderAlways == Spec => []StoredInOrder
<1>1. TypeOK /\ OrderInv => StoredInOrder
  <2> SUFFICES ASSUME TypeOK, OrderInv PROVE StoredInOrder
    OBVIOUS
  <2> DEFINE place(r) == CHOOSE n \in DOMAIN accepted : accepted[n] = r
  <2>1. ASSUME NEW i \in DOMAIN stored
        PROVE  place(stored[i]) \in DOMAIN accepted /\ accepted[place(stored[i])] = stored[i]
    <3>1. stored[i] \in Records /\ Taken(stored[i])
      BY DEF TypeOK, OrderInv, StoreInOrder, Taken
    <3>2. stored[i] \in Elements(accepted)
      BY <3>1 DEF OrderInv, QueueInOrder
    <3> QED BY <3>2 DEF Elements
  <2>2. ASSUME NEW i \in DOMAIN stored, NEW j \in DOMAIN stored, i < j,
               ~Late(stored[i]), ~Late(stored[j])
        PROVE  place(stored[i]) < place(stored[j])
    <3>1. Ahead(accepted, stored[i], stored[j])
      BY <2>2 DEF OrderInv, StoreInOrder
    <3> HIDE DEF place
    <3> QED BY <2>1, <3>1 DEF Ahead
  <2> QED BY <2>2 DEF StoredInOrder, Late
<1> QED BY <1>1, OrderInvAlways, PTL
=============================================================================
