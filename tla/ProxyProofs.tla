----------------------------- MODULE ProxyProofs -----------------------------
(***************************************************************************)
(* Theorems about Proxy, for any sets of requests and replays, either      *)
(* client transport, either upstream transport and any number of           *)
(* reconnects.                                                             *)
(***************************************************************************)
EXTENDS Proxy, SequenceTheorems, TLAPS

-----------------------------------------------------------------------------
(* Lemmas about the operators on the table.                                *)

(* What Insert, Remove and Take leave in the table.                        *)
LEMMA InsertTable ==
    ASSUME NEW k \in Nat, NEW c \in Calls, Insert(k, c)
    PROVE  /\ DOMAIN pending' = DOMAIN pending \cup {k}
           /\ pending'[k] = c
           /\ \A j \in DOMAIN pending : j # k => pending'[j] = pending[j]
BY DEF Insert

LEMMA RemoveTable ==
    ASSUME NEW K, Remove(K)
    PROVE  /\ DOMAIN pending' = DOMAIN pending \ K
           /\ \A j \in DOMAIN pending' : pending'[j] = pending[j]
BY DEF Remove

(* A frame reaches a caller that is there, and touches nobody else.        *)
LEMMA RespondEffect ==
    ASSUME TypeOK, NEW c \in Calls, NEW f \in Frames, Respond(c, f)
    PROVE  /\ answers' \in [Calls -> Seq(Frames)]
           /\ client' \in [Calls -> {"connected", "gone", "finished", "left"}]
           /\ \A d \in Calls : d # c => answers'[d] = answers[d] /\ client'[d] = client[d]
           /\ \/ answers'[c] = Append(answers[c], f)
              \/ c \notin Replays /\ client[c] # "connected" /\ answers'[c] = answers[c]
           /\ client'[c] = "connected" => client[c] = "connected"
<1>1. Append(answers[c], f) \in Seq(Frames)
  BY DEF TypeOK
<1>2. CASE c \in Replays
  <2>1. answers' = [answers EXCEPT ![c] = Append(@, f)] /\ client' = client
    BY <1>2 DEF Respond
  <2> QED BY <1>1, <2>1 DEF TypeOK
<1>3. CASE c \notin Replays /\ client[c] = "connected"
  <2>1. PICK e \in {"connected", "finished"} :
            client' = [client EXCEPT ![c] = e]
    BY <1>3 DEF Respond
  <2>2. answers' = [answers EXCEPT ![c] = Append(@, f)]
    BY <1>3 DEF Respond
  <2> QED BY <1>1, <1>3, <2>1, <2>2 DEF TypeOK
<1>4. CASE c \notin Replays /\ client[c] # "connected"
  <2>1. answers' = answers /\ client' = client
    BY <1>4 DEF Respond
  <2> QED BY <1>4, <2>1 DEF TypeOK
<1> QED BY <1>2, <1>3, <1>4

LEMMA FrameType ==
    ASSUME NEW k \in Kinds, NEW c \in Calls
    PROVE  Frame(k, c) \in Frames
BY DEF Frame, Frames

(* Taking entries keeps the types and leaves the rest of the table alone.  *)
LEMMA TakeType ==
    ASSUME TypeOK, NEW t \in Takers, NEW k \in TableKinds,
           NEW K \in SUBSET DOMAIN pending, Take(t, K, k)
    PROVE  /\ owed' \subseteq [by : Takers, call : Calls, frame : Frames]
           /\ DOMAIN pending' \subseteq 1..seq
           /\ pending' \in [DOMAIN pending' -> Calls]
<1>1. \A j \in K : Frame(k, pending[j]) \in Frames
  BY DEF TypeOK, Frame, Frames, Kinds
<1>2. \A j \in K : [by |-> t, call |-> pending[j], frame |-> Frame(k, pending[j])]
                      \in [by : Takers, call : Calls, frame : Frames]
  BY <1>1 DEF TypeOK
<1>3. owed' \subseteq [by : Takers, call : Calls, frame : Frames]
  BY <1>2 DEF Take, TypeOK
<1>4. pending' = [j \in DOMAIN pending \ K |-> pending[j]]
  BY DEF Take, Remove
<1> QED BY <1>3, <1>4 DEF TypeOK

LEMMA RemoveType ==
    ASSUME TypeOK, NEW K, Remove(K)
    PROVE  /\ DOMAIN pending' \subseteq 1..seq
           /\ pending' \in [DOMAIN pending' -> Calls]
BY DEF Remove, TypeOK

LEMMA EnterType ==
    ASSUME TypeOK, NEW c \in Calls, Enter(c)
    PROVE  /\ seq' \in Nat
           /\ DOMAIN pending' \subseteq 1..seq'
           /\ pending' \in [DOMAIN pending' -> Calls]
           /\ upID' \in [Calls -> 0..seq']
           /\ pc' \in [Calls -> CallStates]
BY DEF Enter, Insert, TypeOK, CallStates

-----------------------------------------------------------------------------
(* Every variable stays in its type, whatever the goroutines do.           *)
THEOREM TypeCorrect == Spec => []TypeOK
<1>1. Init => TypeOK
  <2> SUFFICES ASSUME Init PROVE TypeOK
    OBVIOUS
  <2>1. DOMAIN pending = {} /\ pending \in [DOMAIN pending -> Calls]
    BY DEF Init
  <2>2. answers \in [Calls -> Seq(Frames)]
    BY DEF Init
  <2>3. /\ upID \in [Calls -> 0..seq] /\ writer \in [Calls -> 0..conn]
        /\ seq \in Nat /\ conn \in 0..MaxConn /\ upstreamWriter \in 0..conn
    BY MaxConnAssumption DEF Init
  <2>4. pc \in [Calls -> CallStates] /\ sup \in SupStates
    BY DEF Init, CallStates, SupStates
  <2>5. client \in [Calls -> {"connected", "gone", "finished", "left"}]
    BY DEF Init
  <2> QED BY <2>1, <2>2, <2>3, <2>4, <2>5 DEF Init, TypeOK
<1>2. TypeOK /\ [Next]_vars => TypeOK'
  <2> SUFFICES ASSUME TypeOK, [Next]_vars PROVE TypeOK'
    OBVIOUS
  <2> USE DEF vars, tableVars, callVars, upstreamVars
  <2>1. ASSUME NEW c \in Calls, RateLimit(c) PROVE TypeOK'
    <3>1. Frame("limited", c) \in Frames
      BY FrameType DEF Kinds, TableKinds
    <3> QED BY <2>1, <3>1, RespondEffect DEF RateLimit, TypeOK, CallStates
  <2>2. ASSUME NEW c \in Calls, processClientMessage(c) PROVE TypeOK'
    BY <2>2, EnterType DEF processClientMessage, TypeOK
  <2>3. ASSUME NEW c \in Calls, GetWriter(c) PROVE TypeOK'
    BY <2>3 DEF GetWriter, Goto, TypeOK, CallStates
  <2>4. ASSUME NEW c \in Calls, LoadEverUp(c) PROVE TypeOK'
    BY <2>4 DEF LoadEverUp, Goto, TypeOK, CallStates
  <2>5. ASSUME NEW c \in Calls, WaitReady(c) \/ WaitTimeout(c) PROVE TypeOK'
    BY <2>5 DEF WaitReady, WaitTimeout, Goto, TypeOK, CallStates
  <2>6. ASSUME NEW c \in Calls, WriteOK(c) \/ WriteError(c) PROVE TypeOK'
    BY <2>6 DEF WriteOK, WriteError, Goto, TypeOK, CallStates
  <2>7. ASSUME NEW c \in Calls, ReportWriteError(c) PROVE TypeOK'
    <3>1. Frame("writefailed", c) \in Frames
      BY FrameType DEF Kinds
    <3>2. /\ answers' \in [Calls -> Seq(Frames)]
          /\ client' \in [Calls -> {"connected", "gone", "finished", "left"}]
      BY <2>7, <3>1, RespondEffect DEF ReportWriteError, TypeOK
    <3> QED BY <2>7, <3>2 DEF ReportWriteError, Goto, TypeOK, CallStates
  <2>8. ASSUME NEW c \in Calls, dropPending(c) PROVE TypeOK'
    BY <2>8, RemoveType DEF dropPending, Goto, TypeOK, CallStates
  <2>9. ASSUME NEW c \in Calls, ReplayCheck(c) \/ ReplayReturn(c) PROVE TypeOK'
    BY <2>9 DEF ReplayCheck, ReplayReturn, Goto, TypeOK, CallStates
  <2>10. ASSUME NEW c \in Calls, ReplayEnter(c) PROVE TypeOK'
    BY <2>10, EnterType DEF ReplayEnter, TypeOK
  <2>11. ASSUME NEW c \in Calls, Disconnect(c) PROVE TypeOK'
    BY <2>11 DEF Disconnect, TypeOK
  <2>12. ASSUME NEW c \in Calls, Cleanup(c) PROVE TypeOK'
    BY <2>12, RemoveType DEF Cleanup, TypeOK
  <2>13. ASSUME NEW c \in Calls, processUpstreamMessage(c) PROVE TypeOK'
    <3>1. [by |-> "reader", call |-> pending[upID[c]], frame |-> Frame("result", c)]
              \in [by : Takers, call : Calls, frame : Frames]
      BY <2>13, FrameType DEF processUpstreamMessage, TypeOK, Takers, Kinds, TableKinds
    <3> QED BY <2>13, <3>1, RemoveType DEF processUpstreamMessage, TypeOK
  <2>14. ASSUME NEW o \in owed, RespondTaken(o) PROVE TypeOK'
    BY <2>14, RespondEffect DEF RespondTaken, TypeOK
  <2>15. ASSUME NEW K \in SUBSET DOMAIN pending, reapPending(K) PROVE TypeOK'
    BY <2>15, TakeType DEF reapPending, TypeOK, Takers, TableKinds
  <2>16. ASSUME SupervisorFails PROVE TypeOK'
    BY <2>16, TakeType
       DEF SupervisorFails, failPendingUpstreamDown, TypeOK, Takers, TableKinds, SupStates
  <2>17. ASSUME MainFails PROVE TypeOK'
    BY <2>17, TakeType DEF MainFails, failPendingUpstreamDown, TypeOK, Takers, TableKinds
  <2>18. ASSUME Connect PROVE TypeOK'
    BY <2>18, MaxConnAssumption DEF Connect, TypeOK, SupStates
  <2>19. ASSUME LoopTop \/ StartFails \/ StoreEverUp \/ CloseReady \/ RunReturns
                \/ ClearWriter \/ SupervisorDone \/ Backoff
         PROVE  TypeOK'
    <3>1. sup' \in SupStates
      BY <2>19 DEF LoopTop, StartFails, StoreEverUp, CloseReady, RunReturns,
                   ClearWriter, SupervisorDone, Backoff, SupStates
    <3>2. /\ UNCHANGED <<tableVars, callVars, owed, answers, client, conn, sweeping, main>>
          /\ upstreamWriter' = 0 \/ upstreamWriter' = upstreamWriter
      BY <2>19 DEF LoopTop, StartFails, StoreEverUp, CloseReady, RunReturns,
                   ClearWriter, SupervisorDone, Backoff
    <3>3. upstreamEverUp' \in BOOLEAN /\ upstreamReady' \in BOOLEAN
      BY <2>19 DEF LoopTop, StartFails, StoreEverUp, CloseReady, RunReturns,
                   ClearWriter, SupervisorDone, Backoff, TypeOK
    <3> QED BY <3>1, <3>2, <3>3 DEF TypeOK
  <2>20. ASSUME SweeperStops \/ Cancel \/ CloseClient \/ Exit PROVE TypeOK'
    BY <2>20 DEF SweeperStops, Cancel, CloseClient, Exit, TypeOK
  <2>21. CASE UNCHANGED vars
    BY <2>21 DEF TypeOK
  <2>22. ASSUME NEW c \in Calls, CallStep(c) PROVE TypeOK'
    BY <2>1, <2>2, <2>3, <2>4, <2>5, <2>6, <2>7, <2>8, <2>9, <2>10, <2>11, <2>12,
       <2>13, <2>22 DEF CallStep
  <2>23. CASE SupervisorStep
    BY <2>16, <2>18, <2>19, <2>23 DEF SupervisorStep
  <2>24. CASE MainStep
    BY <2>17, <2>20, <2>24 DEF MainStep
  <2> QED
    BY <2>14, <2>15, <2>20, <2>21, <2>22, <2>23, <2>24 DEF Next, Exited
<1> QED BY <1>1, <1>2, PTL DEF Spec
-----------------------------------------------------------------------------
(* The table invariant, by what a step does to the table.                  *)

(* A step that at most removes entries, and enters no call.                *)
LEMMA QuietStep ==
    ASSUME TypeOK, TableInv,
           UNCHANGED <<upID, owed, answers>>,
           \A k \in DOMAIN pending' : k \in DOMAIN pending /\ pending'[k] = pending[k],
           \A c \in Calls : NotEntered(c)' => NotEntered(c) /\ writer'[c] = writer[c]
    PROVE  TableInv'
<1>1. EntryIds' /\ FreshIds'
  BY DEF TableInv, EntryIds, FreshIds
<1>2. NothingBefore'
  BY DEF TableInv, NothingBefore
<1>3. OwedFrames' /\ RoutedToOwner'
  BY DEF TableInv, OwedFrames, RoutedToOwner, FromTable
<1>4. \A c \in Calls : InTable(c)' => InTable(c)
  BY DEF InTable
<1>5. TakenOnce'
  BY <1>4 DEF TableInv, TakenOnce, FromTable, TypeOK
<1> QED BY <1>1, <1>2, <1>3, <1>5 DEF TableInv

(* A call enters the table under an id nobody had.                         *)
LEMMA EnterStep ==
    ASSUME TypeOK, TableInv, NEW c \in Calls, NotEntered(c), Enter(c),
           UNCHANGED <<writer, owed, answers>>
    PROVE  TableInv'
<1>1. /\ seq + 1 \notin DOMAIN pending
      /\ DOMAIN pending' = DOMAIN pending \cup {seq + 1}
      /\ pending'[seq + 1] = c
      /\ \A k \in DOMAIN pending : pending'[k] = pending[k]
  <2>1. seq + 1 \in Nat /\ seq + 1 \notin DOMAIN pending
    BY DEF TypeOK
  <2>2. Insert(seq + 1, c)
    BY DEF Enter
  <2> QED BY <2>1, <2>2, InsertTable
<1>2. upID'[c] = seq + 1 /\ \A d \in Calls : d # c => upID'[d] = upID[d]
  BY DEF Enter, TypeOK
<1>3. ~InTable(c)
  BY DEF InTable, TableInv, EntryIds, NothingBefore, TypeOK
<1>4. EntryIds'
  BY <1>1, <1>2, <1>3 DEF TableInv, EntryIds, InTable, TypeOK
<1>5. FreshIds'
  BY <1>2 DEF TableInv, FreshIds, TypeOK
<1>6. \A d \in Calls : NotEntered(d)' => NotEntered(d) /\ d # c
  BY DEF Enter, NotEntered, TypeOK
<1>7. NothingBefore'
  BY <1>2, <1>6 DEF TableInv, NothingBefore
<1>8. OwedFrames' /\ RoutedToOwner'
  BY DEF TableInv, OwedFrames, RoutedToOwner, FromTable
<1>9. \A d \in Calls : InTable(d)' => InTable(d) \/ d = c
  BY <1>1 DEF InTable
<1>10. answers[c] = <<>> /\ \A o \in owed : o.call # c
  BY DEF TableInv, NothingBefore
<1>11. \A k, l \in DOMAIN pending' : pending'[k] = pending'[l] => k = l
  BY <1>4 DEF EntryIds
<1>12. \A o \in owed' : ~InTable(o.call)'
  BY <1>9, <1>10 DEF TableInv, TakenOnce, TypeOK
<1>13. \A d \in Calls : \A i \in DOMAIN answers[d] : FromTable(answers[d][i]) => ~InTable(d)'
  BY <1>9, <1>10 DEF TableInv, TakenOnce
<1>14. TakenOnce'
  BY <1>11, <1>12, <1>13 DEF TableInv, TakenOnce, FromTable
<1> QED BY <1>4, <1>5, <1>7, <1>8, <1>14 DEF TableInv

(* A taker takes entries: their calls pass from the table into its hands.  *)
LEMMA TakeStep ==
    ASSUME TypeOK, TableInv, NEW t \in Takers, NEW kind \in TableKinds,
           NEW K \in SUBSET DOMAIN pending, Take(t, K, kind),
           UNCHANGED <<upID, pc, writer, answers>>
    PROVE  TableInv'
<1> DEFINE Due(k) == [by |-> t, call |-> pending[k], frame |-> Frame(kind, pending[k])]
<1>1. /\ DOMAIN pending' = DOMAIN pending \ K
      /\ \A k \in DOMAIN pending' : pending'[k] = pending[k]
  BY RemoveTable DEF Take
<1>2. owed' = owed \cup {Due(k) : k \in K}
  BY DEF Take
<1>3. \A k \in K : /\ Due(k).call = pending[k] /\ Due(k).call \in Calls
                   /\ Due(k).frame.kind = kind /\ Due(k).frame.of = pending[k]
  BY DEF Frame, TypeOK
<1>4. \A k, l \in DOMAIN pending : pending[k] = pending[l] => k = l
  BY DEF TableInv, EntryIds
<1> HIDE DEF Due
<1>5. EntryIds' /\ FreshIds'
  BY <1>1 DEF TableInv, EntryIds, FreshIds
<1>6. \A k \in DOMAIN pending : ~NotEntered(pending[k])
  BY DEF TableInv, EntryIds, NothingBefore, TypeOK
<1>7. NothingBefore'
  BY <1>2, <1>3, <1>6 DEF TableInv, NothingBefore, NotEntered
<1>8. OwedFrames' /\ RoutedToOwner'
  BY <1>2, <1>3 DEF TableInv, OwedFrames, RoutedToOwner, FromTable
<1>9. \A k \in K : \A l \in DOMAIN pending' : pending'[l] # pending[k]
  BY <1>1, <1>4
<1>10. \A o \in owed : \A k \in K : o.call # pending[k]
  BY DEF TableInv, TakenOnce, InTable
<1>11. \A o, p \in owed' : o.call = p.call => o = p
  BY <1>2, <1>3, <1>4, <1>10 DEF TableInv, TakenOnce
<1>12. \A o \in owed' : ~InTable(o.call)'
  BY <1>1, <1>2, <1>3, <1>9 DEF TableInv, TakenOnce, InTable
<1>13. \A c \in Calls : \A i \in DOMAIN answers[c] : FromTable(answers[c][i]) =>
           ~InTable(c)' /\ \A o \in owed' : o.call # c
  BY <1>1, <1>2, <1>3 DEF TableInv, TakenOnce, InTable
<1>14. TakenOnce'
  BY <1>1, <1>4, <1>11, <1>12, <1>13 DEF TableInv, TakenOnce, FromTable
<1> QED BY <1>5, <1>7, <1>8, <1>14 DEF TableInv

(* A frame is delivered, or lost because its client left: by the taker     *)
(* that owes it (o), and then it is owed no more; by the rate limiter, to  *)
(* a call that never entered; or by a failing goroutine, which is no       *)
(* taker.                                                                  *)
LEMMA RespondStep ==
    ASSUME TypeOK, TableInv, NEW c \in Calls, NEW f \in Frames, Respond(c, f),
           f.of = c, UNCHANGED <<seq, pending, upID, writer>>,
           owed' \subseteq owed,
           c \in Replays => FromTable(f),
           FromTable(f) =>
               /\ ~InTable(c)
               /\ \A o \in owed' : o.call # c
               /\ \A i \in DOMAIN answers[c] : ~FromTable(answers[c][i]),
           \A d \in Calls : NotEntered(d)' => NotEntered(d) /\ d # c
    PROVE  TableInv'
<1>1. /\ \A d \in Calls : d # c => answers'[d] = answers[d]
      /\ \/ answers'[c] = Append(answers[c], f)
         \/ answers'[c] = answers[c]
  BY RespondEffect
<1>2. answers[c] \in Seq(Frames)
  BY DEF TypeOK
<1>3. \A i \in DOMAIN answers'[c] :
          \/ i \in DOMAIN answers[c] /\ answers'[c][i] = answers[c][i]
          \/ i = Len(answers[c]) + 1 /\ answers'[c][i] = f
  BY <1>1, <1>2
<1>4. EntryIds' /\ FreshIds'
  BY DEF TableInv, EntryIds, FreshIds
<1>5. NothingBefore'
  BY <1>1 DEF TableInv, NothingBefore
<1>6. OwedFrames'
  BY <1>1, <1>3, CallsAssumption DEF TableInv, OwedFrames, FromTable, Calls
<1>7. RoutedToOwner'
  BY <1>1, <1>3 DEF TableInv, RoutedToOwner
<1>8. \A d \in Calls : InTable(d)' <=> InTable(d)
  BY DEF InTable
<1>9. /\ \A k, l \in DOMAIN pending' : pending'[k] = pending'[l] => k = l
      /\ \A o, p \in owed' : o.call = p.call => o = p
      /\ \A o \in owed' : ~InTable(o.call)'
  BY <1>8 DEF TableInv, TakenOnce, TypeOK
<1>10. ASSUME NEW d \in Calls, NEW i \in DOMAIN answers'[d],
              FromTable(answers'[d][i]), d # c
       PROVE  /\ ~InTable(d)'
              /\ \A o \in owed' : o.call # d
              /\ \A j \in DOMAIN answers'[d] : FromTable(answers'[d][j]) => i = j
  BY <1>1, <1>8, <1>10 DEF TableInv, TakenOnce
<1>11. ASSUME NEW i \in DOMAIN answers'[c], FromTable(answers'[c][i])
       PROVE  /\ ~InTable(c)'
              /\ \A o \in owed' : o.call # c
              /\ \A j \in DOMAIN answers'[c] : FromTable(answers'[c][j]) => i = j
  <2>1. CASE FromTable(f)
    BY <1>3, <1>8, <1>11, <2>1
  <2>2. CASE ~FromTable(f)
    BY <1>3, <1>8, <1>11, <2>2 DEF TableInv, TakenOnce
  <2> QED BY <2>1, <2>2
<1>12. TakenOnce'
  BY <1>9, <1>10, <1>11 DEF TakenOnce, FromTable
<1> QED BY <1>4, <1>5, <1>6, <1>7, <1>12 DEF TableInv

(* The table invariant is inductive, one step per action.                  *)
LEMMA TableInvStep ==
    ASSUME TypeOK, TableInv, [Next]_vars
    PROVE  TableInv'
<1> USE DEF tableVars, callVars, upstreamVars
<1>1. ASSUME NEW c \in Calls, RateLimit(c) PROVE TableInv'
  <2>1. Frame("limited", c) \in Frames
    BY FrameType DEF Kinds, TableKinds
  <2>2. ~InTable(c)
    BY <1>1 DEF RateLimit, InTable, TableInv, EntryIds, NothingBefore, NotEntered, TypeOK
  <2>3. answers[c] = <<>> /\ \A o \in owed : o.call # c
    BY <1>1 DEF RateLimit, TableInv, NothingBefore, NotEntered
  <2>4. \A d \in Calls : NotEntered(d)' => NotEntered(d) /\ d # c
    BY <1>1 DEF RateLimit, NotEntered, TypeOK
  <2>5. c \notin Replays
    BY <1>1, CallsAssumption DEF RateLimit
  <2>6. Respond(c, Frame("limited", c)) /\ owed' = owed
        /\ UNCHANGED <<seq, pending, upID, writer>>
    BY <1>1 DEF RateLimit
  <2>7. Frame("limited", c).of = c
    BY DEF Frame
  <2> QED BY <2>1, <2>2, <2>3, <2>4, <2>5, <2>6, <2>7, RespondStep
<1>2. ASSUME NEW c \in Calls, processClientMessage(c) \/ ReplayEnter(c) PROVE TableInv'
  BY <1>2, EnterStep DEF processClientMessage, ReplayEnter, NotEntered
<1>3. ASSUME NEW c \in Calls,
             GetWriter(c) \/ LoadEverUp(c) \/ WaitReady(c) \/ WaitTimeout(c)
             \/ WriteOK(c) \/ WriteError(c) \/ ReplayCheck(c) \/ ReplayReturn(c)
      PROVE  TableInv'
  <2>1. UNCHANGED <<upID, owed, answers, pending>>
    BY <1>3 DEF GetWriter, LoadEverUp, WaitReady, WaitTimeout, WriteOK, WriteError,
                ReplayCheck, ReplayReturn
  <2>2. \A d \in Calls : NotEntered(d)' => NotEntered(d) /\ writer'[d] = writer[d]
    BY <1>3 DEF GetWriter, LoadEverUp, WaitReady, WaitTimeout, WriteOK, WriteError,
                ReplayCheck, ReplayReturn, Goto, NotEntered, TypeOK
  <2> QED BY <2>1, <2>2, QuietStep
<1>4. ASSUME NEW c \in Calls, dropPending(c) \/ Cleanup(c) PROVE TableInv'
  <2>1. UNCHANGED <<upID, owed, answers, writer>> /\ Remove({upID[c]})
    BY <1>4 DEF dropPending, Cleanup
  <2>2. \A d \in Calls : NotEntered(d)' => NotEntered(d)
    BY <1>4 DEF dropPending, Cleanup, Goto, NotEntered, TypeOK
  <2> QED BY <2>1, <2>2, RemoveTable, QuietStep
<1>5. ASSUME NEW c \in Calls, ReportWriteError(c) PROVE TableInv'
  <2>1. \A d \in Calls : NotEntered(d)' => NotEntered(d) /\ d # c
    BY <1>5 DEF ReportWriteError, Goto, NotEntered, TypeOK
  <2>2. CASE c \in Requests
    <3>1. Frame("writefailed", c) \in Frames
      BY FrameType DEF Kinds
    <3>2. c \notin Replays
      BY <2>2, CallsAssumption
    <3>3. ~FromTable(Frame("writefailed", c)) /\ Frame("writefailed", c).of = c
      BY DEF FromTable, Frame, TableKinds
    <3>4. Respond(c, Frame("writefailed", c)) /\ owed' = owed
          /\ UNCHANGED <<seq, pending, upID, writer>>
      BY <1>5, <2>2 DEF ReportWriteError
    <3> QED BY <2>1, <3>1, <3>2, <3>3, <3>4, RespondStep
  <2>3. CASE c \notin Requests
    BY <1>5, <2>1, <2>3, QuietStep DEF ReportWriteError
  <2> QED BY <2>2, <2>3
<1>6. ASSUME NEW c \in Calls, processUpstreamMessage(c) PROVE TableInv'
  <2>1. upID[c] \in DOMAIN pending
    BY <1>6 DEF processUpstreamMessage
  <2>2. pending[upID[c]] = c
    BY <2>1 DEF TableInv, EntryIds, FreshIds, TypeOK
  <2>3. Take("reader", {upID[c]}, "result")
    BY <1>6, <2>2 DEF processUpstreamMessage, Take
  <2> QED BY <1>6, <2>1, <2>3, TakeStep DEF processUpstreamMessage, Takers, TableKinds
<1>7. ASSUME NEW o \in owed, RespondTaken(o) PROVE TableInv'
  <2>1. /\ o.call \in Calls /\ o.frame \in Frames
        /\ o.frame.of = o.call /\ FromTable(o.frame)
    BY DEF TypeOK, TableInv, RoutedToOwner, OwedFrames
  <2>2. /\ ~InTable(o.call)
        /\ \A i \in DOMAIN answers[o.call] : ~FromTable(answers[o.call][i])
    BY <2>1 DEF TableInv, TakenOnce
  <2>3. /\ owed' \subseteq owed
        /\ \A p \in owed' : p.call # o.call
    BY <1>7 DEF RespondTaken, TableInv, TakenOnce
  <2>4. \A d \in Calls : NotEntered(d)' => NotEntered(d) /\ d # o.call
    BY <1>7 DEF RespondTaken, NotEntered, TableInv, NothingBefore
  <2>5. Respond(o.call, o.frame) /\ UNCHANGED <<seq, pending, upID, writer>>
    BY <1>7 DEF RespondTaken
  <2> QED BY <2>1, <2>2, <2>3, <2>4, <2>5, RespondStep
<1>8. ASSUME NEW K \in SUBSET DOMAIN pending, reapPending(K) PROVE TableInv'
  BY <1>8, TakeStep DEF reapPending, Takers, TableKinds
<1>9. ASSUME SupervisorFails \/ MainFails PROVE TableInv'
  <2>1. PICK t \in Takers : Take(t, DOMAIN pending, "disconnected")
    BY <1>9 DEF SupervisorFails, MainFails, failPendingUpstreamDown, Takers
  <2>2. UNCHANGED <<upID, pc, writer, answers>>
    BY <1>9 DEF SupervisorFails, MainFails
  <2> QED BY <2>1, <2>2, TakeStep DEF TableKinds
<1>10. ASSUME UNCHANGED <<pending, upID, pc, writer, owed, answers>> PROVE TableInv'
  BY <1>10, QuietStep DEF NotEntered
<1>11. ASSUME NEW c \in Calls, Disconnect(c) PROVE TableInv'
  BY <1>10, <1>11 DEF Disconnect
<1>12. CASE LoopTop \/ Connect \/ StartFails \/ StoreEverUp \/ CloseReady
            \/ RunReturns \/ ClearWriter \/ SupervisorDone \/ Backoff
  BY <1>10, <1>12 DEF LoopTop, Connect, StartFails, StoreEverUp, CloseReady,
                      RunReturns, ClearWriter, SupervisorDone, Backoff
<1>13. CASE SweeperStops \/ Cancel \/ CloseClient \/ Exit \/ UNCHANGED vars
  BY <1>10, <1>13 DEF SweeperStops, Cancel, CloseClient, Exit, vars
<1>14. ASSUME NEW c \in Calls, CallStep(c) PROVE TableInv'
  BY <1>1, <1>2, <1>3, <1>4, <1>5, <1>6, <1>11, <1>14 DEF CallStep
<1>15. CASE SupervisorStep
  BY <1>9, <1>12, <1>15 DEF SupervisorStep
<1>16. CASE MainStep
  BY <1>9, <1>13, <1>16 DEF MainStep
<1> QED
  BY <1>7, <1>8, <1>13, <1>14, <1>15, <1>16 DEF Next, Exited

(* The in-flight table is sound throughout: what the theorems below say of *)
(* replies, replays and lost connections rests on this invariant.          *)
THEOREM TableCorrect == Spec => []TableInv
<1>1. Init => TableInv
  BY DEF Init, TableInv, EntryIds, FreshIds, NothingBefore, OwedFrames, TakenOnce,
         RoutedToOwner, InTable, Calls
<1>2. TypeOK /\ TableInv /\ [Next]_vars => TableInv'
  BY TableInvStep
<1> QED BY <1>1, <1>2, TypeCorrect, PTL DEF Spec

(* Whoever takes the entry of a call is the only one to settle it.         *)
THEOREM TakenOnceAlways == Spec => []TakenOnce
<1>1. TableInv => TakenOnce
  BY DEF TableInv
<1> QED BY <1>1, TableCorrect, PTL

(* A result reaches the caller whose frame the upstream executed.          *)
THEOREM RoutedToOwnerAlways == Spec => []RoutedToOwner
<1>1. TableInv => RoutedToOwner
  BY DEF TableInv
<1> QED BY <1>1, TableCorrect, PTL

(* Nothing ever blocks on the channel of a replay.                         *)
THEOREM ReplayChannelFreeAlways == Spec => []ReplayChannelFree
<1>1. TypeOK /\ TableInv => ReplayChannelFree
  <2> SUFFICES ASSUME TypeOK, TableInv, NEW o \in owed, o.call \in Replays
               PROVE  answers[o.call] = <<>>
    BY DEF ReplayChannelFree
  <2>1. answers[o.call] \in Seq(Frames)
    BY DEF TypeOK
  <2>2. 1 \notin DOMAIN answers[o.call]
    BY DEF TableInv, OwedFrames, TakenOnce, Calls
  <2>3. /\ Len(answers[o.call]) \in Nat
        /\ DOMAIN answers[o.call] = 1..Len(answers[o.call])
    BY <2>1, LenProperties
  <2>4. Len(answers[o.call]) = 0
    BY <2>2, <2>3
  <2> QED BY <2>1, <2>4, EmptySeq
<1> QED BY <1>1, TypeCorrect, TableCorrect, PTL

-----------------------------------------------------------------------------
(* No call outlives its connection in the table.  The heart of it is the   *)
(* order of two steps of the supervisor, setUpstreamWriter(nil) and then   *)
(* failPendingUpstreamDown, against the order of two steps of a request,   *)
(* entering the table and then loading the writer.                         *)
LEMMA ConnInvStep ==
    ASSUME TypeOK, TableInv, ConnInv, [Next]_vars
    PROVE  ConnInv'
<1> USE DEF tableVars, callVars, upstreamVars, ConnInv, Open
<1>1. ASSUME UNCHANGED <<writer, upstreamVars>>,
             \A k \in DOMAIN pending' : k \in DOMAIN pending /\ pending'[k] = pending[k]
      PROVE  ConnInv'
  BY <1>1 DEF NoOrphan, WriterIsNewest
<1>2. ASSUME NEW c \in Calls, RateLimit(c) \/ LoadEverUp(c) \/ WaitReady(c) \/ WaitTimeout(c)
             \/ WriteOK(c) \/ WriteError(c) \/ ReportWriteError(c) \/ ReplayCheck(c)
             \/ ReplayReturn(c) \/ Disconnect(c)
      PROVE  ConnInv'
  BY <1>1, <1>2 DEF RateLimit, LoadEverUp, WaitReady, WaitTimeout, WriteOK, WriteError,
                    ReportWriteError, ReplayCheck, ReplayReturn, Disconnect
<1>3. ASSUME NEW c \in Calls, dropPending(c) \/ Cleanup(c) \/ processUpstreamMessage(c)
      PROVE  ConnInv'
  BY <1>1, <1>3, RemoveTable DEF dropPending, Cleanup, processUpstreamMessage
<1>4. ASSUME NEW c \in Calls, processClientMessage(c) \/ ReplayEnter(c) PROVE ConnInv'
  <2>1. writer[c] = 0
    BY <1>4 DEF processClientMessage, ReplayEnter, TableInv, NothingBefore, NotEntered
  <2>2. \A k \in DOMAIN pending' :
            pending'[k] = c \/ (k \in DOMAIN pending /\ pending'[k] = pending[k])
    BY <1>4 DEF processClientMessage, ReplayEnter, Enter, Insert
  <2>3. UNCHANGED <<writer, upstreamVars>>
    BY <1>4 DEF processClientMessage, ReplayEnter
  <2> QED BY <2>1, <2>2, <2>3 DEF NoOrphan, WriterIsNewest
<1>5. ASSUME NEW c \in Calls, GetWriter(c) PROVE ConnInv'
  <2>1. UNCHANGED <<tableVars, upstreamVars>>
    BY <1>5 DEF GetWriter
  <2>2. \A d \in Calls : writer'[d] # writer[d] =>
            writer'[d] = upstreamWriter /\ upstreamWriter # 0
    BY <1>5 DEF GetWriter, TypeOK
  <2> QED BY <2>1, <2>2 DEF NoOrphan, WriterIsNewest, TypeOK
<1>6. ASSUME NEW o \in owed, RespondTaken(o) PROVE ConnInv'
  BY <1>1, <1>6 DEF RespondTaken
<1>7. ASSUME NEW K \in SUBSET DOMAIN pending, reapPending(K) PROVE ConnInv'
  BY <1>1, <1>7, RemoveTable DEF reapPending, Take
<1>8. CASE SupervisorFails
  <2>1. DOMAIN pending' = {}
    BY <1>8 DEF SupervisorFails, failPendingUpstreamDown, Take, Remove
  <2>2. upstreamWriter' = 0
    BY <1>8 DEF SupervisorFails, WriterIsNewest
  <2> QED BY <2>1, <2>2 DEF NoOrphan, WriterIsNewest
<1>9. CASE MainFails
  BY <1>1, <1>9, RemoveTable DEF MainFails, failPendingUpstreamDown, Take
<1>10. CASE Connect
  BY <1>10 DEF Connect, NoOrphan, WriterIsNewest
<1>11. CASE ClearWriter
  BY <1>11 DEF ClearWriter, NoOrphan, WriterIsNewest
<1>12. CASE LoopTop \/ StartFails \/ StoreEverUp \/ CloseReady \/ RunReturns
            \/ SupervisorDone \/ Backoff
  BY <1>12 DEF LoopTop, StartFails, StoreEverUp, CloseReady, RunReturns,
               SupervisorDone, Backoff, NoOrphan, WriterIsNewest
<1>13. CASE SweeperStops \/ Cancel \/ CloseClient \/ Exit \/ UNCHANGED vars
  BY <1>1, <1>13 DEF SweeperStops, Cancel, CloseClient, Exit, vars
<1>14. ASSUME NEW c \in Calls, CallStep(c) PROVE ConnInv'
  BY <1>2, <1>3, <1>4, <1>5, <1>14 DEF CallStep
<1>15. CASE SupervisorStep
  BY <1>8, <1>10, <1>11, <1>12, <1>15 DEF SupervisorStep
<1>16. CASE MainStep
  BY <1>9, <1>13, <1>16 DEF MainStep
<1> QED
  BY <1>6, <1>7, <1>13, <1>14, <1>15, <1>16 DEF Next, Exited

(* No call that a lost connection may have carried is left in the table    *)
(* once the supervisor has failed the pending calls (upstream.go:129-134). *)
THEOREM NoOrphanAlways == Spec => []NoOrphan
<1>1. Init => ConnInv
  BY DEF Init, ConnInv, NoOrphan, WriterIsNewest
<1>2. TypeOK /\ TableInv /\ ConnInv /\ [Next]_vars => ConnInv'
  BY ConnInvStep
<1>3. ConnInv => NoOrphan
  BY DEF ConnInv
<1> QED BY <1>1, <1>2, <1>3, TypeCorrect, TableCorrect, PTL DEF Spec

-----------------------------------------------------------------------------
(* Nobody who is still there is forgotten.                                 *)

(* A frame sent to a connected client is one it has.                       *)
LEMMA RespondTells ==
    ASSUME TypeOK, NEW c \in Requests, NEW f \in Frames, Respond(c, f)
    PROVE  /\ client'[c] = "connected" => answers'[c] # <<>>
           /\ answers[c] # <<>> => answers'[c] # <<>>
<1>1. answers[c] \in Seq(Frames) /\ c \in Calls
  BY DEF TypeOK, Calls
<1>2. Append(answers[c], f) # <<>>
  BY <1>1
<1>3. c \notin Replays
  BY CallsAssumption
<1>4. /\ answers'[c] = Append(answers[c], f) \/ answers'[c] = answers[c]
      /\ client'[c] = "connected" => answers'[c] = Append(answers[c], f)
  BY <1>1, <1>3, RespondEffect
<1> QED BY <1>2, <1>4

(* Dropping the entry of one call leaves the others in the table.          *)
LEMMA DropOthers ==
    ASSUME TypeOK, TableInv, NEW c \in Calls, Remove({upID[c]}),
           NEW d \in Calls, d # c, InTable(d)
    PROVE  InTable(d)'
<1>1. PICK k \in DOMAIN pending : pending[k] = d
  BY DEF InTable
<1>2. k # upID[c]
  BY <1>1 DEF TableInv, EntryIds, FreshIds, TypeOK
<1> QED BY <1>1, <1>2, RemoveTable DEF InTable

(* A taken call is in its taker's hands, the others stay in the table.     *)
LEMMA TakeHands ==
    ASSUME NEW t, NEW kind, NEW K \in SUBSET DOMAIN pending, Take(t, K, kind), NEW d
    PROVE  /\ InTable(d) => InTable(d)' \/ \E o \in owed' : o.call = d
           /\ (\E o \in owed : o.call = d) => \E o \in owed' : o.call = d
<1>1. owed' = owed \cup
        {[by |-> t, call |-> pending[k], frame |-> Frame(kind, pending[k])] : k \in K}
  BY DEF Take
<1>2. ASSUME NEW k \in DOMAIN pending, pending[k] = d
      PROVE  InTable(d)' \/ \E o \in owed' : o.call = d
  <2>1. CASE k \in K
    <3>1. [by |-> t, call |-> pending[k], frame |-> Frame(kind, pending[k])] \in owed'
      BY <1>1, <2>1
    <3> QED BY <1>2, <3>1
  <2>2. CASE k \notin K
    BY <1>2, <2>2, RemoveTable DEF Take, InTable
  <2> QED BY <2>1, <2>2
<1> QED BY <1>1, <1>2 DEF InTable

LEMMA ForgottenStep ==
    ASSUME TypeOK, TableInv, ForgottenInv, [Next]_vars
    PROVE  ForgottenInv'
<1> USE DEF tableVars, callVars, upstreamVars
<1>1. ASSUME NEW c \in Calls, RateLimit(c) PROVE ForgottenInv'
  <2>1. Frame("limited", c) \in Frames /\ c \in Requests
        /\ Respond(c, Frame("limited", c))
    BY <1>1, FrameType DEF Kinds, TableKinds, RateLimit
  <2>2. client'[c] = "connected" => answers'[c] # <<>>
    BY <2>1, RespondTells
  <2>3. \A d \in Calls : d # c => answers'[d] = answers[d] /\ client'[d] = client[d]
    BY <2>1, RespondEffect
  <2> QED BY <1>1, <2>2, <2>3
          DEF RateLimit, ForgottenInv, NoneForgotten, ToldBeforeDrop, InTable, Calls, TypeOK
<1>2. ASSUME NEW c \in Calls, processClientMessage(c) \/ ReplayEnter(c) PROVE ForgottenInv'
  <2>1. /\ \A d \in Calls : InTable(d) => InTable(d)'
        /\ InTable(c)'
    <3>1. Insert(seq + 1, c) /\ seq + 1 \in Nat /\ seq + 1 \notin DOMAIN pending
      BY <1>2 DEF processClientMessage, ReplayEnter, Enter, TypeOK
    <3>2. /\ DOMAIN pending' = DOMAIN pending \cup {seq + 1}
          /\ pending'[seq + 1] = c
          /\ \A k \in DOMAIN pending : pending'[k] = pending[k]
      BY <3>1, InsertTable
    <3> QED BY <3>2 DEF InTable
  <2>2. /\ UNCHANGED <<owed, answers, client>>
        /\ pc' = [pc EXCEPT ![c] = "get"]
    BY <1>2 DEF processClientMessage, ReplayEnter, Enter
  <2> QED BY <2>1, <2>2 DEF ForgottenInv, NoneForgotten, ToldBeforeDrop, Calls, TypeOK
<1>3. ASSUME NEW c \in Calls,
             GetWriter(c) \/ LoadEverUp(c) \/ WaitReady(c) \/ WaitTimeout(c)
             \/ WriteOK(c) \/ WriteError(c)
      PROVE  ForgottenInv'
  <2>1. UNCHANGED <<pending, owed, answers, client>>
    BY <1>3 DEF GetWriter, LoadEverUp, WaitReady, WaitTimeout, WriteOK, WriteError
  <2>2. \A d \in Calls : /\ pc[d] = "idle" => pc'[d] = "idle"
                         /\ pc'[d] = "drop" => pc[d] = "drop"
    BY <1>3 DEF GetWriter, LoadEverUp, WaitReady, WaitTimeout, WriteOK, WriteError,
                Goto, TypeOK
  <2> QED BY <2>1, <2>2 DEF ForgottenInv, NoneForgotten, ToldBeforeDrop, InTable, Calls
<1>4. ASSUME NEW c \in Calls, ReplayCheck(c) \/ ReplayReturn(c) PROVE ForgottenInv'
  <2>1. UNCHANGED <<pending, owed, answers, client>>
    BY <1>4 DEF ReplayCheck, ReplayReturn
  <2>2. \A d \in Requests : pc'[d] = pc[d]
    BY <1>4, CallsAssumption DEF ReplayCheck, ReplayReturn, Goto, TypeOK, Calls
  <2> QED BY <2>1, <2>2 DEF ForgottenInv, NoneForgotten, ToldBeforeDrop, InTable
<1>5. ASSUME NEW c \in Calls, ReportWriteError(c) PROVE ForgottenInv'
  <2>1. UNCHANGED <<pending, owed>> /\ pc' = [pc EXCEPT ![c] = "drop"] /\ pc[c] = "failed"
    BY <1>5 DEF ReportWriteError, Goto
  <2>2. CASE c \in Requests
    <3>1. Respond(c, Frame("writefailed", c)) /\ Frame("writefailed", c) \in Frames
      BY <1>5, <2>2, FrameType DEF ReportWriteError, Kinds
    <3>2. client'[c] = "connected" => answers'[c] # <<>>
      BY <2>2, <3>1, RespondTells
    <3>3. \A d \in Calls : d # c => answers'[d] = answers[d] /\ client'[d] = client[d]
      BY <3>1, RespondEffect
    <3> QED BY <2>1, <3>2, <3>3
            DEF ForgottenInv, NoneForgotten, ToldBeforeDrop, InTable, Calls, TypeOK
  <2>3. CASE c \notin Requests
    <3>1. UNCHANGED <<answers, client>>
      BY <1>5, <2>3 DEF ReportWriteError
    <3> QED BY <2>1, <2>3, <3>1
            DEF ForgottenInv, NoneForgotten, ToldBeforeDrop, InTable, Calls, TypeOK
  <2> QED BY <2>2, <2>3
<1>6. ASSUME NEW c \in Calls, dropPending(c) PROVE ForgottenInv'
  <2>1. /\ UNCHANGED <<owed, answers, client>> /\ Remove({upID[c]})
        /\ pc' = [pc EXCEPT ![c] = "done"] /\ pc[c] = "drop"
    BY <1>6 DEF dropPending, Goto
  <2> QED BY <2>1, DropOthers DEF ForgottenInv, NoneForgotten, ToldBeforeDrop, Calls, TypeOK
<1>7. ASSUME NEW c \in Calls, Disconnect(c) PROVE ForgottenInv'
  BY <1>7 DEF Disconnect, ForgottenInv, NoneForgotten, ToldBeforeDrop, InTable, Calls, TypeOK
<1>8. ASSUME NEW c \in Calls, Cleanup(c) PROVE ForgottenInv'
  <2>1. /\ UNCHANGED <<owed, answers, pc>> /\ Remove({upID[c]})
        /\ client' = [client EXCEPT ![c] = "left"]
    BY <1>8 DEF Cleanup
  <2> QED BY <2>1, DropOthers DEF ForgottenInv, NoneForgotten, ToldBeforeDrop, Calls, TypeOK
<1>9. ASSUME NEW K \in SUBSET DOMAIN pending, NEW t \in Takers, NEW kind \in TableKinds,
             Take(t, K, kind), UNCHANGED <<pc, answers, client>>
      PROVE  ForgottenInv'
  BY <1>9, TakeHands DEF ForgottenInv, NoneForgotten, ToldBeforeDrop
<1>10. ASSUME NEW c \in Calls, processUpstreamMessage(c) PROVE ForgottenInv'
  <2>1. upID[c] \in DOMAIN pending
    BY <1>10 DEF processUpstreamMessage
  <2>2. pending[upID[c]] = c
    BY <2>1 DEF TableInv, EntryIds, FreshIds, TypeOK
  <2>3. Take("reader", {upID[c]}, "result")
    BY <1>10, <2>2 DEF processUpstreamMessage, Take
  <2> QED BY <1>9, <1>10, <2>1, <2>3 DEF processUpstreamMessage, Takers, TableKinds
<1>11. ASSUME NEW K \in SUBSET DOMAIN pending, reapPending(K) PROVE ForgottenInv'
  BY <1>9, <1>11 DEF reapPending, Takers, TableKinds
<1>12. CASE SupervisorFails \/ MainFails
  BY <1>9, <1>12 DEF SupervisorFails, MainFails, failPendingUpstreamDown, Takers, TableKinds
<1>13. ASSUME NEW o \in owed, RespondTaken(o) PROVE ForgottenInv'
  <2>1. /\ o.call \in Calls /\ o.frame \in Frames
        /\ owed' = owed \ {o} /\ UNCHANGED <<pc, pending>>
        /\ Respond(o.call, o.frame)
    BY <1>13 DEF RespondTaken, TypeOK
  <2>2. o.call \in Requests => (client'[o.call] = "connected" => answers'[o.call] # <<>>)
    BY <2>1, RespondTells
  <2>3. \A d \in Calls : d # o.call => answers'[d] = answers[d] /\ client'[d] = client[d]
    BY <2>1, RespondEffect
  <2>4. \A d \in Calls : d # o.call =>
            ((\E p \in owed : p.call = d) => \E p \in owed' : p.call = d)
    BY <2>1
  <2> QED BY <2>1, <2>2, <2>3, <2>4
          DEF ForgottenInv, NoneForgotten, ToldBeforeDrop, InTable, Calls
<1>14. ASSUME UNCHANGED <<pc, pending, owed, answers, client>> PROVE ForgottenInv'
  BY <1>14 DEF ForgottenInv, NoneForgotten, ToldBeforeDrop, InTable
<1>15. CASE LoopTop \/ Connect \/ StartFails \/ StoreEverUp \/ CloseReady
            \/ RunReturns \/ ClearWriter \/ SupervisorDone \/ Backoff
  BY <1>14, <1>15 DEF LoopTop, Connect, StartFails, StoreEverUp, CloseReady,
                      RunReturns, ClearWriter, SupervisorDone, Backoff
<1>16. CASE CloseClient
  <2>1. UNCHANGED <<pc, pending, owed, answers>>
        /\ \A c \in Calls : client'[c] = client[c] \/ client'[c] = "gone"
    BY <1>16 DEF CloseClient
  <2> QED BY <2>1 DEF ForgottenInv, NoneForgotten, ToldBeforeDrop, InTable, Calls
<1>17. CASE SweeperStops \/ Cancel \/ Exit \/ UNCHANGED vars
  BY <1>14, <1>17 DEF SweeperStops, Cancel, Exit, vars
<1>18. ASSUME NEW c \in Calls, CallStep(c) PROVE ForgottenInv'
  BY <1>1, <1>2, <1>3, <1>4, <1>5, <1>6, <1>7, <1>8, <1>10, <1>18 DEF CallStep
<1>19. CASE SupervisorStep
  BY <1>12, <1>15, <1>19 DEF SupervisorStep
<1>20. CASE MainStep
  BY <1>12, <1>16, <1>17, <1>20 DEF MainStep
<1> QED
  BY <1>11, <1>13, <1>17, <1>18, <1>19, <1>20 DEF Next, Exited

(* A call whose client is still there is in the table, about to be         *)
(* answered, or answered, on every path of handleClientMessage.            *)
THEOREM NoneForgottenAlways == Spec => []NoneForgotten
<1>1. Init => ForgottenInv
  BY DEF Init, ForgottenInv, NoneForgotten, ToldBeforeDrop, Calls
<1>2. TypeOK /\ TableInv /\ ForgottenInv /\ [Next]_vars => ForgottenInv'
  BY ForgottenStep
<1>3. ForgottenInv => NoneForgotten
  BY DEF ForgottenInv
<1> QED BY <1>1, <1>2, <1>3, TypeCorrect, TableCorrect, PTL DEF Spec

-----------------------------------------------------------------------------
(* No caller is answered twice, but for the report of a failed write.      *)

(* The first frame of a Streamable HTTP exchange is its last.              *)
LEMMA RespondEnds ==
    ASSUME TypeOK, ExchangeEnds, NEW c \in Calls, NEW f \in Frames, Respond(c, f)
    PROVE  ExchangeEnds'
<1> SUFFICES ASSUME ClientTransport = "streamable-http", NEW d \in Requests, answers'[d] # <<>>
             PROVE  client'[d] # "connected" /\ Len(answers'[d]) = 1
  BY DEF ExchangeEnds
<1>1. d \in Calls /\ d \notin Replays
  BY CallsAssumption DEF Calls
<1>2. CASE answers'[d] = answers[d] /\ client'[d] = client[d]
  BY <1>2 DEF ExchangeEnds
<1>3. CASE d = c /\ client[c] = "connected"
  <2>1. /\ answers' = [answers EXCEPT ![c] = Append(@, f)]
        /\ client' = [client EXCEPT ![c] = "finished"]
    BY <1>1, <1>3 DEF Respond
  <2>2. answers[c] = <<>>
    BY <1>3 DEF ExchangeEnds
  <2>3. answers'[c] = Append(<<>>, f) /\ client'[c] = "finished"
    BY <2>1, <2>2 DEF TypeOK
  <2> QED BY <1>3, <2>3
<1>4. CASE d = c /\ client[c] # "connected"
  BY <1>1, <1>2, <1>4 DEF Respond
<1> QED BY <1>1, <1>2, <1>3, <1>4, RespondEffect

(* A frame of a taker adds no report; the report of a goroutine that has   *)
(* not reported before is the only one.                                    *)
LEMMA RespondReports ==
    ASSUME TypeOK, ReportedOnce, NEW c \in Calls, NEW f \in Frames, Respond(c, f),
           \A d \in Calls : pc[d] \in {"drop", "done"} => pc'[d] \in {"drop", "done"},
           ~FromTable(f) => /\ c \in Requests /\ pc[c] = "failed" /\ pc'[c] = "drop"
    PROVE  ReportedOnce'
<1>1. /\ \A d \in Calls : d # c => answers'[d] = answers[d]
      /\ \/ answers'[c] = Append(answers[c], f)
         \/ answers'[c] = answers[c]
  BY RespondEffect
<1>2. answers[c] \in Seq(Frames)
  BY DEF TypeOK
<1>3. \A i \in DOMAIN answers'[c] :
          \/ i \in DOMAIN answers[c] /\ answers'[c][i] = answers[c][i]
          \/ i = Len(answers[c]) + 1 /\ answers'[c][i] = f
  BY <1>1, <1>2
<1>4. ASSUME NEW d \in Calls, d # c, NEW i \in DOMAIN answers'[d], ~FromTable(answers'[d][i])
      PROVE  /\ d \in Requests /\ pc'[d] \in {"drop", "done"}
             /\ \A j \in DOMAIN answers'[d] : ~FromTable(answers'[d][j]) => i = j
  BY <1>1, <1>4 DEF ReportedOnce
<1>5. ASSUME NEW i \in DOMAIN answers'[c], ~FromTable(answers'[c][i])
      PROVE  /\ c \in Requests /\ pc'[c] \in {"drop", "done"}
             /\ \A j \in DOMAIN answers'[c] : ~FromTable(answers'[c][j]) => i = j
  <2>1. CASE FromTable(f)
    BY <1>3, <1>5, <2>1 DEF ReportedOnce
  <2>2. CASE ~FromTable(f)
    <3>1. \A j \in DOMAIN answers[c] : FromTable(answers[c][j])
      BY <2>2 DEF ReportedOnce
    <3> QED BY <1>3, <1>5, <2>2, <3>1
  <2> QED BY <2>1, <2>2
<1> QED BY <1>4, <1>5 DEF ReportedOnce, FromTable

LEMMA ReportInvStep ==
    ASSUME TypeOK, TableInv, ReportInv, [Next]_vars
    PROVE  ReportInv'
<1> USE DEF tableVars, callVars, upstreamVars
<1>1. ASSUME NEW c \in Calls, NEW f \in Frames, Respond(c, f), FromTable(f),
             \A d \in Calls : pc[d] \in {"drop", "done"} => pc'[d] \in {"drop", "done"}
      PROVE  ReportInv'
  BY <1>1, RespondEnds, RespondReports DEF ReportInv
<1>2. ASSUME UNCHANGED answers,
             \A d \in Calls : /\ pc[d] \in {"drop", "done"} => pc'[d] \in {"drop", "done"}
                              /\ client'[d] = "connected" => client[d] = "connected"
      PROVE  ReportInv'
  BY <1>2 DEF ReportInv, ReportedOnce, ExchangeEnds, FromTable, Calls
<1>3. ASSUME NEW c \in Calls, RateLimit(c) PROVE ReportInv'
  <2>1. Frame("limited", c) \in Frames /\ FromTable(Frame("limited", c))
    BY FrameType DEF FromTable, Frame, Kinds, TableKinds
  <2>2. \A d \in Calls : pc[d] \in {"drop", "done"} => pc'[d] \in {"drop", "done"}
    BY <1>3 DEF RateLimit, TypeOK
  <2> QED BY <1>1, <1>3, <2>1, <2>2 DEF RateLimit
<1>4. ASSUME NEW c \in Calls, ReportWriteError(c) PROVE ReportInv'
  <2>1. pc[c] = "failed" /\ pc' = [pc EXCEPT ![c] = "drop"]
    BY <1>4 DEF ReportWriteError, Goto
  <2>2. pc'[c] = "drop" /\ \A d \in Calls : pc[d] \in {"drop", "done"} => pc'[d] \in {"drop", "done"}
    BY <2>1 DEF TypeOK
  <2>3. CASE c \in Requests
    <3>1. Frame("writefailed", c) \in Frames /\ Respond(c, Frame("writefailed", c))
      BY <1>4, <2>3, FrameType DEF ReportWriteError, Kinds
    <3> QED BY <2>1, <2>2, <2>3, <3>1, RespondEnds, RespondReports DEF ReportInv
  <2>4. CASE c \notin Requests
    BY <1>2, <1>4, <2>2, <2>4 DEF ReportWriteError
  <2> QED BY <2>3, <2>4
<1>5. ASSUME NEW c \in Calls,
             processClientMessage(c) \/ GetWriter(c) \/ LoadEverUp(c) \/ WaitReady(c)
             \/ WaitTimeout(c) \/ WriteOK(c) \/ WriteError(c) \/ dropPending(c)
             \/ ReplayCheck(c) \/ ReplayEnter(c) \/ ReplayReturn(c)
             \/ processUpstreamMessage(c)
      PROVE  ReportInv'
  <2>1. UNCHANGED <<answers, client>>
    BY <1>5 DEF processClientMessage, GetWriter, LoadEverUp, WaitReady, WaitTimeout,
                WriteOK, WriteError, dropPending, ReplayCheck, ReplayEnter, ReplayReturn,
                processUpstreamMessage
  <2>2. \A d \in Calls : pc[d] \in {"drop", "done"} => pc'[d] \in {"drop", "done"}
    BY <1>5 DEF processClientMessage, GetWriter, LoadEverUp, WaitReady, WaitTimeout,
                WriteOK, WriteError, dropPending, ReplayCheck, ReplayEnter, ReplayReturn,
                processUpstreamMessage, Enter, Goto, TypeOK
  <2> QED BY <1>2, <2>1, <2>2
<1>6. ASSUME NEW c \in Calls, Disconnect(c) \/ Cleanup(c) PROVE ReportInv'
  <2>1. UNCHANGED <<answers, pc>>
    BY <1>6 DEF Disconnect, Cleanup
  <2>2. \A d \in Calls : client'[d] = "connected" => client[d] = "connected"
    BY <1>6 DEF Disconnect, Cleanup, TypeOK
  <2> QED BY <1>2, <2>1, <2>2
<1>7. ASSUME NEW o \in owed, RespondTaken(o) PROVE ReportInv'
  <2>1. /\ o.call \in Calls /\ o.frame \in Frames /\ FromTable(o.frame)
        /\ Respond(o.call, o.frame) /\ UNCHANGED pc
    BY <1>7 DEF RespondTaken, TypeOK, TableInv, OwedFrames
  <2> QED BY <1>1, <2>1
<1>8. CASE CloseClient
  <2>1. UNCHANGED <<answers, pc>>
        /\ \A c \in Calls : client'[c] = client[c] \/ client'[c] = "gone"
    BY <1>8 DEF CloseClient
  <2> QED BY <1>2, <2>1
<1>9. ASSUME UNCHANGED <<pc, answers, client>> PROVE ReportInv'
  BY <1>2, <1>9
<1>10. ASSUME NEW K, reapPending(K) PROVE ReportInv'
  BY <1>9, <1>10 DEF reapPending
<1>11. CASE SupervisorStep
  BY <1>9, <1>11 DEF SupervisorStep, LoopTop, Connect, StartFails, StoreEverUp, CloseReady,
                     RunReturns, ClearWriter, SupervisorFails, SupervisorDone, Backoff
<1>12. CASE SweeperStops \/ Cancel \/ MainFails \/ Exit \/ UNCHANGED vars
  BY <1>9, <1>12 DEF SweeperStops, Cancel, MainFails, Exit, vars
<1>13. ASSUME NEW c \in Calls, CallStep(c) PROVE ReportInv'
  BY <1>3, <1>4, <1>5, <1>6, <1>13 DEF CallStep
<1> QED
  BY <1>7, <1>8, <1>10, <1>11, <1>12, <1>13 DEF Next, MainStep, Exited

(* At most one frame of a call comes from the table and at most one from   *)
(* its goroutine, so two frames are one of each, and three are too many.   *)
LEMMA ReportCounts ==
    ASSUME TypeOK, TableInv, ReportInv
    PROVE  TwiceOnlyIfWriteFailed
<1> SUFFICES ASSUME NEW c \in Calls, Len(answers[c]) > 1
             PROVE  /\ c \in Requests /\ ClientTransport # "streamable-http"
                    /\ Len(answers[c]) = 2
                    /\ \E i \in 1..2 : answers[c][i].kind = "writefailed"
                                          /\ FromTable(answers[c][3 - i])
  BY DEF TwiceOnlyIfWriteFailed
<1> DEFINE n == Len(answers[c])
           Told(i) == FromTable(answers[c][i])
<1>1. n \in Nat /\ DOMAIN answers[c] = 1..n /\ \A i \in 1..n : answers[c][i] \in Frames
  BY DEF TypeOK
<1>2. \A i, j \in 1..n : (Told(i) /\ Told(j)) \/ (~Told(i) /\ ~Told(j)) => i = j
  BY <1>1 DEF TableInv, TakenOnce, ReportInv, ReportedOnce
<1>3. \A i \in 1..n : ~Told(i) => c \in Requests /\ answers[c][i].kind = "writefailed"
  BY <1>1 DEF ReportInv, ReportedOnce, FromTable, Frames, Kinds
<1> HIDE DEF n, Told
<1>4. n > 1
  BY DEF n
<1>5. n = 2
  <2>1. CASE n > 2
    <3>1. 1 \in 1..n /\ 2 \in 1..n /\ 3 \in 1..n
      BY <1>1, <2>1
    <3> QED BY <1>2, <3>1
  <2> QED BY <1>1, <1>4, <2>1
<1>6. PICK i \in 1..2 : ~Told(i) /\ Told(3 - i)
  <2>1. 1 \in 1..n /\ 2 \in 1..n /\ 1 # 2 /\ 3 - 1 = 2 /\ 3 - 2 = 1
    BY <1>5
  <2>2. (~Told(1) /\ Told(2)) \/ (~Told(2) /\ Told(1))
    BY <1>2, <2>1
  <2> QED BY <2>1, <2>2
<1>7. c \in Requests /\ answers[c][i].kind = "writefailed"
  BY <1>3, <1>5, <1>6
<1>8. ClientTransport # "streamable-http"
  <2>1. answers[c] # <<>> /\ Len(answers[c]) # 1
    BY <1>4, <1>5 DEF n
  <2>2. c \in Requests
    BY <1>7
  <2> QED BY <2>1, <2>2 DEF ReportInv, ExchangeEnds
<1> QED BY <1>5, <1>6, <1>7, <1>8 DEF n, Told

(* The second answer of a failed write is the only one there is, for any   *)
(* clients, replays, transports and reconnects.                            *)
THEOREM TwiceOnlyIfWriteFailedAlways == Spec => []TwiceOnlyIfWriteFailed
<1>1. Init => ReportInv
  BY DEF Init, ReportInv, ReportedOnce, ExchangeEnds, Calls
<1>2. TypeOK /\ TableInv /\ ReportInv /\ [Next]_vars => ReportInv'
  BY ReportInvStep
<1>3. TypeOK /\ TableInv /\ ReportInv => TwiceOnlyIfWriteFailed
  BY ReportCounts
<1> QED BY <1>1, <1>2, <1>3, TypeCorrect, TableCorrect, PTL DEF Spec
-----------------------------------------------------------------------------
(* The core implements Correlation.  What the refinement mapping says of a *)
(* call, by where the call is: TableInv makes the cases exclude each other *)
(* and the verdict unique.                                                 *)
TableFrames(c) ==
    {f \in Frames : FromTable(f) /\ \E i \in DOMAIN answers[c] : answers[c][i] = f}

Held(c) == {o \in owed : o.call = c}

PhaseSpec ==
    /\ phase = [c \in Calls |-> phase[c]]
    /\ \A c \in Calls :
          /\ InTable(c) => phase[c] = Table!Waiting
          /\ \A o \in Held(c) : phase[c] = Table!Settled(o.frame.kind)
          /\ \A f \in TableFrames(c) : phase[c] = Table!Answered(f.kind)
          /\ ~InTable(c) /\ Held(c) = {} /\ TableFrames(c) = {} =>
                phase[c] = IF upID[c] = 0 THEN Table!New ELSE Table!Dropped

LEMMA PhaseByPlace == TypeOK /\ TableInv => PhaseSpec
<1> SUFFICES ASSUME TypeOK, TableInv PROVE PhaseSpec
  OBVIOUS
<1> DEFINE Value(c) ==
        CASE InTable(c) -> [at |-> "waiting", verdict |-> "none"]
          [] \E o \in owed : o.call = c -> [at |-> "settled", verdict |-> Verdict(c)]
          [] \E i \in DOMAIN answers[c] : FromTable(answers[c][i]) ->
                 [at |-> "answered", verdict |-> Verdict(c)]
          [] OTHER -> [at |-> IF upID[c] = 0 THEN "new" ELSE "dropped", verdict |-> "none"]
<1>1. phase = [c \in Calls |-> Value(c)]
  BY DEF phase
<1>2. phase = [c \in Calls |-> phase[c]] /\ \A c \in Calls : phase[c] = Value(c)
  BY <1>1
<1>3. ASSUME NEW c \in Calls
      PROVE  /\ InTable(c) => phase[c] = Table!Waiting
             /\ \A o \in Held(c) : phase[c] = Table!Settled(o.frame.kind)
             /\ \A f \in TableFrames(c) : phase[c] = Table!Answered(f.kind)
             /\ ~InTable(c) /\ Held(c) = {} /\ TableFrames(c) = {} =>
                   phase[c] = IF upID[c] = 0 THEN Table!New ELSE Table!Dropped
  <2>1. ASSUME InTable(c) PROVE phase[c] = Table!Waiting
    <3>1. /\ \A o \in owed : o.call # c
          /\ \A i \in DOMAIN answers[c] : ~FromTable(answers[c][i])
      BY <2>1 DEF TableInv, TakenOnce
    <3> QED BY <1>2, <2>1, <3>1 DEF Table!Waiting
  <2>2. ASSUME NEW o \in Held(c) PROVE phase[c] = Table!Settled(o.frame.kind)
    <3>1. /\ o \in owed /\ o.call = c /\ ~InTable(c)
          /\ \A p \in owed : p.call = c => p = o
          /\ \A i \in DOMAIN answers[c] : ~FromTable(answers[c][i])
          /\ o.frame.kind \in TableKinds
      BY DEF Held, TableInv, TakenOnce, OwedFrames, FromTable
    <3>2. Verdict(c) = o.frame.kind
      BY <3>1 DEF Verdict, FromTable
    <3>3. phase[c] = [at |-> "settled", verdict |-> Verdict(c)]
      BY <1>2, <3>1
    <3> QED BY <3>2, <3>3 DEF Table!Settled
  <2>3. ASSUME NEW f \in TableFrames(c) PROVE phase[c] = Table!Answered(f.kind)
    <3>1. PICK i \in DOMAIN answers[c] : answers[c][i] = f /\ FromTable(f)
      BY DEF TableFrames
    <3>2. /\ ~InTable(c) /\ \A o \in owed : o.call # c
          /\ \A j \in DOMAIN answers[c] : FromTable(answers[c][j]) => i = j
          /\ f.kind \in TableKinds
      BY <3>1 DEF TableInv, TakenOnce, FromTable
    <3>3. Verdict(c) = f.kind
      BY <3>1, <3>2 DEF Verdict, FromTable
    <3>4. phase[c] = [at |-> "answered", verdict |-> Verdict(c)]
      BY <1>2, <3>1, <3>2
    <3> QED BY <3>3, <3>4 DEF Table!Answered
  <2>4. ASSUME ~InTable(c), Held(c) = {}, TableFrames(c) = {}
        PROVE  phase[c] = IF upID[c] = 0 THEN Table!New ELSE Table!Dropped
    <3>1. \A i \in DOMAIN answers[c] : ~FromTable(answers[c][i])
      <4>1. \A i \in DOMAIN answers[c] : answers[c][i] \in Frames
        BY DEF TypeOK
      <4> QED BY <2>4, <4>1 DEF TableFrames
    <3>2. ~\E o \in owed : o.call = c
      BY <2>4 DEF Held
    <3> QED BY <1>2, <2>4, <3>1, <3>2 DEF Table!New, Table!Dropped
  <2> QED BY <2>1, <2>2, <2>3, <2>4
<1> QED BY <1>2, <1>3 DEF PhaseSpec

(* A call whose place does not change keeps its phase.                     *)
LEMMA SamePlace ==
    ASSUME PhaseSpec, PhaseSpec', NEW c \in Calls,
           InTable(c)' <=> InTable(c), Held(c)' = Held(c),
           TableFrames(c)' = TableFrames(c), upID'[c] = upID[c]
    PROVE  phase'[c] = phase[c]
<1>1. CASE InTable(c)
  BY <1>1 DEF PhaseSpec, Table!Waiting
<1>2. ASSUME NEW o \in Held(c) PROVE phase'[c] = phase[c]
  BY <1>2 DEF PhaseSpec, Table!Settled
<1>3. ASSUME NEW f \in TableFrames(c) PROVE phase'[c] = phase[c]
  BY <1>3 DEF PhaseSpec, Table!Answered
<1>4. CASE ~InTable(c) /\ Held(c) = {} /\ TableFrames(c) = {}
  BY <1>4 DEF PhaseSpec, Table!New, Table!Dropped
<1> QED BY <1>1, <1>2, <1>3, <1>4

LEMMA AllSame ==
    ASSUME PhaseSpec, PhaseSpec', \A c \in Calls : phase'[c] = phase[c]
    PROVE  UNCHANGED phase
BY DEF PhaseSpec

LEMMA OneMoves ==
    ASSUME PhaseSpec, PhaseSpec', NEW c \in Calls, NEW from, NEW to,
           phase[c] = from, phase'[c] = to,
           \A d \in Calls : d # c => phase'[d] = phase[d]
    PROVE  Table!Move(c, from, to)
BY DEF PhaseSpec, Table!Move

(* One event takes a set of calls out of the table.                        *)
LEMMA TakeSettles ==
    ASSUME TypeOK, TableInv, PhaseSpec, PhaseSpec',
           NEW t \in Takers, NEW kind \in TableKinds, NEW K \in SUBSET DOMAIN pending,
           Take(t, K, kind), UNCHANGED <<upID, answers>>
    PROVE  Table!Next
<1> DEFINE S == {pending[k] : k \in K}
           Due(k) == [by |-> t, call |-> pending[k], frame |-> Frame(kind, pending[k])]
<1>1. /\ DOMAIN pending' = DOMAIN pending \ K
      /\ \A k \in DOMAIN pending' : pending'[k] = pending[k]
      /\ owed' = owed \cup {Due(k) : k \in K}
  BY RemoveTable DEF Take
<1>2. \A k \in K : Due(k).call = pending[k] /\ Due(k).frame.kind = kind
  BY DEF Frame
<1>3. S \subseteq Calls /\ \A c \in S : InTable(c)
  BY DEF TypeOK, InTable
<1> HIDE DEF Due
<1>4. \A c \in S : phase[c] = Table!Waiting
  BY <1>3 DEF PhaseSpec
<1>5. ASSUME NEW c \in S PROVE phase'[c] = Table!Settled(kind)
  <2>1. PICK k \in K : c = pending[k]
    OBVIOUS
  <2>2. Due(k) \in Held(c)'
    BY <1>1, <1>2, <2>1 DEF Held
  <2> QED BY <1>2, <1>3, <2>1, <2>2 DEF PhaseSpec
<1>6. ASSUME NEW c \in Calls, c \notin S PROVE phase'[c] = phase[c]
  <2>1. InTable(c)' <=> InTable(c)
    BY <1>1, <1>6 DEF InTable
  <2>2. Held(c)' = Held(c)
    BY <1>1, <1>2, <1>6 DEF Held
  <2>3. TableFrames(c)' = TableFrames(c)
    BY DEF TableFrames
  <2> QED BY <2>1, <2>2, <2>3, SamePlace
<1>7. phase' = [c \in Calls |-> IF c \in S THEN Table!Settled(kind) ELSE phase[c]]
  BY <1>3, <1>5, <1>6 DEF PhaseSpec
<1>8. Table!Settle(S, kind)
  BY <1>4, <1>7 DEF Table!Settle
<1> QED BY <1>3, <1>8 DEF Table!Next

(* An entry is removed and its call told nothing, or there is none.        *)
LEMMA RemoveDrops ==
    ASSUME TypeOK, TableInv, PhaseSpec, PhaseSpec', NEW c \in Calls, Remove({upID[c]}),
           UNCHANGED <<upID, owed, answers>>
    PROVE  Table!Next \/ UNCHANGED phase
<1>1. /\ DOMAIN pending' = DOMAIN pending \ {upID[c]}
      /\ \A k \in DOMAIN pending' : pending'[k] = pending[k]
  BY RemoveTable
<1>2. \A k \in DOMAIN pending : pending[k] \in Calls /\ upID[pending[k]] = k
  BY DEF TypeOK, TableInv, EntryIds
<1>3. upID[c] \in DOMAIN pending => pending[upID[c]] = c /\ upID[c] # 0
  BY <1>2 DEF TypeOK, TableInv, FreshIds
<1>4. ASSUME NEW d \in Calls, d # c \/ ~InTable(c) PROVE phase'[d] = phase[d]
  <2>1. InTable(d)' <=> InTable(d)
    BY <1>1, <1>2, <1>3, <1>4 DEF InTable
  <2>2. Held(d)' = Held(d) /\ TableFrames(d)' = TableFrames(d)
    BY DEF Held, TableFrames
  <2> QED BY <2>1, <2>2, SamePlace
<1>5. CASE InTable(c)
  <2>1. ~InTable(c)' /\ upID[c] # 0
    BY <1>1, <1>2, <1>3, <1>5 DEF InTable
  <2>2. Held(c) = {} /\ TableFrames(c) = {}
    BY <1>5 DEF Held, TableFrames, TableInv, TakenOnce
  <2>3. Held(c)' = {} /\ TableFrames(c)' = {}
    BY <2>2 DEF Held, TableFrames
  <2>4. phase'[c] = Table!Dropped
    BY <2>1, <2>3 DEF PhaseSpec
  <2>5. phase[c] = Table!Waiting
    BY <1>5 DEF PhaseSpec
  <2>6. Table!Drop(c)
    BY <1>4, <2>4, <2>5, OneMoves DEF Table!Drop
  <2> QED BY <2>6 DEF Table!Next
<1>6. CASE ~InTable(c)
  BY <1>4, <1>6, AllSame
<1> QED BY <1>5, <1>6

LEMMA EnterAccepts ==
    ASSUME TypeOK, TableInv, PhaseSpec, PhaseSpec', NEW c \in Calls, NotEntered(c), Enter(c),
           UNCHANGED <<owed, answers>>
    PROVE  Table!Next
<1>1. seq + 1 \in Nat /\ seq + 1 \notin DOMAIN pending /\ Insert(seq + 1, c)
      /\ upID' = [upID EXCEPT ![c] = seq + 1]
  BY DEF TypeOK, Enter
<1>2. /\ DOMAIN pending' = DOMAIN pending \cup {seq + 1} /\ pending'[seq + 1] = c
      /\ \A k \in DOMAIN pending : pending'[k] = pending[k]
  BY <1>1, InsertTable
<1>3. upID[c] = 0 /\ Held(c) = {} /\ TableFrames(c) = {}
  BY DEF TableInv, NothingBefore, Held, TableFrames
<1>4. ~InTable(c) /\ InTable(c)'
  BY <1>2, <1>3 DEF InTable, TableInv, EntryIds, TypeOK
<1>5. phase[c] = Table!New
  BY <1>3, <1>4 DEF PhaseSpec
<1>6. phase'[c] = Table!Waiting
  BY <1>4 DEF PhaseSpec
<1>7. ASSUME NEW d \in Calls, d # c PROVE phase'[d] = phase[d]
  <2>1. InTable(d)' <=> InTable(d)
    BY <1>1, <1>2, <1>7 DEF InTable
  <2>2. Held(d)' = Held(d) /\ TableFrames(d)' = TableFrames(d)
    BY DEF Held, TableFrames
  <2>3. upID'[d] = upID[d]
    BY <1>1, <1>7 DEF TypeOK
  <2> QED BY <2>1, <2>2, <2>3, SamePlace
<1>8. Table!Accept(c)
  BY <1>5, <1>6, <1>7, OneMoves DEF Table!Accept
<1> QED BY <1>8 DEF Table!Next

(* A response that is not of the table changes no phase; the others answer *)
(* a call, or are lost with its client.                                    *)
LEMMA RespondFrames ==
    ASSUME TypeOK, NEW c \in Calls, NEW f \in Frames, Respond(c, f)
    PROVE  /\ \A d \in Calls : d # c => TableFrames(d)' = TableFrames(d)
           /\ ~FromTable(f) => TableFrames(c)' = TableFrames(c)
           /\ FromTable(f) => \/ f \in TableFrames(c)'
                              \/ TableFrames(c)' = TableFrames(c) /\ client[c] # "connected"
                                 /\ c \notin Replays
<1>1. /\ \A d \in Calls : d # c => answers'[d] = answers[d]
      /\ \/ answers'[c] = Append(answers[c], f)
         \/ answers'[c] = answers[c] /\ client[c] # "connected" /\ c \notin Replays
  BY RespondEffect
<1>2. \A d \in Calls : d # c => TableFrames(d)' = TableFrames(d)
  BY <1>1 DEF TableFrames, FromTable
<1>3. CASE answers'[c] = answers[c] /\ client[c] # "connected" /\ c \notin Replays
  BY <1>2, <1>3 DEF TableFrames, FromTable
<1>4. CASE answers'[c] = Append(answers[c], f)
  <2> DEFINE n == Len(answers[c])
  <2>1. /\ n \in Nat /\ DOMAIN answers[c] = 1..n /\ DOMAIN answers'[c] = 1..(n + 1)
        /\ answers'[c][n + 1] = f /\ n + 1 \in 1..(n + 1)
        /\ \A i \in 1..n : answers'[c][i] = answers[c][i] /\ i \in 1..(n + 1)
        /\ \A i \in 1..(n + 1) : i \in 1..n \/ i = n + 1
    BY <1>4 DEF TypeOK
  <2> HIDE DEF n
  <2>2. FromTable(f) => f \in TableFrames(c)'
    BY <2>1 DEF TableFrames, FromTable
  <2>3. ~FromTable(f) => TableFrames(c)' = TableFrames(c)
    BY <2>1 DEF TableFrames, FromTable
  <2> QED BY <1>2, <2>2, <2>3
<1> QED BY <1>1, <1>3, <1>4

(* A call that is owed a frame was given an id: it came out of the table.  *)
OwedHaveIds == \A o \in owed : upID[o.call] # 0

LEMMA OwedHaveIdsStep ==
    ASSUME TypeOK, TableInv, OwedHaveIds, [Next]_vars
    PROVE  OwedHaveIds'
<1> USE DEF tableVars, callVars, upstreamVars
<1>1. ASSUME UNCHANGED upID, owed' \subseteq owed PROVE OwedHaveIds'
  BY <1>1 DEF OwedHaveIds
<1>2. ASSUME NEW t, NEW kind, NEW K \in SUBSET DOMAIN pending, Take(t, K, kind),
             UNCHANGED upID
      PROVE  OwedHaveIds'
  <2>1. \A k \in K : upID[pending[k]] # 0
    BY DEF TypeOK, TableInv, EntryIds
  <2> QED BY <1>2, <2>1 DEF Take, OwedHaveIds
<1>3. ASSUME NEW c \in Calls, Enter(c), UNCHANGED owed PROVE OwedHaveIds'
  <2>1. upID' = [upID EXCEPT ![c] = seq + 1] /\ seq + 1 # 0
    BY <1>3 DEF Enter, TypeOK
  <2>2. \A o \in owed : o.call \in Calls
    BY DEF TypeOK
  <2> QED BY <1>3, <2>1, <2>2 DEF OwedHaveIds, TypeOK
<1>4. ASSUME NEW c \in Calls, CallStep(c) PROVE OwedHaveIds'
  <2>1. CASE processClientMessage(c) \/ ReplayEnter(c)
    BY <1>3, <2>1 DEF processClientMessage, ReplayEnter
  <2>2. CASE processUpstreamMessage(c)
    <3>1. upID[c] \in DOMAIN pending /\ pending[upID[c]] = c
      BY <2>2 DEF processUpstreamMessage, TableInv, EntryIds, FreshIds, TypeOK
    <3>2. Take("reader", {upID[c]}, "result") /\ UNCHANGED upID
      BY <2>2, <3>1 DEF processUpstreamMessage, Take
    <3> QED BY <1>2, <3>1, <3>2
  <2>3. ASSUME RateLimit(c) \/ GetWriter(c) \/ LoadEverUp(c) \/ WaitReady(c)
               \/ WaitTimeout(c) \/ WriteOK(c) \/ WriteError(c)
               \/ ReportWriteError(c) \/ dropPending(c) \/ ReplayCheck(c)
               \/ ReplayReturn(c) \/ Disconnect(c) \/ Cleanup(c)
        PROVE  UNCHANGED <<upID, owed>>
    BY <2>3 DEF RateLimit, GetWriter, LoadEverUp, WaitReady, WaitTimeout, WriteOK,
                WriteError, ReportWriteError, dropPending, ReplayCheck, ReplayReturn,
                Disconnect, Cleanup
  <2> QED BY <1>1, <1>4, <2>1, <2>2, <2>3 DEF CallStep
<1>5. ASSUME NEW o \in owed, RespondTaken(o) PROVE OwedHaveIds'
  BY <1>1, <1>5 DEF RespondTaken
<1>6. ASSUME NEW K \in SUBSET DOMAIN pending, reapPending(K) PROVE OwedHaveIds'
  BY <1>2, <1>6 DEF reapPending
<1>7. CASE SupervisorFails \/ MainFails
  BY <1>2, <1>7 DEF SupervisorFails, MainFails, failPendingUpstreamDown
<1>8. ASSUME LoopTop \/ Connect \/ StartFails \/ StoreEverUp \/ CloseReady
             \/ RunReturns \/ ClearWriter \/ SupervisorDone \/ Backoff
             \/ SweeperStops \/ Cancel \/ CloseClient \/ Exit \/ UNCHANGED vars
      PROVE  UNCHANGED <<upID, owed>>
  BY <1>8 DEF LoopTop, Connect, StartFails, StoreEverUp, CloseReady, RunReturns,
              ClearWriter, SupervisorDone, Backoff, SweeperStops, Cancel,
              CloseClient, Exit, vars
<1> QED
  BY <1>1, <1>4, <1>5, <1>6, <1>7, <1>8
     DEF Next, SupervisorStep, MainStep, Exited

LEMMA OwedHaveIdsAlways == Spec => []OwedHaveIds
<1>1. Init => OwedHaveIds
  BY DEF Init, OwedHaveIds
<1>2. TypeOK /\ TableInv /\ OwedHaveIds /\ [Next]_vars => OwedHaveIds'
  BY OwedHaveIdsStep
<1> QED BY <1>1, <1>2, TypeCorrect, TableCorrect, PTL DEF Spec

(* Every step of every goroutine is a step of Correlation or none.         *)
LEMMA PromiseStep ==
    ASSUME TypeOK, TableInv, OwedHaveIds, PhaseSpec, PhaseSpec', [Next]_vars
    PROVE  Table!Next \/ UNCHANGED phase
<1> USE DEF tableVars, callVars, upstreamVars
<1>1. ASSUME UNCHANGED <<pending, upID, owed, answers>> PROVE UNCHANGED phase
  <2>1. \A c \in Calls : /\ InTable(c)' <=> InTable(c)
                         /\ upID'[c] = upID[c]
                         /\ Held(c)' = Held(c) /\ TableFrames(c)' = TableFrames(c)
    BY <1>1 DEF InTable, Held, TableFrames
  <2>2. \A c \in Calls : phase'[c] = phase[c]
    BY <2>1, SamePlace
  <2> QED BY <2>2, AllSame
<1>2. ASSUME NEW c \in Calls, RateLimit(c) PROVE Table!Next
  <2> DEFINE f == Frame("limited", c)
  <2>1. /\ f \in Frames /\ FromTable(f) /\ f.kind = "limited"
        /\ Respond(c, f) /\ client[c] = "connected" /\ NotEntered(c)
        /\ UNCHANGED <<pending, upID, owed>>
    BY <1>2, FrameType DEF RateLimit, FromTable, Frame, Kinds, TableKinds, NotEntered
  <2> HIDE DEF f
  <2>2. upID[c] = 0 /\ Held(c) = {} /\ TableFrames(c) = {} /\ ~InTable(c)
    BY <2>1 DEF TableInv, NothingBefore, Held, TableFrames, InTable, EntryIds, TypeOK
  <2>3. phase[c] = Table!New
    BY <2>2 DEF PhaseSpec
  <2>4. f \in TableFrames(c)' /\ \A d \in Calls : d # c => TableFrames(d)' = TableFrames(d)
    BY <2>1, RespondFrames
  <2>5. phase'[c] = Table!Answered("limited")
    BY <2>1, <2>4 DEF PhaseSpec
  <2>6. \A d \in Calls : /\ InTable(d)' <=> InTable(d)
                         /\ Held(d)' = Held(d) /\ upID'[d] = upID[d]
    BY <2>1 DEF InTable, Held
  <2>7. \A d \in Calls : d # c => phase'[d] = phase[d]
    BY <2>4, <2>6, SamePlace
  <2>8. Table!Refuse(c)
    BY <2>3, <2>5, <2>7, OneMoves DEF Table!Refuse
  <2> QED BY <2>8 DEF Table!Next
<1>3. ASSUME NEW c \in Calls, processClientMessage(c) \/ ReplayEnter(c) PROVE Table!Next
  BY <1>3, EnterAccepts DEF processClientMessage, ReplayEnter, NotEntered
<1>4. ASSUME NEW c \in Calls, ReportWriteError(c) PROVE UNCHANGED phase
  <2> DEFINE f == Frame("writefailed", c)
  <2>1. UNCHANGED <<pending, upID, owed>>
    BY <1>4 DEF ReportWriteError
  <2>2. f \in Frames /\ ~FromTable(f)
    BY FrameType DEF FromTable, Frame, Kinds, TableKinds
  <2>3. Respond(c, f) \/ answers' = answers
    BY <1>4 DEF ReportWriteError
  <2> HIDE DEF f
  <2>4. \A d \in Calls : TableFrames(d)' = TableFrames(d)
    <3>1. CASE Respond(c, f)
      BY <2>2, <3>1, RespondFrames
    <3>2. CASE answers' = answers
      BY <3>2 DEF TableFrames
    <3> QED BY <2>3, <3>1, <3>2
  <2>5. \A d \in Calls : /\ InTable(d)' <=> InTable(d)
                         /\ Held(d)' = Held(d) /\ upID'[d] = upID[d]
    BY <2>1 DEF InTable, Held
  <2>6. \A d \in Calls : phase'[d] = phase[d]
    BY <2>4, <2>5, SamePlace
  <2> QED BY <2>6, AllSame
<1>5. ASSUME NEW c \in Calls, dropPending(c) \/ Cleanup(c)
      PROVE  Table!Next \/ UNCHANGED phase
  <2>1. UNCHANGED <<upID, owed, answers>> /\ Remove({upID[c]})
    BY <1>5 DEF dropPending, Cleanup
  <2> QED BY <2>1, RemoveDrops
<1>6. ASSUME NEW c \in Calls, processUpstreamMessage(c) PROVE Table!Next
  <2>1. upID[c] \in DOMAIN pending
    BY <1>6 DEF processUpstreamMessage
  <2>2. pending[upID[c]] = c
    BY <2>1 DEF TableInv, EntryIds, FreshIds, TypeOK
  <2>3. Take("reader", {upID[c]}, "result") /\ UNCHANGED <<upID, answers>>
    BY <1>6, <2>2 DEF processUpstreamMessage, Take
  <2> QED BY <2>1, <2>3, TakeSettles DEF Takers, TableKinds
<1>7. ASSUME NEW o \in owed, RespondTaken(o) PROVE Table!Next
  <2> PICK c \in Calls : c = o.call
    BY DEF TypeOK
  <2>1. /\ o.frame \in Frames /\ FromTable(o.frame) /\ o \in Held(c)
        /\ Held(c) = {o} /\ owed' = owed \ {o} /\ Respond(c, o.frame)
        /\ UNCHANGED <<pending, upID>> /\ ~InTable(c)
    BY <1>7 DEF RespondTaken, TypeOK, TableInv, OwedFrames, TakenOnce, Held
  <2>2. phase[c] = Table!Settled(o.frame.kind) /\ o.frame.kind \in TableKinds
    BY <2>1 DEF PhaseSpec, FromTable
  <2>3. \A d \in Calls : d # c => phase'[d] = phase[d]
    <3>1. \A d \in Calls : d # c => TableFrames(d)' = TableFrames(d)
      BY <2>1, RespondFrames
    <3>2. \A d \in Calls : d # c =>
             (InTable(d)' <=> InTable(d)) /\ Held(d)' = Held(d) /\ upID'[d] = upID[d]
      BY <2>1 DEF InTable, Held
    <3> QED BY <3>1, <3>2, SamePlace
  <2>4. CASE o.frame \in TableFrames(c)'
    <3>1. phase'[c] = Table!Answered(o.frame.kind)
      BY <2>4 DEF PhaseSpec
    <3>2. Table!Answer(c, o.frame.kind)
      BY <2>2, <2>3, <3>1, OneMoves DEF Table!Answer
    <3> QED BY <2>2, <3>2 DEF Table!Next
  <2>5. CASE TableFrames(c)' = TableFrames(c)
    <3>1. TableFrames(c) = {}
      BY <2>1 DEF TableFrames, Held, TableInv, TakenOnce
    <3>2. Held(c)' = {} /\ ~InTable(c)'
      BY <2>1 DEF Held, InTable
    <3>3. upID'[c] # 0
      BY <2>1 DEF OwedHaveIds, Held
    <3>4. phase'[c] = Table!Dropped
      BY <2>5, <3>1, <3>2, <3>3 DEF PhaseSpec
    <3>5. Table!Lose(c, o.frame.kind)
      BY <2>2, <2>3, <3>4, OneMoves DEF Table!Lose
    <3> QED BY <2>2, <3>5 DEF Table!Next
  <2> QED BY <2>1, <2>4, <2>5, RespondFrames
<1>8. ASSUME NEW K \in SUBSET DOMAIN pending, reapPending(K) PROVE Table!Next
  BY <1>8, TakeSettles DEF reapPending, Takers, TableKinds
<1>9. ASSUME SupervisorFails \/ MainFails PROVE Table!Next
  <2>1. PICK t \in Takers : Take(t, DOMAIN pending, "disconnected")
    BY <1>9 DEF SupervisorFails, MainFails, failPendingUpstreamDown, Takers
  <2>2. UNCHANGED <<upID, answers>>
    BY <1>9 DEF SupervisorFails, MainFails
  <2> QED BY <2>1, <2>2, TakeSettles DEF TableKinds
<1>10. ASSUME NEW c \in Calls, CallStep(c) PROVE Table!Next \/ UNCHANGED phase
  <2>1. ASSUME GetWriter(c) \/ LoadEverUp(c) \/ WaitReady(c) \/ WaitTimeout(c)
               \/ WriteOK(c) \/ WriteError(c) \/ ReplayCheck(c) \/ ReplayReturn(c)
               \/ Disconnect(c)
        PROVE  UNCHANGED <<pending, upID, owed, answers>>
    BY <2>1 DEF GetWriter, LoadEverUp, WaitReady, WaitTimeout, WriteOK, WriteError,
                ReplayCheck, ReplayReturn, Disconnect
  <2> QED BY <1>1, <1>2, <1>3, <1>4, <1>5, <1>6, <1>10, <2>1 DEF CallStep
<1>11. ASSUME LoopTop \/ Connect \/ StartFails \/ StoreEverUp \/ CloseReady
            \/ RunReturns \/ ClearWriter \/ SupervisorDone \/ Backoff
       PROVE  UNCHANGED phase
  BY <1>1, <1>11 DEF LoopTop, Connect, StartFails, StoreEverUp, CloseReady,
                     RunReturns, ClearWriter, SupervisorDone, Backoff
<1>12. ASSUME SweeperStops \/ Cancel \/ CloseClient \/ Exit \/ UNCHANGED vars
       PROVE  UNCHANGED phase
  BY <1>1, <1>12 DEF SweeperStops, Cancel, CloseClient, Exit, vars
<1>13. CASE SupervisorStep
  BY <1>9, <1>11, <1>13 DEF SupervisorStep
<1>14. CASE MainStep
  BY <1>9, <1>12, <1>14 DEF MainStep
<1> QED BY <1>7, <1>8, <1>10, <1>12, <1>13, <1>14 DEF Next, Exited

(* The core keeps the promise of Correlation: whatever the goroutines do,  *)
(* every call is accepted or refused once, settled once, and its verdict   *)
(* is delivered at most once and never changed.                            *)
THEOREM PromiseKept == Spec => Promise
<1>2. Init /\ PhaseSpec => Table!Init
  <2> SUFFICES ASSUME Init, PhaseSpec PROVE Table!Init
    OBVIOUS
  <2>1. \A c \in Calls : /\ ~InTable(c) /\ Held(c) = {} /\ TableFrames(c) = {}
                         /\ upID[c] = 0
    BY DEF Init, InTable, Held, TableFrames
  <2>2. \A c \in Calls : phase[c] = Table!New
    BY <2>1 DEF PhaseSpec
  <2> QED BY <2>2 DEF PhaseSpec, Table!Init
<1>3. TypeOK /\ TableInv /\ OwedHaveIds /\ PhaseSpec /\ PhaseSpec' /\ [Next]_vars
         => [Table!Next]_phase
  BY PromiseStep
<1> QED
  BY <1>2, <1>3, PhaseByPlace, TypeCorrect, TableCorrect, OwedHaveIdsAlways, PTL
     DEF Spec, Promise, Table!Spec
=============================================================================
