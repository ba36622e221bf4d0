--------------------------- MODULE GatewayProofs ----------------------------
(* Theorems about SSEGateway, for any sessions, requests and capacities.   *)
(* The invariant has one part for each place a request can be: the table   *)
(* and the frames owed, the upstream's stdin, its stdout and the lines.    *)
EXTENDS SSEGateway, FiniteSetTheorems, SequenceTheorems, TLAPS

-----------------------------------------------------------------------------
(* Sequences.                                                              *)

(* What Append does to the indices and the elements of a sequence.         *)
LEMMA AppendFacts ==
    ASSUME NEW S, NEW s \in Seq(S), NEW e \in S
    PROVE  /\ Append(s, e) \in Seq(S) /\ Len(s) \in Nat /\ Len(Append(s, e)) = Len(s) + 1
           /\ DOMAIN s = 1..Len(s) /\ DOMAIN Append(s, e) = 1..(Len(s) + 1)
           /\ \A i \in 1..Len(s) : Append(s, e)[i] = s[i]
           /\ Append(s, e)[Len(s) + 1] = e
           /\ Range(Append(s, e)) = Range(s) \cup {e}
<1>1. /\ Append(s, e) \in Seq(S) /\ Len(s) \in Nat /\ Len(Append(s, e)) = Len(s) + 1
      /\ \A i \in 1..Len(s) : Append(s, e)[i] = s[i]
      /\ Append(s, e)[Len(s) + 1] = e
    OBVIOUS
<1>2. DOMAIN s = 1..Len(s) /\ DOMAIN Append(s, e) = 1..(Len(s) + 1)
    BY <1>1
<1>3. 1..(Len(s) + 1) = 1..Len(s) \cup {Len(s) + 1}
    BY <1>1
<1>4. Range(Append(s, e)) = Range(s) \cup {e}
    BY <1>1, <1>2, <1>3 DEF Range
<1> QED BY <1>1, <1>2, <1>4

(* The rest of a sequence behind its n-th element.                         *)
LEMMA RestFacts ==
    ASSUME NEW S, NEW s \in Seq(S), NEW n \in 1..Len(s)
    PROVE  /\ SubSeq(s, n + 1, Len(s)) \in Seq(S) /\ Len(s) \in Nat
           /\ Len(SubSeq(s, n + 1, Len(s))) = Len(s) - n
           /\ DOMAIN s = 1..Len(s) /\ DOMAIN SubSeq(s, n + 1, Len(s)) = 1..(Len(s) - n)
           /\ \A i \in 1..(Len(s) - n) : SubSeq(s, n + 1, Len(s))[i] = s[i + n]
           /\ \A e \in Range(s) : e \in Range(SubSeq(s, n + 1, Len(s)))
                                  \/ \E i \in 1..n : e = s[i]
           /\ Range(SubSeq(s, n + 1, Len(s))) \subseteq Range(s)
<1> DEFINE rest == SubSeq(s, n + 1, Len(s))
<1>1. Len(s) \in Nat /\ n \in Nat /\ n <= Len(s) /\ DOMAIN s = 1..Len(s)
    OBVIOUS
<1>2. /\ \A i \in (n + 1)..Len(s) : s[i] \in S
      /\ n + 1 \in Int /\ Len(s) \in Int
    BY <1>1
<1>3. /\ rest \in Seq(S)
      /\ Len(rest) = IF n + 1 <= Len(s) THEN Len(s) - (n + 1) + 1 ELSE 0
      /\ \A i \in 1..(Len(s) - (n + 1) + 1) : rest[i] = s[(n + 1) + i - 1]
    BY <1>1, <1>2, SubSeqProperties
<1> HIDE DEF rest
<1>4. Len(rest) = Len(s) - n
  <2>1. CASE n < Len(s)
    <3>1. n + 1 <= Len(s)
        BY <1>1, <2>1
    <3>2. Len(rest) = Len(s) - (n + 1) + 1
        BY <1>3, <3>1
    <3> QED BY <1>1, <3>2
  <2>2. CASE n = Len(s)
    <3>1. ~(n + 1 <= Len(s)) /\ n - n = 0
        BY <1>1, <2>2
    <3>2. Len(rest) = 0
        BY <1>3, <3>1
    <3> QED BY <2>2, <3>1, <3>2
  <2>3. n < Len(s) \/ n = Len(s)
    <3>1. \A k, l \in Nat : k <= l => k < l \/ k = l
        OBVIOUS
    <3> QED BY <1>1, <3>1, Zenon
  <2> QED BY <2>1, <2>2, <2>3
<1>5. DOMAIN rest = 1..(Len(s) - n)
  <2>1. DOMAIN rest = 1..Len(rest)
      BY <1>3
  <2> QED BY <1>4, <2>1
<1>6. \A i \in 1..(Len(s) - n) : rest[i] = s[i + n]
  <2> SUFFICES ASSUME NEW i \in 1..(Len(s) - n) PROVE rest[i] = s[i + n]
      OBVIOUS
  <2>1. i \in 1..(Len(s) - (n + 1) + 1) /\ (n + 1) + i - 1 = i + n
      BY <1>1
  <2> QED BY <1>3, <2>1
<1>7. ASSUME NEW e \in Range(s) PROVE e \in Range(rest) \/ \E i \in 1..n : e = s[i]
  <2>1. PICK j \in 1..Len(s) : e = s[j]
      BY <1>1, <1>7 DEF Range
  <2>2. CASE j <= n
      BY <1>1, <2>1, <2>2
  <2>3. CASE j > n
    <3>1. j - n \in 1..(Len(s) - n) /\ (j - n) + n = j
        BY <1>1, <2>3
    <3> QED BY <1>5, <1>6, <2>1, <3>1 DEF Range
  <2> QED BY <1>1, <2>2, <2>3
<1>8. ASSUME NEW e \in Range(rest) PROVE e \in Range(s)
  <2>1. PICK j \in 1..(Len(s) - n) : e = rest[j]
      BY <1>5, <1>8 DEF Range
  <2>2. j + n \in 1..Len(s)
      BY <1>1
  <2> QED BY <1>1, <1>6, <2>1, <2>2 DEF Range
<1> QED BY <1>1, <1>3, <1>4, <1>5, <1>6, <1>7, <1>8 DEF rest

(* Head and Tail.                                                          *)
LEMMA TailFacts ==
    ASSUME NEW S, NEW s \in Seq(S), s # <<>>
    PROVE  /\ Head(s) \in S /\ Head(s) = s[1] /\ 1 \in DOMAIN s
           /\ Tail(s) \in Seq(S) /\ Len(s) \in Nat /\ Len(Tail(s)) = Len(s) - 1
           /\ DOMAIN Tail(s) = 1..(Len(s) - 1) /\ DOMAIN s = 1..Len(s)
           /\ \A i \in 1..(Len(s) - 1) : Tail(s)[i] = s[i + 1]
           /\ Range(s) = Range(Tail(s)) \cup {Head(s)}
<1>1. /\ Len(s) \in Nat /\ Len(s) > 0 /\ DOMAIN s = 1..Len(s)
      /\ Head(s) \in S /\ Head(s) = s[1] /\ Tail(s) \in Seq(S)
    OBVIOUS
<1>2. /\ Len(Tail(s)) = Len(s) - 1 /\ DOMAIN Tail(s) = 1..(Len(s) - 1)
      /\ \A i \in 1..(Len(s) - 1) : Tail(s)[i] = s[i + 1]
    BY <1>1
<1>3. 1 \in 1..Len(s)
    BY <1>1
<1>4. ASSUME NEW i \in 1..Len(s), i # 1 PROVE s[i] \in Range(Tail(s))
  <2>1. i - 1 \in 1..(Len(s) - 1) /\ (i - 1) + 1 = i
      BY <1>1, <1>4
  <2> QED BY <1>2, <2>1 DEF Range
<1>5. ASSUME NEW i \in 1..(Len(s) - 1) PROVE Tail(s)[i] \in Range(s)
  <2>1. i + 1 \in 1..Len(s)
      BY <1>1
  <2> QED BY <1>1, <1>2, <2>1 DEF Range
<1>6. Range(s) \subseteq Range(Tail(s)) \cup {Head(s)}
    BY <1>1, <1>4 DEF Range
<1>7. Range(Tail(s)) \cup {Head(s)} \subseteq Range(s)
    BY <1>1, <1>2, <1>3, <1>5 DEF Range
<1> QED BY <1>1, <1>2, <1>3, <1>6, <1>7

-----------------------------------------------------------------------------
(* Types.                                                                  *)

Gone(r) == session[Session[r]] = "gone"

(* A request that no longer needs anyone to answer it.                     *)
Settled(r) == Told(r) \/ r \in refused \/ Gone(r)

(* What respond does: it adds at most its own frame, and settles it.       *)
LEMMA RespondFacts ==
    ASSUME TypeOK, NEW f \in Frames, NEW r \in Requests, f.of = r, Respond(f),
           session' = session
    PROVE  /\ queue' \in [Sessions -> 0..QueueSize]
           /\ told \subseteq told' /\ told' \subseteq told \cup {f}
           /\ refused \subseteq refused' /\ refused' \subseteq refused \cup {r}
           /\ Settled(r)'
<1> USE GatewayAssumption DEF TypeOK, Settled, Told, Gone
<1>1. CASE Accept(f)
  <2>1. queue[Session[r]] \in 0..QueueSize /\ queue[Session[r]] # QueueSize
      BY <1>1 DEF Accept, Full
  <2>2. queue[Session[r]] + 1 \in 0..QueueSize
      BY <2>1
  <2> QED BY <1>1, <2>2 DEF Accept
<1>2. CASE Ended(f)
    BY <1>2 DEF Ended
<1>3. CASE refused' = refused \cup {f.of} /\ UNCHANGED <<queue, told>>
    BY <1>3
<1> QED BY <1>1, <1>2, <1>3 DEF Respond

LEMMA FrameFacts ==
    ASSUME NEW kind \in {"result", "failed", "timeout", "disconnected"}, NEW r \in Requests
    PROVE  /\ Frame(kind, r) \in Frames
           /\ Frame(kind, r).of = r /\ Frame(kind, r).kind = kind
BY DEF Frame, Frames

(* Take empties the table of R and owes each of R a frame.                 *)
LEMMA TakeFacts ==
    ASSUME TypeOK, NEW t \in Takers, NEW R \in SUBSET pending, Take(t, R)
    PROVE  /\ pending' = pending \ R /\ owed[t] = <<>>
           /\ owed' \in [Takers -> Seq(Frames)]
           /\ \A u \in Takers : u # t => owed'[u] = owed[u]
           /\ \A r \in R : \E f \in Range(owed'[t]) : f.of = r
           /\ \A f \in Range(owed'[t]) : f.of \in R /\ f.kind = Verdict(t)
<1>1. PICK order \in [1..Cardinality(R) -> R] :
          /\ Range(order) = R
          /\ owed' = [owed EXCEPT ![t] = [i \in DOMAIN order |-> Frame(Verdict(t), order[i])]]
    BY DEF Take
<1> DEFINE row == [i \in 1..Cardinality(R) |-> Frame(Verdict(t), order[i])]
<1>2. R \subseteq Requests /\ owed \in [Takers -> Seq(Frames)]
    BY DEF TypeOK
<1>3. IsFiniteSet(R) /\ Cardinality(R) \in Nat
    BY <1>2, GatewayAssumption, FS_Subset, FS_CardinalityType
<1>4. Verdict(t) \in {"result", "failed", "timeout", "disconnected"}
    BY DEF Verdict
<1>5. \A i \in 1..Cardinality(R) :
          /\ row[i] \in Frames /\ row[i].of = order[i] /\ row[i].kind = Verdict(t)
    BY <1>1, <1>2, <1>4, FrameFacts
<1>6. row \in Seq(Frames) /\ DOMAIN row = 1..Cardinality(R)
  <2>1. row \in [1..Cardinality(R) -> Frames]
      BY <1>5
  <2> QED BY <1>3, <2>1, SeqDef
<1>7. owed' = [owed EXCEPT ![t] = row] /\ DOMAIN order = 1..Cardinality(R)
    BY <1>1
<1> HIDE DEF row
<1>8. owed'[t] = row
    BY <1>2, <1>7
<1>9. \A r \in R : \E f \in Range(row) : f.of = r
    BY <1>1, <1>5, <1>6, <1>7 DEF Range
<1>10. \A f \in Range(row) : f.of \in R /\ f.kind = Verdict(t)
    BY <1>1, <1>5, <1>6 DEF Range
<1> QED BY <1>2, <1>6, <1>7, <1>8, <1>9, <1>10 DEF Take, Idle

(* The goroutines of the requests and of the clients.                      *)
LEMMA CallType ==
    ASSUME TypeOK, NEW r \in Requests, handleMessages(r) \/ Goroutine(r)
    PROVE  TypeOK'
<1> USE DEF TypeOK, calls, clients, process, reader, Goto
<1>1. CASE handleMessages(r)
    BY <1>1 DEF handleMessages
<1>2. CASE GetWriter(r) \/ WriteFails(r)
    BY <1>2 DEF GetWriter, WriteFails
<1>3. CASE WritePayload(r)
  <2>1. stdin' \in Seq(Requests \cup {Newline})
      BY <1>3, AppendFacts DEF WritePayload, Put
  <2>2. overlapped' \subseteq Requests
      BY <1>3 DEF WritePayload
  <2> QED BY <1>3, <2>1, <2>2 DEF WritePayload, Put
<1>4. CASE WriteNewline(r)
  <2>1. stdin' \in Seq(Requests \cup {Newline})
      BY <1>4, AppendFacts DEF WriteNewline, Put
  <2> QED BY <1>4, <2>1 DEF WriteNewline, Put
<1>5. CASE TellFailed(r)
  <2>1. Frame("failed", r) \in Frames /\ Frame("failed", r).of = r
      BY FrameFacts
  <2>2. /\ queue' \in [Sessions -> 0..QueueSize] /\ told' \subseteq Frames
        /\ refused' \subseteq Requests
      BY <1>5, <2>1, RespondFacts DEF TellFailed
  <2> QED BY <1>5, <2>2 DEF TellFailed
<1>6. CASE dropPending(r)
    BY <1>6 DEF dropPending
<1> QED BY <1>1, <1>2, <1>3, <1>4, <1>5, <1>6 DEF Goroutine

(* The upstream process and the clients.                                   *)
LEMMA OutsideType ==
    ASSUME TypeOK,
           \/ \E s \in Sessions : Disconnect(s) \/ WriteFrame(s)
           \/ \E r \in Requests : Answer(r)
           \/ ReadLine \/ Notify \/ Die
    PROVE  TypeOK'
<1> USE DEF TypeOK, calls, clients, process, reader
<1>1. ASSUME NEW s \in Sessions, Disconnect(s) PROVE TypeOK'
    BY <1>1 DEF Disconnect
<1>2. ASSUME NEW s \in Sessions, WriteFrame(s) PROVE TypeOK'
  <2>1. queue[s] - 1 \in 0..QueueSize
      BY <1>2, GatewayAssumption DEF WriteFrame
  <2> QED BY <1>2, <2>1 DEF WriteFrame
<1>3. ASSUME NEW r \in Requests, Answer(r) PROVE TypeOK'
  <2>1. /\ Append(stdout, r) \in Seq(Requests \cup {Long, Note})
        /\ Append(stdout, Long) \in Seq(Requests \cup {Long, Note})
      BY AppendFacts
  <2>2. answered' \subseteq Requests /\ stdout' \in Seq(Requests \cup {Long, Note})
      BY <1>3, <2>1 DEF Answer, Emit
  <2> QED BY <1>3, <2>2 DEF Answer
<1>4. CASE ReadLine
  <2>1. PICK n \in DOMAIN stdin :
            /\ stdin[n] = Newline /\ \A k \in 1..(n - 1) : stdin[k] # Newline
            /\ asked' = IF n = 2 THEN asked \cup {stdin[1]} ELSE asked
            /\ stdin' = SubSeq(stdin, n + 1, Len(stdin))
      BY <1>4 DEF ReadLine
  <2>2. n \in 1..Len(stdin) /\ stdin \in Seq(Requests \cup {Newline})
      BY <2>1
  <2>3. stdin' \in Seq(Requests \cup {Newline})
      BY <2>1, <2>2, RestFacts
  <2>4. n = 2 => stdin[1] \in Requests
    <3>1. n = 2 => 1 \in 1..Len(stdin) /\ 1 \in 1..(n - 1)
        BY <2>2
    <3> QED BY <2>1, <2>2, <3>1
  <2>5. asked' \subseteq Requests
      BY <2>1, <2>4
  <2> QED BY <1>4, <2>3, <2>5 DEF ReadLine
<1>5. CASE Notify
  <2>1. stdout' \in Seq(Requests \cup {Long, Note})
      BY <1>5, AppendFacts DEF Notify, Emit
  <2>2. notes + 1 \in 0..MaxNotes
      BY <1>5, GatewayAssumption DEF Notify
  <2> QED BY <1>5, <2>1, <2>2 DEF Notify
<1>6. CASE Die
  <2>1. <<>> \in Seq(Requests \cup {Newline})
      OBVIOUS
  <2> QED BY <1>6, <2>1 DEF Die
<1> QED BY <1>1, <1>2, <1>3, <1>4, <1>5, <1>6

(* The goroutines of the upstream connection, and the sweeper.             *)
LEMMA ConnectionType ==
    ASSUME TypeOK, Scan \/ Supervisor \/ reapPending \/ RespondNext("sweeper")
    PROVE  TypeOK'
<1> USE DEF TypeOK, calls, clients, process, reader
<1>1. CASE Scan
  <2>1. ASSUME stdout # <<>>, Head(stdout) # Long, Len(lines) < LineSize,
               lines' = Append(lines, Head(stdout)), stdout' = Tail(stdout), UNCHANGED scan
        PROVE  TypeOK'
    <3>1. Head(stdout) \in Requests \cup {Long, Note} /\ stdout' \in Seq(Requests \cup {Long, Note})
        BY <2>1, TailFacts
    <3>2. Head(stdout) \in Requests \cup {Note}
        BY <2>1, <3>1
    <3>3. /\ lines' \in Seq(Requests \cup {Note}) /\ Len(lines) \in Nat
          /\ Len(lines') = Len(lines) + 1
        BY <2>1, <3>2, AppendFacts
    <3>4. Len(lines') <= LineSize
        BY <2>1, <3>3, GatewayAssumption
    <3> QED BY <1>1, <2>1, <3>1, <3>3, <3>4 DEF Scan
  <2>2. ASSUME scan' \in {"cut", "closed"}, UNCHANGED <<stdout, lines>> PROVE TypeOK'
      BY <1>1, <2>2 DEF Scan
  <2> QED BY <1>1, <2>1, <2>2 DEF Scan
<1>2. CASE HandleLine
  <2>1. lines \in Seq(Requests \cup {Note}) /\ lines # <<>>
      BY <1>2 DEF HandleLine
  <2>2. /\ lines' \in Seq(Requests \cup {Note}) /\ Len(lines) \in Nat
        /\ Len(lines') = Len(lines) - 1
      BY <1>2, <2>1, TailFacts DEF HandleLine
  <2>3. Len(lines') <= LineSize
      BY <2>2, GatewayAssumption
  <2>4. queue' \in [Sessions -> 0..QueueSize]
    <3>1. CASE Broadcast
      <4>1. \A s \in Sessions : ~Full(s) => queue[s] + 1 \in 0..QueueSize
          BY GatewayAssumption DEF Full
      <4> QED BY <3>1, <4>1 DEF Broadcast
    <3> QED BY <1>2, <3>1 DEF HandleLine
  <2>5. owed' \in [Takers -> Seq(Frames)]
    <3>1. ASSUME NEW l \in pending, owed' = [owed EXCEPT !["supervisor"] = <<Frame("result", l)>>]
          PROVE  owed' \in [Takers -> Seq(Frames)]
      <4>1. Frame("result", l) \in Frames
          BY FrameFacts
      <4>2. <<Frame("result", l)>> \in Seq(Frames)
          BY <4>1
      <4> QED BY <3>1, <4>2
    <3> QED BY <1>2, <3>1 DEF HandleLine
  <2>6. pending' \subseteq Requests
      BY <1>2 DEF HandleLine
  <2> QED BY <1>2, <2>2, <2>3, <2>4, <2>5, <2>6 DEF HandleLine
<1>3. CASE Start
    BY <1>3 DEF Start
<1>4. CASE RunReturns
    BY <1>4 DEF RunReturns
<1>5. CASE CloseUpstream
  <2>1. <<>> \in Seq(Requests \cup {Newline})
      OBVIOUS
  <2> QED BY <1>5, <2>1 DEF CloseUpstream
<1>6. CASE ClearWriter
    BY <1>6 DEF ClearWriter
<1>7. CASE failPendingUpstreamDown
  <2>1. pending' \subseteq Requests /\ owed' \in [Takers -> Seq(Frames)]
      BY <1>7, TakeFacts DEF failPendingUpstreamDown, Takers
  <2> QED BY <1>7, <2>1 DEF failPendingUpstreamDown
<1>8. CASE reapPending
  <2>1. pending' \subseteq Requests /\ owed' \in [Takers -> Seq(Frames)]
      BY <1>8, TakeFacts DEF reapPending, Takers
  <2> QED BY <1>8, <2>1 DEF reapPending
<1>9. ASSUME NEW t \in Takers, RespondNext(t) PROVE TypeOK'
  <2>1. owed[t] \in Seq(Frames) /\ owed[t] # <<>>
      BY <1>9 DEF RespondNext, Idle
  <2>2. Head(owed[t]) \in Frames /\ Tail(owed[t]) \in Seq(Frames)
      BY <2>1, TailFacts
  <2>3. Head(owed[t]).of \in Requests
      BY <2>2 DEF Frames
  <2>4. /\ queue' \in [Sessions -> 0..QueueSize] /\ told' \subseteq Frames
        /\ refused' \subseteq Requests
      BY <1>9, <2>2, <2>3, RespondFacts DEF RespondNext
  <2>5. owed' \in [Takers -> Seq(Frames)]
      BY <1>9, <2>2 DEF RespondNext
  <2> QED BY <1>9, <2>4, <2>5 DEF RespondNext
<1> QED BY <1>1, <1>2, <1>3, <1>4, <1>5, <1>6, <1>7, <1>8, <1>9 DEF Supervisor, Takers

LEMMA TypeInit == Init => TypeOK
<1> SUFFICES ASSUME Init PROVE TypeOK
    OBVIOUS
<1>1. 0 \in 0..QueueSize /\ 0 \in 0..MaxNotes /\ 0 <= LineSize
    BY GatewayAssumption
<1>2. /\ <<>> \in Seq(Frames) /\ <<>> \in Seq(Requests \cup {Newline})
      /\ <<>> \in Seq(Requests \cup {Long, Note}) /\ <<>> \in Seq(Requests \cup {Note})
      /\ Len(<<>>) = 0
    OBVIOUS
<1> QED BY <1>1, <1>2 DEF Init, TypeOK

LEMMA TypeNext == TypeOK /\ [Next]_vars => TypeOK'
<1> SUFFICES ASSUME TypeOK, [Next]_vars PROVE TypeOK'
    OBVIOUS
<1>1. CASE UNCHANGED vars
    BY <1>1 DEF vars, TypeOK
<1>2. CASE Next
    BY <1>2, CallType, OutsideType, ConnectionType DEF Next
<1> QED BY <1>1, <1>2

(* Every queue, table and sequence holds only what it is meant to, and no  *)
(* session's queue and not the channel of lines grows past its capacity.   *)
THEOREM TypeCorrect == Spec => []TypeOK
<1>1. Init => TypeOK
    BY TypeInit
<1>2. TypeOK /\ [Next]_vars => TypeOK'
    BY TypeNext
<1> QED BY <1>1, <1>2, PTL DEF Spec

-----------------------------------------------------------------------------
(* The invariant.                                                          *)

Owed(r) == \E t \in Takers : \E f \in Range(owed[t]) : f.of = r

Ending == {"returned", "closed", "cleared", "failed"}

(* The life of the connection: who runs when, and what is left by then.    *)
LifeInv ==
    /\ alive => sup \in {"running", "returned"}
    /\ ~alive => stdin = <<>> /\ asked = {}
    /\ writing => sup # "dial"
    /\ scan = "on" => sup = "running"
    /\ scan = "closed" => stdout = <<>> /\ ~alive
    /\ sup \in Ending \cup {"dial"} => lines = <<>>
    /\ sup = "dial" => scan = "closed"

(* A request that has entered the table stays owned until it is settled.   *)
OwnedInv ==
    \A r \in Requests :
        /\ pc[r] # "new" => r \in pending \/ Owed(r) \/ Settled(r)
        /\ pc[r] \in {"drop", "done"} => Settled(r)

(* The stdin: two payloads without a newline between them are of requests  *)
(* that overlapped, and a payload at the end waits for its own newline.    *)
StdinInv ==
    /\ \A e \in Range(stdin) : e # Newline => pc[e] \in {"newline", "sent"}
    /\ \A i, j \in DOMAIN stdin :
          i < j /\ (\A k \in i..j : stdin[k] # Newline)
             => stdin[i] \in overlapped /\ stdin[j] \in overlapped
    /\ \A i \in DOMAIN stdin :
          (\A k \in i..Len(stdin) : stdin[k] # Newline) => pc[stdin[i]] = "newline"
    /\ \A i, j \in DOMAIN stdin :
          i < j /\ stdin[i] # Newline /\ stdin[j] = Newline /\ pc[stdin[i]] = "newline"
             => stdin[i] \in overlapped

(* A half written request overlapped, or its payload is still in stdin.    *)
HalfInv ==
    /\ \A q, r \in Requests :
          q # r /\ pc[q] = "newline" /\ pc[r] = "newline" => r \in overlapped
    /\ \A r \in Requests :
          /\ pc[r] = "newline" /\ alive => r \in overlapped \/ r \in Range(stdin)
          /\ pc[r] \in {"payload", "newline", "sent"} => sup # "dial"

(* A request in the table that was written is at the upstream, or its loss *)
(* is still to be told.                                                    *)
SentInv ==
    \A r \in Requests :
        r \in pending /\ pc[r] = "sent" => Upstream(r) \/ LossToCome \/ r \in overlapped

(* While the scanner has not given up, the line of an answered request is  *)
(* on its way, or the request has left the table.                          *)
AnsweredInv ==
    /\ \A r \in answered \cup asked : pc[r] # "new"
    /\ scan # "cut" =>
          \A r \in answered : r \in Range(stdout) \cup Range(lines) \/ r \notin pending

(* "Disconnected" is said at the very end, and never of an answered one.   *)
DownInv ==
    /\ \A f \in Range(owed["sweeper"]) : f.kind # "disconnected"
    /\ \A f \in told \cup Range(owed["supervisor"]) :
          f.kind = "disconnected" =>
              sup = "failed" /\ (scan # "cut" => f.of \notin answered)

Inv ==
    /\ TypeOK /\ LifeInv /\ OwnedInv /\ StdinInv /\ HalfInv
    /\ SentInv /\ AnsweredInv /\ DownInv

-----------------------------------------------------------------------------
(* The steps.  Those of clients, of the table and of who answers leave the *)
(* upstream's connection alone.                                            *)

TableStep ==
    \/ \E s \in Sessions : Disconnect(s) \/ WriteFrame(s)
    \/ \E r \in Requests :
          handleMessages(r) \/ GetWriter(r) \/ WriteFails(r) \/ TellFailed(r) \/ dropPending(r)
    \/ reapPending
    \/ \E t \in Takers : RespondNext(t)

ConnectionStep ==
    \/ \E r \in Requests : WritePayload(r) \/ WriteNewline(r) \/ Answer(r)
    \/ ReadLine \/ Notify \/ Die
    \/ Scan \/ HandleLine \/ Start \/ RunReturns \/ CloseUpstream \/ ClearWriter
    \/ failPendingUpstreamDown

LEMMA StepCases ==
    ASSUME Next
    PROVE  TableStep \/ ConnectionStep
BY DEF Next, Goroutine, Supervisor, TableStep, ConnectionStep, Takers

(* In a step of TableStep no goroutine comes to a write or leaves one to a *)
(* living process, and only a new request enters the table.                *)
LEMMA TableFacts ==
    ASSUME TypeOK, TableStep
    PROVE  /\ UNCHANGED <<overlapped, sup, writing, alive, stdin, asked, notes, answered,
                          stdout, scan, lines>>
           /\ \A r \in Requests :
                 /\ pc'[r] \in {"newline", "sent"} => pc'[r] = pc[r]
                 /\ pc'[r] = "payload" => pc[r] = "payload" \/ writing
                 /\ pc[r] = "sent" \/ (pc[r] = "newline" /\ alive) => pc'[r] = pc[r]
                 /\ pc[r] # "new" => pc'[r] # "new"
                 /\ r \in pending' => r \in pending \/ (pc[r] = "new" /\ pc'[r] = "get")
<1> USE DEF TypeOK, calls, clients, process, reader, Goto
<1>1. ASSUME NEW s \in Sessions, Disconnect(s) \/ WriteFrame(s)
      PROVE  UNCHANGED <<calls, owed, sup, writing, process, reader>>
    BY <1>1 DEF Disconnect, WriteFrame
<1>2. ASSUME NEW r \in Requests, handleMessages(r)
      PROVE  /\ UNCHANGED <<overlapped, sup, writing, process, reader>>
             /\ pc[r] = "new" /\ pending' = pending \cup {r}
             /\ pc' = [pc EXCEPT ![r] = "get"]
    BY <1>2 DEF handleMessages
<1>3. ASSUME NEW r \in Requests, GetWriter(r)
      PROVE  /\ UNCHANGED <<pending, overlapped, sup, writing, process, reader>>
             /\ pc[r] = "get" /\ pc' = [pc EXCEPT ![r] = IF writing THEN "payload" ELSE "failed"]
    BY <1>3 DEF GetWriter
<1>4. ASSUME NEW r \in Requests, WriteFails(r)
      PROVE  /\ UNCHANGED <<pending, overlapped, sup, writing, process, reader>>
             /\ ~alive /\ pc[r] \in {"payload", "newline"} /\ pc' = [pc EXCEPT ![r] = "failed"]
    BY <1>4 DEF WriteFails
<1>5. ASSUME NEW r \in Requests, TellFailed(r)
      PROVE  /\ UNCHANGED <<pending, overlapped, sup, writing, process, reader>>
             /\ pc[r] = "failed" /\ pc' = [pc EXCEPT ![r] = "drop"]
    BY <1>5 DEF TellFailed
<1>6. ASSUME NEW r \in Requests, dropPending(r)
      PROVE  /\ UNCHANGED <<overlapped, sup, writing, process, reader>>
             /\ pending' \subseteq pending
             /\ pc[r] = "drop" /\ pc' = [pc EXCEPT ![r] = "done"]
    BY <1>6 DEF dropPending
<1>7. ASSUME reapPending
      PROVE  /\ UNCHANGED <<pc, overlapped, sup, writing, process, reader>>
             /\ pending' \subseteq pending
    BY <1>7 DEF reapPending, Take
<1>8. ASSUME NEW t \in Takers, RespondNext(t)
      PROVE  UNCHANGED <<calls, sup, writing, process, reader>>
    BY <1>8 DEF RespondNext
<1> QED BY <1>1, <1>2, <1>3, <1>4, <1>5, <1>6, <1>7, <1>8 DEF TableStep

(* What is settled stays settled.                                          *)
LEMMA SettledStays ==
    ASSUME TypeOK, Next, NEW r \in Requests, Settled(r)
    PROVE  Settled(r)'
<1> USE DEF Settled, Told, Gone, calls, clients, process, reader
<1>1. told \subseteq told' /\ refused \subseteq refused' /\ (Gone(r) => Gone(r)')
      => Settled(r)'
    OBVIOUS
<1>2. CASE ConnectionStep
  <2>1. UNCHANGED <<told, refused, session>>
      BY <1>2 DEF ConnectionStep, WritePayload, WriteNewline, Answer, ReadLine, Notify, Die,
                  Scan, HandleLine, Start, RunReturns, CloseUpstream, ClearWriter,
                  failPendingUpstreamDown
  <2> QED BY <1>1, <2>1
<1>3. ASSUME NEW q \in Requests, TellFailed(q) PROVE Settled(r)'
  <2>1. Frame("failed", q) \in Frames /\ Frame("failed", q).of = q
      BY FrameFacts
  <2> QED BY <1>1, <1>3, <2>1, RespondFacts DEF TellFailed
<1>4. ASSUME NEW t \in Takers, RespondNext(t) PROVE Settled(r)'
  <2>1. owed[t] \in Seq(Frames) /\ owed[t] # <<>>
      BY <1>4 DEF RespondNext, Idle, TypeOK
  <2>2. Head(owed[t]) \in Frames
      BY <2>1, TailFacts
  <2>3. Head(owed[t]).of \in Requests
      BY <2>2 DEF Frames
  <2> QED BY <1>1, <1>4, <2>2, <2>3, RespondFacts DEF RespondNext
<1>5. ASSUME NEW s \in Sessions, Disconnect(s) PROVE Settled(r)'
  <2>1. Session[r] \in Sessions
      BY GatewayAssumption
  <2> QED BY <1>1, <1>5, <2>1 DEF Disconnect, TypeOK
<1>6. ASSUME NEW s \in Sessions, WriteFrame(s) PROVE Settled(r)'
    BY <1>1, <1>6 DEF WriteFrame
<1>7. ASSUME NEW q \in Requests,
             handleMessages(q) \/ GetWriter(q) \/ WriteFails(q) \/ dropPending(q)
      PROVE  Settled(r)'
    BY <1>1, <1>7 DEF handleMessages, GetWriter, WriteFails, dropPending
<1>8. CASE reapPending
    BY <1>1, <1>8 DEF reapPending
<1> QED BY <1>2, <1>3, <1>4, <1>5, <1>6, <1>7, <1>8, StepCases DEF TableStep

-----------------------------------------------------------------------------
(* The life of the connection.                                             *)

LEMMA LifeNext ==
    ASSUME TypeOK, LifeInv, Next
    PROVE  LifeInv'
<1> USE DEF LifeInv, Ending, calls, clients, process, reader
<1>1. CASE TableStep
    BY <1>1, TableFacts
<1>2. ASSUME NEW r \in Requests, WritePayload(r) \/ WriteNewline(r) PROVE LifeInv'
    BY <1>2 DEF WritePayload, WriteNewline, Put
<1>3. ASSUME NEW r \in Requests, Answer(r) PROVE LifeInv'
    BY <1>3 DEF Answer
<1>4. CASE ReadLine
    BY <1>4 DEF ReadLine
<1>5. CASE Notify
    BY <1>5 DEF Notify
<1>6. CASE Die
    BY <1>6 DEF Die
<1>7. CASE Scan
    BY <1>7 DEF Scan
<1>8. CASE HandleLine
    BY <1>8 DEF HandleLine
<1>9. CASE Start
    BY <1>9 DEF Start
<1>10. CASE RunReturns
    BY <1>10 DEF RunReturns
<1>11. CASE CloseUpstream
    BY <1>11 DEF CloseUpstream
<1>12. CASE ClearWriter
    BY <1>12 DEF ClearWriter
<1>13. CASE failPendingUpstreamDown
    BY <1>13 DEF failPendingUpstreamDown
<1> QED BY <1>1, <1>2, <1>3, <1>4, <1>5, <1>6, <1>7, <1>8, <1>9, <1>10, <1>11, <1>12,
           <1>13, StepCases DEF ConnectionStep

-----------------------------------------------------------------------------
(* The stdin.                                                              *)

LEMMA PayloadStdin ==
    ASSUME TypeOK, StdinInv, HalfInv, NEW r \in Requests, WritePayload(r)
    PROVE  StdinInv' /\ HalfInv'
<1> DEFINE n == Len(stdin)
           half == {q \in Requests : pc[q] = "newline"}
<1>1. /\ pc[r] = "payload" /\ alive /\ stdin' = Append(stdin, r)
      /\ pc' = [pc EXCEPT ![r] = "newline"]
      /\ overlapped' = IF half = {} THEN overlapped ELSE overlapped \cup half \cup {r}
      /\ UNCHANGED <<sup, alive>>
    BY DEF WritePayload, Put, Goto
<1>2. /\ stdin \in Seq(Requests \cup {Newline}) /\ r \in Requests \cup {Newline}
      /\ pc \in [Requests -> {"new", "get", "payload", "newline", "sent", "failed", "drop", "done"}]
      /\ r # Newline
    BY GatewayAssumption DEF TypeOK, Newline
<1>3. /\ n \in Nat /\ Len(stdin') = n + 1
      /\ DOMAIN stdin = 1..n /\ DOMAIN stdin' = 1..(n + 1)
      /\ \A i \in 1..n : stdin'[i] = stdin[i]
      /\ stdin'[n + 1] = r
      /\ Range(stdin') = Range(stdin) \cup {r}
    BY <1>1, <1>2, AppendFacts
<1>4. \A i \in 1..n : stdin[i] \in Range(stdin) /\ stdin[i] \in Requests \cup {Newline}
    BY <1>2, <1>3 DEF Range
<1>5. \A e \in Range(stdin) : e # Newline => e # r /\ e \in Requests
  <2>1. \A e \in Range(stdin) : e # Newline => e \in Requests
      BY <1>3, <1>4 DEF Range
  <2>2. \A e \in Range(stdin) : e # Newline => e # r
      BY <1>1 DEF StdinInv
  <2> QED BY <2>1, <2>2
<1>6. \A e \in Range(stdin') : e # Newline => pc'[e] \in {"newline", "sent"}
    BY <1>1, <1>2, <1>3, <1>5 DEF StdinInv
<1>7. ASSUME NEW i \in DOMAIN stdin', NEW j \in DOMAIN stdin', i < j,
             \A k \in i..j : stdin'[k] # Newline
      PROVE  stdin'[i] \in overlapped' /\ stdin'[j] \in overlapped'
  <2>1. i \in 1..n
      BY <1>3, <1>7
  <2>2. CASE j \in 1..n
    <3>1. \A k \in i..j : stdin[k] # Newline
        BY <1>3, <1>7, <2>1, <2>2
    <3>2. stdin[i] \in overlapped /\ stdin[j] \in overlapped
        BY <1>3, <1>7, <2>1, <2>2, <3>1 DEF StdinInv
    <3> QED BY <1>1, <1>3, <2>1, <2>2, <3>2
  <2>3. CASE j = n + 1
    <3>1. \A k \in i..n : stdin[k] # Newline
        BY <1>3, <1>7, <2>1, <2>3
    <3>2. pc[stdin[i]] = "newline"
        BY <1>3, <2>1, <3>1 DEF StdinInv
    <3>3. stdin[i] # Newline
        BY <1>3, <2>1, <3>1
    <3>4. stdin[i] \in half
        BY <1>4, <2>1, <3>2, <3>3
    <3> QED BY <1>1, <1>3, <2>1, <2>3, <3>4
  <2> QED BY <1>3, <2>2, <2>3
<1>8. ASSUME NEW i \in DOMAIN stdin', \A k \in i..Len(stdin') : stdin'[k] # Newline
      PROVE  pc'[stdin'[i]] = "newline"
  <2>1. CASE i \in 1..n
    <3>1. \A k \in i..n : stdin[k] # Newline
        BY <1>3, <1>8, <2>1
    <3>2. pc[stdin[i]] = "newline" /\ stdin[i] # Newline
        BY <1>3, <2>1, <3>1 DEF StdinInv
    <3> QED BY <1>1, <1>2, <1>3, <1>4, <2>1, <3>2
  <2>2. CASE i = n + 1
      BY <1>1, <1>2, <1>3, <2>2
  <2> QED BY <1>3, <2>1, <2>2
<1>9. ASSUME NEW i \in DOMAIN stdin', NEW j \in DOMAIN stdin', i < j,
             stdin'[i] # Newline, stdin'[j] = Newline, pc'[stdin'[i]] = "newline"
      PROVE  stdin'[i] \in overlapped'
  <2>1. i \in 1..n /\ j \in 1..n
      BY <1>2, <1>3, <1>9
  <2>2. stdin[i] \in Requests /\ stdin[i] # r /\ stdin[j] = Newline
      BY <1>3, <1>4, <1>5, <1>9, <2>1
  <2>3. pc[stdin[i]] = "newline"
      BY <1>1, <1>2, <1>3, <1>9, <2>1, <2>2
  <2>4. stdin[i] \in overlapped
      BY <1>2, <1>3, <1>9, <2>1, <2>2, <2>3 DEF StdinInv
  <2> QED BY <1>1, <1>3, <2>1, <2>4
<1>10. StdinInv'
    BY <1>6, <1>7, <1>8, <1>9 DEF StdinInv
<1>11. HalfInv'
  <2>1. ASSUME NEW p \in Requests, NEW q \in Requests, p # q,
               pc'[p] = "newline", pc'[q] = "newline"
        PROVE  q \in overlapped'
      BY <1>1, <1>2, <2>1 DEF HalfInv
  <2>2. ASSUME NEW q \in Requests, pc'[q] = "newline"
        PROVE  q \in overlapped' \/ q \in Range(stdin')
      BY <1>1, <1>2, <1>3, <2>2 DEF HalfInv
  <2>3. ASSUME NEW q \in Requests, pc'[q] \in {"payload", "newline", "sent"}
        PROVE  sup' # "dial"
      BY <1>1, <1>2, <2>3 DEF HalfInv
  <2> QED BY <2>1, <2>2, <2>3 DEF HalfInv
<1> QED BY <1>10, <1>11

LEMMA NewlineStdin ==
    ASSUME TypeOK, StdinInv, HalfInv, NEW r \in Requests, WriteNewline(r)
    PROVE  StdinInv' /\ HalfInv'
<1> DEFINE n == Len(stdin)
<1>1. /\ pc[r] = "newline" /\ alive /\ stdin' = Append(stdin, Newline)
      /\ pc' = [pc EXCEPT ![r] = "sent"]
      /\ UNCHANGED <<sup, alive, overlapped>>
    BY DEF WriteNewline, Put, Goto
<1>2. /\ stdin \in Seq(Requests \cup {Newline})
      /\ pc \in [Requests -> {"new", "get", "payload", "newline", "sent", "failed", "drop", "done"}]
    BY DEF TypeOK
<1>3. /\ n \in Nat /\ Len(stdin') = n + 1
      /\ DOMAIN stdin = 1..n /\ DOMAIN stdin' = 1..(n + 1)
      /\ \A i \in 1..n : stdin'[i] = stdin[i]
      /\ stdin'[n + 1] = Newline
      /\ Range(stdin') = Range(stdin) \cup {Newline}
    BY <1>1, <1>2, AppendFacts
<1>4. \A i \in 1..n : stdin[i] # Newline => stdin[i] \in Requests
    BY <1>2, <1>3
<1>5. \A e \in Range(stdin) : e # Newline => e \in Requests
    BY <1>3, <1>4 DEF Range
<1>6. \A e \in Range(stdin') : e # Newline => pc'[e] \in {"newline", "sent"}
    BY <1>1, <1>2, <1>3, <1>5 DEF StdinInv
<1>7. ASSUME NEW i \in DOMAIN stdin', NEW j \in DOMAIN stdin', i < j,
             \A k \in i..j : stdin'[k] # Newline
      PROVE  stdin'[i] \in overlapped' /\ stdin'[j] \in overlapped'
  <2>1. i \in 1..n /\ j \in 1..n
      BY <1>3, <1>7
  <2>2. \A k \in i..j : stdin[k] # Newline
      BY <1>3, <1>7, <2>1
  <2>3. stdin[i] \in overlapped /\ stdin[j] \in overlapped
      BY <1>3, <1>7, <2>1, <2>2 DEF StdinInv
  <2> QED BY <1>1, <1>3, <2>1, <2>3
<1>8. ASSUME NEW i \in DOMAIN stdin', \A k \in i..Len(stdin') : stdin'[k] # Newline
      PROVE  FALSE
  <2>1. n + 1 \in i..Len(stdin')
      BY <1>3
  <2> QED BY <1>3, <1>8, <2>1
<1>9. ASSUME NEW i \in DOMAIN stdin', NEW j \in DOMAIN stdin', i < j,
             stdin'[i] # Newline, stdin'[j] = Newline, pc'[stdin'[i]] = "newline"
      PROVE  stdin'[i] \in overlapped'
  <2>1. i \in 1..n
      BY <1>3, <1>9
  <2>2. stdin[i] \in Requests /\ stdin[i] # r /\ pc[stdin[i]] = "newline"
      BY <1>1, <1>2, <1>3, <1>4, <1>9, <2>1
  <2>3. stdin[i] \in overlapped
      BY <1>1, <2>2 DEF HalfInv
  <2> QED BY <1>1, <1>3, <2>1, <2>3
<1>10. StdinInv'
    BY <1>6, <1>7, <1>8, <1>9 DEF StdinInv
<1>11. HalfInv'
    BY <1>1, <1>2, <1>3 DEF HalfInv
<1> QED BY <1>10, <1>11

LEMMA ReadStdin ==
    ASSUME TypeOK, StdinInv, HalfInv, ReadLine
    PROVE  StdinInv' /\ HalfInv'
<1>1. PICK n \in DOMAIN stdin :
          /\ stdin[n] = Newline /\ \A k \in 1..(n - 1) : stdin[k] # Newline
          /\ stdin' = SubSeq(stdin, n + 1, Len(stdin))
    BY DEF ReadLine
<1>2. /\ UNCHANGED <<pc, overlapped, alive, sup>>
      /\ stdin \in Seq(Requests \cup {Newline})
      /\ Requests \cap {Newline} = {}
    BY GatewayAssumption DEF ReadLine, calls, TypeOK, Newline
<1>3. n \in 1..Len(stdin)
    BY <1>2
<1>4. /\ Len(stdin) \in Nat /\ Len(stdin') = Len(stdin) - n
      /\ DOMAIN stdin = 1..Len(stdin) /\ DOMAIN stdin' = 1..(Len(stdin) - n)
      /\ \A i \in 1..(Len(stdin) - n) : stdin'[i] = stdin[i + n]
      /\ \A e \in Range(stdin) : e \in Range(stdin') \/ \E i \in 1..n : e = stdin[i]
      /\ Range(stdin') \subseteq Range(stdin)
    BY <1>1, <1>2, <1>3, RestFacts
<1>5. \A i \in DOMAIN stdin' : i + n \in DOMAIN stdin /\ stdin'[i] = stdin[i + n]
    BY <1>3, <1>4
<1>6. \A e \in Range(stdin') : e # Newline => pc'[e] \in {"newline", "sent"}
    BY <1>2, <1>4 DEF StdinInv
<1>7. ASSUME NEW i \in DOMAIN stdin', NEW j \in DOMAIN stdin', i < j,
             \A k \in i..j : stdin'[k] # Newline
      PROVE  stdin'[i] \in overlapped' /\ stdin'[j] \in overlapped'
  <2>1. ASSUME NEW k \in (i + n)..(j + n) PROVE stdin[k] # Newline
    <3>1. k - n \in i..j /\ k - n \in 1..(Len(stdin) - n) /\ (k - n) + n = k
        BY <1>3, <1>4
    <3>2. stdin'[k - n] # Newline /\ stdin'[k - n] = stdin[k]
        BY <1>4, <1>7, <3>1
    <3> QED BY <3>2
  <2>2. i + n < j + n
      BY <1>3, <1>4, <1>7
  <2>3. stdin[i + n] \in overlapped /\ stdin[j + n] \in overlapped
      BY <1>5, <2>1, <2>2 DEF StdinInv
  <2> QED BY <1>2, <1>5, <2>3
<1>8. ASSUME NEW i \in DOMAIN stdin', \A k \in i..Len(stdin') : stdin'[k] # Newline
      PROVE  pc'[stdin'[i]] = "newline"
  <2>1. ASSUME NEW k \in (i + n)..Len(stdin) PROVE stdin[k] # Newline
    <3>1. /\ k - n \in i..Len(stdin') /\ k - n \in 1..(Len(stdin) - n)
          /\ (k - n) + n = k
        BY <1>3, <1>4
    <3>2. stdin'[k - n] # Newline /\ stdin'[k - n] = stdin[k]
        BY <1>4, <1>8, <3>1
    <3> QED BY <3>2
  <2>2. pc[stdin[i + n]] = "newline"
      BY <1>5, <2>1 DEF StdinInv
  <2> QED BY <1>2, <1>5, <2>2
<1>9. ASSUME NEW i \in DOMAIN stdin', NEW j \in DOMAIN stdin', i < j,
             stdin'[i] # Newline, stdin'[j] = Newline, pc'[stdin'[i]] = "newline"
      PROVE  stdin'[i] \in overlapped'
  <2>1. i + n < j + n
      BY <1>3, <1>4, <1>9
  <2>2. stdin[i + n] \in overlapped
      BY <1>2, <1>5, <1>9, <2>1 DEF StdinInv
  <2> QED BY <1>2, <1>5, <2>2
<1>10. StdinInv'
    BY <1>6, <1>7, <1>8, <1>9 DEF StdinInv
<1>11. ASSUME NEW r \in Requests, pc[r] = "newline", alive, r \notin Range(stdin')
       PROVE  r \in overlapped
  <2>1. CASE r \in Range(stdin)
    <3>1. PICK i \in 1..n : r = stdin[i]
        BY <1>4, <1>11, <2>1
    <3>2. stdin[i] # Newline
        BY <1>2, <3>1
    <3>3. i \in DOMAIN stdin /\ i < n
        BY <1>1, <1>3, <1>4, <3>2
    <3> QED BY <1>1, <1>11, <3>1, <3>2, <3>3 DEF StdinInv
  <2> QED BY <1>11, <2>1 DEF HalfInv
<1>12. HalfInv'
    BY <1>2, <1>11 DEF HalfInv
<1> QED BY <1>10, <1>12

LEMMA StdinNext ==
    ASSUME TypeOK, LifeInv, StdinInv, HalfInv, Next
    PROVE  StdinInv' /\ HalfInv'
<1>1. CASE TableStep
  <2>1. /\ UNCHANGED <<overlapped, sup, alive, stdin>>
        /\ \A r \in Requests :
              /\ pc'[r] \in {"newline", "sent"} => pc'[r] = pc[r]
              /\ pc'[r] = "payload" => pc[r] = "payload" \/ writing
              /\ pc[r] = "sent" \/ (pc[r] = "newline" /\ alive) => pc'[r] = pc[r]
      BY <1>1, TableFacts
  <2>2. stdin \in Seq(Requests \cup {Newline}) /\ DOMAIN stdin = 1..Len(stdin)
      BY DEF TypeOK
  <2>3. \A i \in DOMAIN stdin : stdin[i] # Newline => stdin[i] \in Requests
      BY <2>2
  <2>4. \A i \in DOMAIN stdin : stdin[i] # Newline => pc'[stdin[i]] = pc[stdin[i]]
    <3> SUFFICES ASSUME NEW i \in DOMAIN stdin, stdin[i] # Newline
                 PROVE  pc'[stdin[i]] = pc[stdin[i]]
        OBVIOUS
    <3>1. alive
        BY DEF LifeInv
    <3>2. pc[stdin[i]] \in {"newline", "sent"}
        BY DEF StdinInv, Range
    <3> QED BY <2>1, <2>3, <3>1, <3>2
  <2>5. StdinInv'
    <3>1. \A e \in Range(stdin) : e # Newline => pc'[e] \in {"newline", "sent"}
        BY <2>4 DEF StdinInv, Range
    <3>2. ASSUME NEW i \in DOMAIN stdin, \A k \in i..Len(stdin) : stdin[k] # Newline
          PROVE  pc'[stdin[i]] = "newline"
      <4>1. pc[stdin[i]] = "newline"
          BY <3>2 DEF StdinInv
      <4>2. stdin[i] # Newline
        <5>1. i \in i..Len(stdin)
            BY <2>2
        <5> QED BY <3>2, <5>1
      <4> QED BY <2>4, <4>1, <4>2
    <3>3. ASSUME NEW i \in DOMAIN stdin, NEW j \in DOMAIN stdin, i < j,
                 stdin[i] # Newline, stdin[j] = Newline, pc'[stdin[i]] = "newline"
          PROVE  stdin[i] \in overlapped
        BY <2>4, <3>3 DEF StdinInv
    <3>4. \A i, j \in DOMAIN stdin :
              i < j /\ (\A k \in i..j : stdin[k] # Newline)
                  => stdin[i] \in overlapped /\ stdin[j] \in overlapped
        BY DEF StdinInv
    <3> QED BY <2>1, <3>1, <3>2, <3>3, <3>4 DEF StdinInv
  <2>6. HalfInv'
      BY <2>1 DEF HalfInv, LifeInv
  <2> QED BY <2>5, <2>6
<1>2. ASSUME NEW r \in Requests, WritePayload(r) PROVE StdinInv' /\ HalfInv'
    BY <1>2, PayloadStdin
<1>3. ASSUME NEW r \in Requests, WriteNewline(r) PROVE StdinInv' /\ HalfInv'
    BY <1>3, NewlineStdin
<1>4. CASE ReadLine
    BY <1>4, ReadStdin
<1>5. CASE Die \/ CloseUpstream
  <2>1. /\ stdin' = <<>> /\ ~alive' /\ UNCHANGED <<pc, overlapped>>
        /\ sup' = "dial" => sup = "dial"
      BY <1>5 DEF Die, CloseUpstream, calls
  <2>2. DOMAIN stdin' = {} /\ Range(stdin') = {}
      BY <2>1 DEF Range
  <2>3. StdinInv'
      BY <2>2 DEF StdinInv
  <2>4. HalfInv'
      BY <2>1 DEF HalfInv
  <2> QED BY <2>3, <2>4
<1>6. CASE Start
  <2>1. UNCHANGED <<stdin, pc, overlapped>> /\ sup = "dial" /\ sup' = "running"
      BY <1>6 DEF Start, calls
  <2>2. StdinInv'
      BY <2>1 DEF StdinInv
  <2>3. HalfInv'
      BY <2>1 DEF HalfInv
  <2> QED BY <2>2, <2>3
<1>7. ASSUME \/ \E r \in Requests : Answer(r)
             \/ Notify \/ Scan \/ HandleLine \/ RunReturns \/ ClearWriter
             \/ failPendingUpstreamDown
      PROVE  StdinInv' /\ HalfInv'
  <2>1. UNCHANGED <<stdin, pc, overlapped, alive>> /\ (sup' = "dial" => sup = "dial")
      BY <1>7 DEF Answer, Notify, Scan, HandleLine, RunReturns, ClearWriter,
                  failPendingUpstreamDown, calls, process
  <2>2. StdinInv'
      BY <2>1 DEF StdinInv
  <2>3. HalfInv'
      BY <2>1 DEF HalfInv
  <2> QED BY <2>2, <2>3
<1> QED BY <1>1, <1>2, <1>3, <1>4, <1>5, <1>6, <1>7, StepCases DEF ConnectionStep

-----------------------------------------------------------------------------
(* Written requests.                                                       *)

(* A read line becomes a request of the upstream, or was of requests that  *)
(* overlapped.                                                             *)
LEMMA ReadSent ==
    ASSUME TypeOK, StdinInv, ReadLine, NEW r \in Requests, r \in Range(stdin)
    PROVE  r \in Range(stdin') \/ r \in asked' \/ r \in overlapped
<1>1. PICK n \in DOMAIN stdin :
          /\ stdin[n] = Newline /\ \A k \in 1..(n - 1) : stdin[k] # Newline
          /\ asked' = IF n = 2 THEN asked \cup {stdin[1]} ELSE asked
          /\ stdin' = SubSeq(stdin, n + 1, Len(stdin))
    BY DEF ReadLine
<1>2. stdin \in Seq(Requests \cup {Newline}) /\ r # Newline
    BY GatewayAssumption DEF TypeOK, Newline
<1>3. n \in 1..Len(stdin) /\ DOMAIN stdin = 1..Len(stdin) /\ Len(stdin) \in Nat
    BY <1>2
<1>4. r \in Range(stdin') \/ \E i \in 1..n : r = stdin[i]
  <2>1. \A e \in Range(stdin) : e \in Range(SubSeq(stdin, n + 1, Len(stdin)))
                                 \/ \E i \in 1..n : e = stdin[i]
      BY <1>2, <1>3, RestFacts
  <2> QED BY <1>1, <2>1
<1>5. ASSUME NEW i \in 1..n, r = stdin[i] PROVE r \in asked' \/ r \in overlapped
  <2>1. i \in 1..(n - 1)
      BY <1>1, <1>2, <1>3, <1>5
  <2>2. CASE n = 2
    <3>1. i = 1
        BY <2>1, <2>2
    <3> QED BY <1>1, <1>5, <2>2, <3>1
  <2>3. CASE n > 2 /\ i = 1
    <3>1. 1 \in DOMAIN stdin /\ 2 \in DOMAIN stdin /\ \A k \in 1..2 : k \in 1..(n - 1)
        BY <1>3, <2>3
    <3>2. stdin[1] \in overlapped
        BY <1>1, <3>1 DEF StdinInv
    <3> QED BY <1>5, <2>3, <3>2
  <2>4. CASE n > 2 /\ i > 1
    <3>1. /\ 1 \in DOMAIN stdin /\ i \in DOMAIN stdin
          /\ \A k \in 1..i : k \in 1..(n - 1)
        BY <1>3, <2>1, <2>4
    <3>2. stdin[i] \in overlapped
        BY <1>1, <2>4, <3>1 DEF StdinInv
    <3> QED BY <1>5, <3>2
  <2> QED BY <1>3, <2>1, <2>2, <2>3, <2>4
<1> QED BY <1>4, <1>5

LEMMA SentNext ==
    ASSUME TypeOK, LifeInv, StdinInv, HalfInv, SentInv, Next
    PROVE  SentInv'
<1> SUFFICES ASSUME NEW r \in Requests, r \in pending', pc'[r] = "sent"
             PROVE  Upstream(r)' \/ LossToCome' \/ r \in overlapped'
    BY DEF SentInv
<1> USE DEF calls, clients, process, reader
<1>1. CASE TableStep
  <2>1. UNCHANGED <<overlapped, sup, alive, stdin, asked, stdout, scan, lines>>
      BY <1>1, TableFacts
  <2>2. r \in pending /\ pc[r] = "sent"
      BY <1>1, TableFacts
  <2>3. Upstream(r) \/ LossToCome \/ r \in overlapped
      BY <2>2 DEF SentInv
  <2> QED BY <2>1, <2>3 DEF Upstream, LossToCome
<1>2. ASSUME NEW q \in Requests, WriteNewline(q)
      PROVE  Upstream(r)' \/ LossToCome' \/ r \in overlapped'
  <2>1. /\ stdin' = Append(stdin, Newline) /\ alive /\ pc[q] = "newline"
        /\ pc' = [pc EXCEPT ![q] = "sent"]
        /\ UNCHANGED <<pending, overlapped, sup, alive, asked, stdout, scan, lines>>
      BY <1>2 DEF WriteNewline, Put, Goto
  <2>2. stdin \in Seq(Requests \cup {Newline})
      BY DEF TypeOK
  <2>3. Range(stdin') = Range(stdin) \cup {Newline}
      BY <2>1, <2>2, AppendFacts
  <2>4. CASE r = q
    <3>1. r \in overlapped \/ r \in Range(stdin)
        BY <2>1, <2>4 DEF HalfInv
    <3> QED BY <2>1, <2>3, <3>1 DEF Upstream
  <2>5. CASE r # q
    <3>1. r \in pending /\ pc[r] = "sent"
        BY <2>1, <2>5 DEF TypeOK
    <3>2. Upstream(r) \/ LossToCome \/ r \in overlapped
        BY <3>1 DEF SentInv
    <3> QED BY <2>1, <2>3, <3>2 DEF Upstream, LossToCome
  <2> QED BY <2>4, <2>5
<1>3. ASSUME NEW q \in Requests, WritePayload(q)
      PROVE  Upstream(r)' \/ LossToCome' \/ r \in overlapped'
  <2>1. /\ stdin' = Append(stdin, q)
        /\ pc' = [pc EXCEPT ![q] = "newline"]
        /\ overlapped \subseteq overlapped'
        /\ UNCHANGED <<pending, sup, alive, asked, stdout, scan, lines>>
      BY <1>3 DEF WritePayload, Put, Goto
  <2>2. stdin \in Seq(Requests \cup {Newline})
      BY DEF TypeOK
  <2>3. Range(stdin') = Range(stdin) \cup {q}
      BY <2>1, <2>2, AppendFacts
  <2>4. r \in pending /\ pc[r] = "sent"
      BY <2>1 DEF TypeOK
  <2>5. Upstream(r) \/ LossToCome \/ r \in overlapped
      BY <2>4 DEF SentInv
  <2> QED BY <2>1, <2>3, <2>5 DEF Upstream, LossToCome
<1>4. ASSUME ConnectionStep,
             \A q \in Requests : ~WritePayload(q) /\ ~WriteNewline(q)
      PROVE  Upstream(r)' \/ LossToCome' \/ r \in overlapped'
  <2>1. UNCHANGED <<pc, overlapped>> /\ pending' \subseteq pending
      BY <1>4 DEF ConnectionStep, Answer, ReadLine, Notify, Die, Scan, HandleLine, Start,
                  RunReturns, CloseUpstream, ClearWriter, failPendingUpstreamDown, Take
  <2>2. r \in pending /\ pc[r] = "sent"
      BY <2>1
  <2>3. Upstream(r) \/ LossToCome \/ r \in overlapped
      BY <2>2 DEF SentInv
  <2>4. stdout \in Seq(Requests \cup {Long, Note}) /\ lines \in Seq(Requests \cup {Note})
      BY DEF TypeOK
  <2>5. r # Long /\ r # Note
      BY GatewayAssumption DEF Long, Note
  <2>6. sup # "dial"
      BY <2>2 DEF HalfInv
  <2>7. ASSUME NEW q \in Requests, Answer(q) PROVE Upstream(r)' \/ LossToCome'
                                                   \/ r \in overlapped'
    <3>1. alive /\ sup \in {"running", "returned"} /\ UNCHANGED <<sup, alive, scan, stdin, lines>>
        BY <2>7 DEF Answer, LifeInv
    <3>2. asked' = asked \ {q}
        BY <2>7 DEF Answer
    <3>3. CASE stdout' = Append(stdout, q)
      <4>1. Range(stdout') = Range(stdout) \cup {q}
          BY <2>4, <3>3, AppendFacts
      <4> QED BY <2>1, <2>3, <3>1, <3>2, <4>1 DEF Upstream, LossToCome
    <3>4. CASE stdout' = Append(stdout, Long)
      <4>1. Range(stdout') = Range(stdout) \cup {Long}
          BY <2>4, <3>4, AppendFacts
      <4> QED BY <3>1, <4>1 DEF LossToCome
    <3> QED BY <2>7, <3>3, <3>4 DEF Answer, Emit
  <2>8. CASE ReadLine
    <3>1. UNCHANGED <<sup, alive, scan, stdout, lines>> /\ asked \subseteq asked'
        BY <2>8 DEF ReadLine
    <3>2. r \in Range(stdin) => r \in Range(stdin') \/ r \in asked' \/ r \in overlapped
        BY <2>8, ReadSent
    <3> QED BY <2>1, <2>3, <3>1, <3>2 DEF Upstream, LossToCome
  <2>9. CASE Notify
    <3>1. /\ UNCHANGED <<sup, alive, scan, stdin, asked, lines>>
          /\ stdout' = Append(stdout, Note)
        BY <2>9 DEF Notify, Emit
    <3>2. Range(stdout') = Range(stdout) \cup {Note}
        BY <2>4, <3>1, AppendFacts
    <3> QED BY <2>1, <2>3, <3>1, <3>2 DEF Upstream, LossToCome
  <2>10. CASE Die
    <3>1. ~alive' /\ sup' \in {"running", "returned"}
        BY <2>10 DEF Die, LifeInv
    <3> QED BY <3>1 DEF LossToCome
  <2>11. CASE Scan
    <3>1. scan = "on" /\ sup' = "running" /\ UNCHANGED <<sup, alive, stdin, asked>>
        BY <2>11 DEF Scan, LifeInv
    <3>2. CASE scan' # "on"
        BY <3>1, <3>2 DEF LossToCome
    <3>3. CASE scan' = "on"
      <4>1. /\ stdout # <<>> /\ Head(stdout) # Long /\ stdout' = Tail(stdout)
            /\ lines' = Append(lines, Head(stdout))
          BY <2>11, <3>3 DEF Scan
      <4>2. /\ Range(stdout) = Range(stdout') \cup {Head(stdout)}
            /\ Head(stdout) \in Requests \cup {Note}
          BY <2>4, <4>1, TailFacts
      <4>3. Range(lines') = Range(lines) \cup {Head(stdout)}
          BY <2>4, <4>1, <4>2, AppendFacts
      <4> QED BY <2>1, <2>3, <3>1, <3>3, <4>1, <4>2, <4>3 DEF Upstream, LossToCome
    <3> QED BY <3>2, <3>3
  <2>12. CASE HandleLine
    <3>1. /\ lines # <<>> /\ lines' = Tail(lines)
          /\ UNCHANGED <<sup, alive, scan, stdin, asked, stdout>>
        BY <2>12 DEF HandleLine
    <3>2. Range(lines) = Range(lines') \cup {Head(lines)}
        BY <2>4, <3>1, TailFacts
    <3>3. r # Head(lines)
        BY <2>2, <2>5, <2>12 DEF HandleLine
    <3> QED BY <2>1, <2>3, <3>1, <3>2, <3>3 DEF Upstream, LossToCome
  <2>13. CASE Start
      BY <2>6, <2>13 DEF Start
  <2>14. CASE RunReturns
      BY <2>14 DEF RunReturns, LossToCome
  <2>15. CASE CloseUpstream
      BY <2>15 DEF CloseUpstream, LossToCome
  <2>16. CASE ClearWriter
    <3>1. ~alive /\ ~alive' /\ sup' = "cleared"
        BY <2>16 DEF ClearWriter, LifeInv
    <3> QED BY <3>1 DEF LossToCome
  <2>17. CASE failPendingUpstreamDown
      BY <2>17 DEF failPendingUpstreamDown, Take
  <2> QED BY <1>4, <2>7, <2>8, <2>9, <2>10, <2>11, <2>12, <2>13, <2>14, <2>15, <2>16, <2>17
          DEF ConnectionStep
<1> QED BY <1>1, <1>2, <1>3, <1>4, StepCases

-----------------------------------------------------------------------------
(* Answered requests.                                                      *)

LEMMA AnsweredNext ==
    ASSUME TypeOK, LifeInv, StdinInv, AnsweredInv, Next
    PROVE  AnsweredInv'
<1> USE DEF calls, clients, process, reader
<1>1. CASE TableStep
  <2>1. UNCHANGED <<answered, asked, stdout, scan, lines>>
      BY <1>1, TableFacts
  <2>2. \A r \in Requests : /\ pc[r] # "new" => pc'[r] # "new"
                            /\ r \in pending' => r \in pending \/ pc[r] = "new"
      BY <1>1, TableFacts
  <2>3. answered \subseteq Requests /\ asked \subseteq Requests
      BY DEF TypeOK
  <2> QED BY <2>1, <2>2, <2>3 DEF AnsweredInv
<1>2. ASSUME ConnectionStep PROVE AnsweredInv'
  <2>1. /\ pending' \subseteq pending
        /\ \A r \in Requests : pc[r] # "new" => pc'[r] # "new"
      BY <1>2 DEF ConnectionStep, WritePayload, WriteNewline, Goto, TypeOK, Answer, ReadLine,
                  Notify, Die, Scan, HandleLine, Start, RunReturns, CloseUpstream,
                  ClearWriter, failPendingUpstreamDown, Take
  <2>2. /\ stdout \in Seq(Requests \cup {Long, Note}) /\ lines \in Seq(Requests \cup {Note})
        /\ answered \subseteq Requests /\ asked \subseteq Requests
        /\ answered' \subseteq Requests /\ asked' \subseteq Requests
      BY TypeNext DEF TypeOK
  <2>3. Requests \cap {Newline, Long, Note} = {}
      BY GatewayAssumption DEF Newline, Long, Note
  <2>4. SUFFICES
            ASSUME NEW r \in answered' \cup asked'
            PROVE  /\ pc[r] # "new"
                   /\ scan' # "cut" /\ r \in answered' =>
                         r \in Range(stdout') \cup Range(lines') \/ r \notin pending'
      BY <2>1, <2>2 DEF AnsweredInv
  <2> DEFINE Claim ==
          /\ pc[r] # "new"
          /\ scan' # "cut" /\ r \in answered' =>
                r \in Range(stdout') \cup Range(lines') \/ r \notin pending'
  <2>5. ASSUME NEW q \in Requests, WritePayload(q) \/ WriteNewline(q) PROVE Claim
    <3>1. UNCHANGED <<answered, asked, stdout, scan, lines>>
        BY <2>5 DEF WritePayload, WriteNewline, Put
    <3> QED BY <2>1, <3>1 DEF AnsweredInv
  <2>6. ASSUME NEW q \in Requests, Answer(q) PROVE Claim
    <3>1. UNCHANGED <<scan, lines>> /\ asked' \subseteq asked /\ q \in asked
        BY <2>6 DEF Answer
    <3>2. CASE stdout' = Append(stdout, q) /\ answered' = answered \cup {q}
      <4>1. Range(stdout') = Range(stdout) \cup {q}
          BY <2>2, <3>2, AppendFacts
      <4> QED BY <2>1, <3>1, <3>2, <4>1 DEF AnsweredInv
    <3>3. CASE stdout' = Append(stdout, Long) /\ answered' = answered
      <4>1. Range(stdout') = Range(stdout) \cup {Long}
          BY <2>2, <3>3, AppendFacts
      <4> QED BY <2>1, <3>1, <3>3, <4>1 DEF AnsweredInv
    <3> QED BY <2>6, <3>2, <3>3 DEF Answer, Emit
  <2>7. CASE ReadLine
    <3>1. UNCHANGED <<answered, stdout, scan, lines>>
        BY <2>7 DEF ReadLine
    <3>2. PICK n \in DOMAIN stdin :
              /\ stdin[n] = Newline /\ \A k \in 1..(n - 1) : stdin[k] # Newline
              /\ asked' = IF n = 2 THEN asked \cup {stdin[1]} ELSE asked
        BY <2>7 DEF ReadLine
    <3>3. n = 2 => 1 \in DOMAIN stdin /\ 1 \in 1..(n - 1)
        BY DEF TypeOK
    <3>4. n = 2 => pc[stdin[1]] # "new"
        BY <3>2, <3>3 DEF StdinInv, Range
    <3> QED BY <2>1, <3>1, <3>2, <3>4 DEF AnsweredInv
  <2>8. CASE Notify
    <3>1. UNCHANGED <<answered, asked, scan, lines>> /\ stdout' = Append(stdout, Note)
        BY <2>8 DEF Notify, Emit
    <3>2. Range(stdout') = Range(stdout) \cup {Note}
        BY <2>2, <3>1, AppendFacts
    <3> QED BY <2>1, <3>1, <3>2 DEF AnsweredInv
  <2>9. CASE Die \/ CloseUpstream
    <3>1. UNCHANGED <<answered, stdout, scan, lines>> /\ asked' = {}
        BY <2>9 DEF Die, CloseUpstream
    <3> QED BY <2>1, <3>1 DEF AnsweredInv
  <2>10. CASE Scan
    <3>1. UNCHANGED <<answered, asked>> /\ scan = "on"
        BY <2>10 DEF Scan
    <3>2. CASE /\ stdout # <<>> /\ stdout' = Tail(stdout)
               /\ lines' = Append(lines, Head(stdout)) /\ Head(stdout) # Long
      <4>1. /\ Range(stdout) = Range(stdout') \cup {Head(stdout)}
            /\ Head(stdout) \in Requests \cup {Note}
          BY <2>2, <3>2, TailFacts
      <4>2. Range(lines') = Range(lines) \cup {Head(stdout)}
          BY <2>2, <3>2, <4>1, AppendFacts
      <4> QED BY <2>1, <3>1, <4>1, <4>2 DEF AnsweredInv
    <3>3. CASE UNCHANGED <<stdout, lines>>
        BY <2>1, <3>1, <3>3 DEF AnsweredInv
    <3> QED BY <2>10, <3>2, <3>3 DEF Scan
  <2>11. CASE HandleLine
    <3>1. /\ UNCHANGED <<answered, asked, stdout, scan>>
          /\ lines # <<>> /\ lines' = Tail(lines)
        BY <2>11 DEF HandleLine
    <3>2. Range(lines) = Range(lines') \cup {Head(lines)}
        BY <2>2, <3>1, TailFacts
    <3>3. r = Head(lines) => r \notin pending'
        BY <2>2, <2>3, <2>11 DEF HandleLine
    <3> QED BY <2>1, <3>1, <3>2, <3>3 DEF AnsweredInv
  <2>12. CASE Start
    <3>1. UNCHANGED <<answered, asked, stdout, lines>> /\ scan = "closed"
        BY <2>12 DEF Start, LifeInv
    <3> QED BY <2>1, <3>1 DEF AnsweredInv
  <2>13. CASE RunReturns \/ ClearWriter \/ failPendingUpstreamDown
    <3>1. UNCHANGED <<answered, asked, stdout, scan, lines>>
        BY <2>13 DEF RunReturns, ClearWriter, failPendingUpstreamDown
    <3> QED BY <2>1, <3>1 DEF AnsweredInv
  <2> QED
      BY <1>2, <2>5, <2>6, <2>7, <2>8, <2>9, <2>10, <2>11, <2>12, <2>13 DEF ConnectionStep
<1> QED BY <1>1, <1>2, StepCases

-----------------------------------------------------------------------------
(* Owned requests.                                                         *)

(* Steps that take no request out of the table and no frame out of a hand. *)
LEMMA OwnedKept ==
    ASSUME TypeOK, OwnedInv, Next, pending \subseteq pending', UNCHANGED owed,
           \A r \in Requests :
              /\ pc[r] # "new" \/ pc'[r] = "new" \/ r \in pending'
              /\ pc'[r] \in {"drop", "done"} => pc[r] \in {"drop", "done"} \/ Settled(r)'
    PROVE  OwnedInv'
<1>1. \A r \in Requests : Settled(r) => Settled(r)'
    BY SettledStays
<1>2. \A r \in Requests : Owed(r)' <=> Owed(r)
    BY DEF Owed
<1> QED BY <1>1, <1>2 DEF OwnedInv

LEMMA OwnedNext ==
    ASSUME TypeOK, OwnedInv, Next
    PROVE  OwnedInv'
<1> USE DEF calls, clients, process, reader
<1>1. \A r \in Requests : Settled(r) => Settled(r)'
    BY SettledStays
<1>2. owed \in [Takers -> Seq(Frames)] /\ "supervisor" \in Takers /\ "sweeper" \in Takers
    BY DEF TypeOK, Takers
<1>3. ASSUME NEW t \in Takers, NEW R \in SUBSET pending, Take(t, R), UNCHANGED pc
      PROVE  OwnedInv'
  <2>1. /\ pending' = pending \ R /\ owed[t] = <<>>
        /\ \A u \in Takers : u # t => owed'[u] = owed[u]
        /\ \A r \in R : \E f \in Range(owed'[t]) : f.of = r
      BY <1>3, TakeFacts
  <2>2. Range(owed[t]) = {}
      BY <2>1 DEF Range
  <2>3. \A r \in Requests : Owed(r) => Owed(r)'
      BY <2>1, <2>2 DEF Owed
  <2>4. \A r \in R : Owed(r)'
      BY <2>1 DEF Owed
  <2> QED BY <1>1, <1>3, <2>1, <2>3, <2>4 DEF OwnedInv
<1>4. ASSUME NEW r \in Requests, handleMessages(r) PROVE OwnedInv'
  <2>1. /\ pending \subseteq pending' /\ r \in pending' /\ UNCHANGED owed
        /\ pc' = [pc EXCEPT ![r] = "get"]
      BY <1>4 DEF handleMessages
  <2>2. \A q \in Requests : pc'[q] = IF q = r THEN "get" ELSE pc[q]
      BY <2>1 DEF TypeOK
  <2> QED BY <2>1, <2>2, OwnedKept
<1>5. ASSUME NEW r \in Requests,
             GetWriter(r) \/ WriteFails(r) \/ WritePayload(r) \/ WriteNewline(r)
      PROVE  OwnedInv'
  <2>1. /\ UNCHANGED <<pending, owed>> /\ pc[r] # "new"
        /\ \E to \in {"payload", "newline", "sent", "failed"} : pc' = [pc EXCEPT ![r] = to]
      BY <1>5 DEF GetWriter, WriteFails, WritePayload, WriteNewline, Put, Goto
  <2>2. PICK to \in {"payload", "newline", "sent", "failed"} :
            \A q \in Requests : pc'[q] = IF q = r THEN to ELSE pc[q]
      BY <2>1 DEF TypeOK
  <2> QED BY <2>1, <2>2, OwnedKept
<1>6. ASSUME NEW r \in Requests, TellFailed(r) PROVE OwnedInv'
  <2>1. UNCHANGED <<pending, owed>> /\ pc[r] = "failed" /\ pc' = [pc EXCEPT ![r] = "drop"]
      BY <1>6 DEF TellFailed, Goto
  <2>2. \A q \in Requests : pc'[q] = IF q = r THEN "drop" ELSE pc[q]
      BY <2>1 DEF TypeOK
  <2>3. Frame("failed", r) \in Frames /\ Frame("failed", r).of = r
      BY FrameFacts
  <2>4. Settled(r)'
      BY <1>6, <2>3, RespondFacts DEF TellFailed
  <2> QED BY <2>1, <2>2, <2>4, OwnedKept
<1>7. ASSUME NEW r \in Requests, dropPending(r) PROVE OwnedInv'
  <2>1. /\ pending' = pending \ {r} /\ UNCHANGED owed
        /\ pc[r] = "drop" /\ pc' = [pc EXCEPT ![r] = "done"]
      BY <1>7 DEF dropPending, Goto
  <2>2. \A q \in Requests : pc'[q] = IF q = r THEN "done" ELSE pc[q]
      BY <2>1 DEF TypeOK
  <2>3. Settled(r)'
      BY <1>1, <2>1 DEF OwnedInv
  <2>4. \A q \in Requests : Owed(q) => Owed(q)'
      BY <2>1 DEF Owed
  <2> QED BY <1>1, <2>1, <2>2, <2>3, <2>4 DEF OwnedInv
<1>8. CASE HandleLine
  <2>1. UNCHANGED pc /\ owed["supervisor"] = <<>>
      BY <1>8 DEF HandleLine, Idle
  <2>2. CASE UNCHANGED <<pending, owed>>
      BY <2>1, <2>2, OwnedKept
  <2>3. ASSUME NEW l \in pending, pending' = pending \ {l},
               owed' = [owed EXCEPT !["supervisor"] = <<Frame("result", l)>>]
        PROVE  OwnedInv'
    <3>1. l \in Requests /\ Frame("result", l).of = l
        BY FrameFacts DEF TypeOK
    <3>2. Range(<<Frame("result", l)>>) = {Frame("result", l)}
        BY DEF Range
    <3>3. Owed(l)'
        BY <1>2, <2>3, <3>1, <3>2 DEF Owed
    <3>4. Range(owed["supervisor"]) = {}
        BY <2>1 DEF Range
    <3>5. \A u \in Takers : u # "supervisor" => owed'[u] = owed[u]
        BY <1>2, <2>3
    <3>6. \A r \in Requests : Owed(r) => Owed(r)'
        BY <3>4, <3>5 DEF Owed
    <3> QED BY <1>1, <2>1, <2>3, <3>3, <3>6 DEF OwnedInv
  <2> QED BY <1>8, <2>2, <2>3 DEF HandleLine
<1>9. CASE failPendingUpstreamDown
    BY <1>2, <1>3, <1>9 DEF failPendingUpstreamDown
<1>10. CASE reapPending
    BY <1>2, <1>3, <1>10 DEF reapPending
<1>11. ASSUME NEW t \in Takers, RespondNext(t) PROVE OwnedInv'
  <2>1. /\ owed[t] \in Seq(Frames) /\ owed[t] # <<>> /\ UNCHANGED <<pending, pc>>
        /\ owed' = [owed EXCEPT ![t] = Tail(@)]
      BY <1>2, <1>11 DEF RespondNext, Idle
  <2>2. Head(owed[t]) \in Frames /\ Range(owed[t]) = Range(Tail(owed[t])) \cup {Head(owed[t])}
      BY <2>1, TailFacts
  <2>3. Head(owed[t]).of \in Requests
      BY <2>2 DEF Frames
  <2>4. \A r \in Requests : Head(owed[t]).of = r => Settled(r)'
      BY <1>11, <2>2, RespondFacts DEF RespondNext
  <2>5. owed'[t] = Tail(owed[t]) /\ \A u \in Takers : u # t => owed'[u] = owed[u]
      BY <1>2, <2>1
  <2>6. \A r \in Requests : Owed(r) => Owed(r)' \/ Settled(r)'
      BY <2>2, <2>4, <2>5 DEF Owed
  <2> QED BY <1>1, <2>1, <2>6 DEF OwnedInv
<1>12. ASSUME \/ \E s \in Sessions : Disconnect(s) \/ WriteFrame(s)
              \/ \E r \in Requests : Answer(r)
              \/ ReadLine \/ Notify \/ Die
              \/ Scan \/ Start \/ RunReturns \/ CloseUpstream \/ ClearWriter
       PROVE  OwnedInv'
  <2>1. UNCHANGED <<pending, pc, owed>>
      BY <1>12 DEF Disconnect, WriteFrame, Answer, ReadLine, Notify, Die, Scan, Start,
                   RunReturns, CloseUpstream, ClearWriter
  <2> QED BY <2>1, OwnedKept
<1> QED BY <1>4, <1>5, <1>6, <1>7, <1>8, <1>9, <1>10, <1>11, <1>12, StepCases
        DEF TableStep, ConnectionStep

-----------------------------------------------------------------------------
(* What is said when the upstream is down.                                 *)

LEMMA DownNext ==
    ASSUME TypeOK, LifeInv, AnsweredInv, DownInv, Next
    PROVE  DownInv'
<1> USE DEF calls, clients, process, reader
<1>1. owed \in [Takers -> Seq(Frames)] /\ "supervisor" \in Takers /\ "sweeper" \in Takers
    BY DEF TypeOK, Takers
<1>2. ASSUME UNCHANGED <<told, owed>>, sup = "failed" => UNCHANGED <<sup, answered, scan>>
      PROVE  DownInv'
    BY <1>2 DEF DownInv
<1>3. ASSUME NEW r \in Requests, TellFailed(r) PROVE DownInv'
  <2>1. Frame("failed", r) \in Frames /\ Frame("failed", r).of = r
        /\ Frame("failed", r).kind = "failed"
      BY FrameFacts
  <2>2. told' \subseteq told \cup {Frame("failed", r)} /\ UNCHANGED <<owed, sup, answered, scan>>
      BY <1>3, <2>1, RespondFacts DEF TellFailed
  <2> QED BY <2>1, <2>2 DEF DownInv
<1>4. ASSUME NEW t \in Takers, RespondNext(t) PROVE DownInv'
  <2>1. /\ owed[t] \in Seq(Frames) /\ owed[t] # <<>> /\ UNCHANGED <<sup, answered, scan>>
        /\ owed' = [owed EXCEPT ![t] = Tail(@)]
      BY <1>1, <1>4 DEF RespondNext, Idle
  <2>2. Head(owed[t]) \in Frames /\ Range(owed[t]) = Range(Tail(owed[t])) \cup {Head(owed[t])}
      BY <2>1, TailFacts
  <2>3. Head(owed[t]).of \in Requests
      BY <2>2 DEF Frames
  <2>4. told' \subseteq told \cup {Head(owed[t])}
      BY <1>4, <2>2, <2>3, RespondFacts DEF RespondNext
  <2>5. owed'[t] = Tail(owed[t]) /\ \A u \in Takers : u # t => owed'[u] = owed[u]
      BY <1>1, <2>1
  <2>6. \A u \in Takers : Range(owed'[u]) \subseteq Range(owed[u])
      BY <2>2, <2>5
  <2>7. Head(owed[t]) \in Range(owed["sweeper"]) \cup Range(owed["supervisor"])
      BY <2>2 DEF Takers
  <2> QED BY <1>1, <2>1, <2>4, <2>6, <2>7 DEF DownInv
<1>5. CASE reapPending
  <2>1. PICK R \in SUBSET pending : Take("sweeper", R)
      BY <1>5 DEF reapPending
  <2>2. /\ \A u \in Takers : u # "sweeper" => owed'[u] = owed[u]
        /\ \A f \in Range(owed'["sweeper"]) : f.kind = Verdict("sweeper")
      BY <1>1, <2>1, TakeFacts
  <2>3. owed'["supervisor"] = owed["supervisor"]
      BY <1>1, <2>2
  <2>4. UNCHANGED <<told, sup, answered, scan>>
      BY <1>5 DEF reapPending
  <2> QED BY <2>2, <2>3, <2>4 DEF DownInv, Verdict
<1>6. CASE failPendingUpstreamDown
  <2>1. Take("supervisor", pending)
      BY <1>6 DEF failPendingUpstreamDown
  <2>2. /\ \A u \in Takers : u # "supervisor" => owed'[u] = owed[u]
        /\ \A f \in Range(owed'["supervisor"]) : f.of \in pending
      BY <1>1, <2>1, TakeFacts
  <2>3. owed'["sweeper"] = owed["sweeper"]
      BY <1>1, <2>2
  <2>4. /\ sup = "cleared" /\ sup' = "failed"
        /\ UNCHANGED <<told, answered, scan, stdout, lines>>
      BY <1>6 DEF failPendingUpstreamDown
  <2>5. scan # "cut" => scan = "closed"
      BY <2>4 DEF LifeInv, TypeOK
  <2>6. lines = <<>> /\ (scan # "cut" => stdout = <<>>)
      BY <2>4, <2>5 DEF LifeInv, Ending
  <2>7. scan # "cut" => \A r \in answered : r \notin pending
    <3>1. scan # "cut" => Range(stdout) \cup Range(lines) = {}
        BY <2>6 DEF Range
    <3> QED BY <3>1 DEF AnsweredInv
  <2>8. \A f \in told : f.kind # "disconnected"
      BY <2>4 DEF DownInv
  <2> QED BY <2>2, <2>3, <2>4, <2>7, <2>8 DEF DownInv
<1>7. CASE HandleLine
  <2>1. sup = "running" /\ UNCHANGED <<told, sup, answered, scan>>
      BY <1>7 DEF HandleLine
  <2>2. CASE UNCHANGED owed
      BY <1>2, <2>1, <2>2
  <2>3. ASSUME NEW l \in pending,
               owed' = [owed EXCEPT !["supervisor"] = <<Frame("result", l)>>]
        PROVE  DownInv'
    <3>1. Frame("result", l).kind = "result"
        BY FrameFacts DEF TypeOK
    <3>2. Range(<<Frame("result", l)>>) = {Frame("result", l)}
        BY DEF Range
    <3>3. owed'["supervisor"] = <<Frame("result", l)>> /\ owed'["sweeper"] = owed["sweeper"]
        BY <1>1, <2>3
    <3> QED BY <2>1, <3>1, <3>2, <3>3 DEF DownInv
  <2> QED BY <1>7, <2>2, <2>3 DEF HandleLine
<1>8. ASSUME \/ \E s \in Sessions : Disconnect(s) \/ WriteFrame(s)
             \/ \E r \in Requests :
                   \/ handleMessages(r) \/ GetWriter(r) \/ WriteFails(r) \/ dropPending(r)
                   \/ WritePayload(r) \/ WriteNewline(r)
             \/ ReadLine \/ Notify \/ Die
      PROVE  DownInv'
  <2>1. UNCHANGED <<told, owed, sup, answered, scan>>
      BY <1>8 DEF Disconnect, WriteFrame, handleMessages, GetWriter, WriteFails, dropPending,
                  WritePayload, WriteNewline, Put, ReadLine, Notify, Die
  <2> QED BY <1>2, <2>1
<1>9. ASSUME \/ \E r \in Requests : Answer(r)
             \/ Scan \/ Start \/ RunReturns \/ CloseUpstream \/ ClearWriter
      PROVE  DownInv'
  <2>1. UNCHANGED <<told, owed>> /\ sup # "failed"
      BY <1>9 DEF Answer, Scan, Start, RunReturns, CloseUpstream, ClearWriter, LifeInv
  <2> QED BY <1>2, <2>1
<1> QED BY <1>3, <1>4, <1>5, <1>6, <1>7, <1>8, <1>9, StepCases DEF TableStep, ConnectionStep

-----------------------------------------------------------------------------
(* The theorems.                                                           *)

LEMMA InvInit == Init => Inv
<1> SUFFICES ASSUME Init PROVE Inv
    OBVIOUS
<1>1. TypeOK
    BY TypeInit
<1>2. /\ DOMAIN stdin = {} /\ Range(stdin) = {}
      /\ \A t \in Takers : Range(owed[t]) = {}
      /\ "supervisor" \in Takers /\ "sweeper" \in Takers
    BY DEF Init, Range, Takers
<1>3. LifeInv
    BY DEF Init, LifeInv, Ending
<1>4. OwnedInv /\ HalfInv /\ SentInv
    BY DEF Init, OwnedInv, HalfInv, SentInv
<1>5. StdinInv
    BY <1>2 DEF StdinInv
<1>6. AnsweredInv /\ DownInv
    BY <1>2 DEF Init, AnsweredInv, DownInv
<1> QED BY <1>1, <1>3, <1>4, <1>5, <1>6 DEF Inv

LEMMA InvNext == Inv /\ [Next]_vars => Inv'
<1> SUFFICES ASSUME Inv, [Next]_vars PROVE Inv'
    OBVIOUS
<1>1. CASE Next
  <2>1. TypeOK'
      BY TypeNext DEF Inv
  <2>2. LifeInv'
      BY <1>1, LifeNext DEF Inv
  <2>3. OwnedInv'
      BY <1>1, OwnedNext DEF Inv
  <2>4. StdinInv' /\ HalfInv'
      BY <1>1, StdinNext DEF Inv
  <2>5. SentInv'
      BY <1>1, SentNext DEF Inv
  <2>6. AnsweredInv'
      BY <1>1, AnsweredNext DEF Inv
  <2>7. DownInv'
      BY <1>1, DownNext DEF Inv
  <2> QED BY <2>1, <2>2, <2>3, <2>4, <2>5, <2>6, <2>7 DEF Inv
<1>2. CASE UNCHANGED vars
  <2>1. TypeOK'
      BY TypeNext DEF Inv
  <2> QED BY <1>2, <2>1 DEF Inv, vars, LifeInv, Ending, OwnedInv, Owed, Settled, Told, Gone,
                 StdinInv, HalfInv, SentInv, Upstream, LossToCome, AnsweredInv, DownInv
<1> QED BY <1>1, <1>2

LEMMA InvAlways == Spec => []Inv
<1>1. Inv /\ [Next]_vars => Inv'
    BY InvNext
<1> QED BY InvInit, <1>1, PTL DEF Spec

LEMMA InvNoSilentLoss == Inv => NoSilentLoss
<1> SUFFICES ASSUME Inv, NEW r \in Requests, pc[r] # "new", session[Session[r]] = "open"
             PROVE  \/ Told(r) \/ InHand(r) \/ r \in refused
                    \/ r \in pending /\ (Upstream(r) \/ LossToCome \/ r \in overlapped)
    BY DEF NoSilentLoss
<1>1. Settled(r) => Told(r) \/ r \in refused
    BY DEF Settled, Gone
<1>2. Owed(r) => InHand(r)
    BY DEF Owed, InHand, Range
<1>3. CASE pc[r] \in {"get", "payload", "newline", "failed"}
    BY <1>3 DEF InHand
<1>4. CASE pc[r] \in {"drop", "done"}
    BY <1>1, <1>4 DEF Inv, OwnedInv
<1>5. CASE pc[r] = "sent"
  <2>1. r \in pending \/ Owed(r) \/ Settled(r)
      BY DEF Inv, OwnedInv
  <2>2. r \in pending => Upstream(r) \/ LossToCome \/ r \in overlapped
      BY <1>5 DEF Inv, SentInv
  <2> QED BY <1>1, <1>2, <2>1, <2>2
<1> QED BY <1>3, <1>4, <1>5 DEF Inv, TypeOK

LEMMA InvAnswerBeatsDown == Inv => AnswerBeatsDown
<1> SUFFICES ASSUME Inv, scan # "cut", NEW r \in answered
             PROVE  Frame("disconnected", r) \notin told \cup Range(owed["supervisor"])
    BY DEF AnswerBeatsDown
<1>1. Frame("disconnected", r).kind = "disconnected" /\ Frame("disconnected", r).of = r
    BY DEF Frame
<1> QED BY <1>1 DEF Inv, DownInv

(* No request vanishes, whatever the clients read and whenever the         *)
(* upstream dies: it is answered, in someone's hand, on its way with its   *)
(* entry in the table, or lost to its own client's full queue or to a      *)
(* write that overlapped.  For any sessions, requests and capacities.      *)
THEOREM NoSilentLossAlways == Spec => []NoSilentLoss
<1>1. Inv => NoSilentLoss
    BY InvNoSilentLoss
<1> QED BY InvAlways, <1>1, PTL

(* An answer the upstream has written is never replaced by "upstream       *)
(* disconnected" unless the scanner gave up on a line, since Run returns   *)
(* only when the lines are drained and the table is failed after that.     *)
THEOREM AnswerBeatsDownAlways == Spec => []AnswerBeatsDown
<1>1. Inv => AnswerBeatsDown
    BY InvAnswerBeatsDown
<1> QED BY InvAlways, <1>1, PTL

-----------------------------------------------------------------------------
(* The promise.  What makes each call leave the table once: it is in one   *)
(* place at a time, the table, one frame owed, or one frame told.          *)

Kinds == {"result", "timeout", "disconnected"}

OnceInv ==
    /\ \A t \in Takers : \A i \in DOMAIN owed[t] : owed[t][i].kind \in Kinds
    /\ \A t, u \in Takers : \A i \in DOMAIN owed[t], j \in DOMAIN owed[u] :
          owed[t][i].of = owed[u][j].of => t = u /\ i = j
    /\ \A r \in Requests :
          /\ pc[r] = "new" => r \notin pending /\ Held(r) = {} /\ Given(r) = {}
          /\ r \in pending => Held(r) = {} /\ Given(r) = {}
          /\ Held(r) # {} => Given(r) = {}
          /\ \A f, g \in Given(r) : f = g

LEMMA HeldAt ==
    ASSUME NEW r, NEW f
    PROVE  f \in Held(r) <=> \E t \in Takers : \E i \in DOMAIN owed[t] :
                                owed[t][i] = f /\ f.of = r
BY DEF Held, Range

(* Take owes the frames of R, one to each.                                 *)
LEMMA TakeOnce ==
    ASSUME TypeOK, NEW t \in Takers, NEW R \in SUBSET pending, Take(t, R)
    PROVE  /\ Range(owed'[t]) = {Frame(Verdict(t), r) : r \in R}
           /\ \A i, j \in DOMAIN owed'[t] : owed'[t][i].of = owed'[t][j].of => i = j
<1>1. PICK order \in [1..Cardinality(R) -> R] :
          /\ Range(order) = R
          /\ owed' = [owed EXCEPT ![t] = [i \in DOMAIN order |-> Frame(Verdict(t), order[i])]]
    BY DEF Take
<1> DEFINE n == Cardinality(R)
<1>2. IsFiniteSet(R) /\ n \in Nat
    BY GatewayAssumption, FS_Subset, FS_CardinalityType DEF TypeOK
<1>3. IsFiniteSet(1..n) /\ Cardinality(1..n) = n
  <2>1. \A a, b \in Int : /\ IsFiniteSet(a..b)
                          /\ Cardinality(a..b) = IF a > b THEN 0 ELSE b - a + 1
      BY FS_Interval
  <2>2. IsFiniteSet(1..n) /\ Cardinality(1..n) = IF 1 > n THEN 0 ELSE n - 1 + 1
      BY <1>2, <2>1
  <2>3. (IF 1 > n THEN 0 ELSE n - 1 + 1) = n
      BY <1>2
  <2> QED BY <2>2, <2>3
<1>4. order \in Surjection(1..n, R)
    BY <1>1 DEF Surjection, Range
<1>5. order \in Injection(1..n, R)
    BY <1>2, <1>3, <1>4, FS_SurjSameCardinalityImpliesInj
<1>6. \A i, j \in 1..n : order[i] = order[j] => i = j
    BY <1>1, <1>5 DEF Injection, IsInjective
<1>7. owed'[t] = [i \in 1..n |-> Frame(Verdict(t), order[i])]
    BY <1>1 DEF TypeOK
<1>8. DOMAIN owed'[t] = 1..n /\ \A i \in 1..n : owed'[t][i] = Frame(Verdict(t), order[i])
    BY <1>7
<1>9. \A i \in 1..n : owed'[t][i].of = order[i]
  <2>1. \A r : Frame(Verdict(t), r).of = r
      BY DEF Frame
  <2> QED BY <1>8, <2>1
<1>10. Range(owed'[t]) = {Frame(Verdict(t), order[i]) : i \in 1..n}
    BY <1>8 DEF Range
<1>11. R = {order[i] : i \in 1..n}
    BY <1>1 DEF Range
<1>12. Range(owed'[t]) = {Frame(Verdict(t), r) : r \in R}
    BY <1>10, <1>11
<1> QED BY <1>6, <1>8, <1>9, <1>12

(* One event takes a set of calls out of the table and owes each a frame.  *)
LEMMA SettleKeeps ==
    ASSUME TypeOK, OnceInv, NEW t \in Takers, NEW R \in SUBSET pending, NEW v \in Kinds,
           owed[t] = <<>>, pending' = pending \ R, UNCHANGED <<told, pc>>,
           \A u \in Takers : u # t => owed'[u] = owed[u],
           Range(owed'[t]) = {Frame(v, r) : r \in R},
           \A i, j \in DOMAIN owed'[t] : owed'[t][i].of = owed'[t][j].of => i = j
    PROVE  /\ \A r \in R : Held(r)' = {Frame(v, r)}
           /\ \A r \in Requests \ R : Held(r)' = Held(r)
           /\ \A r \in Requests : Given(r)' = Given(r)
           /\ OnceInv'
<1>1. R \subseteq Requests /\ \A r \in R : Frame(v, r).of = r /\ Frame(v, r).kind = v
    BY DEF TypeOK, Frame
<1>2. Range(owed[t]) = {}
    BY DEF Range
<1>3. \A r \in Requests : Held(r) = UNION {{f \in Range(owed[u]) : f.of = r} : u \in Takers \ {t}}
    BY <1>2 DEF Held
<1>4. \A r \in Requests : Held(r)' = Held(r) \cup {f \in Range(owed'[t]) : f.of = r}
    BY <1>3 DEF Held
<1>5. \A r \in R : Held(r)' = {Frame(v, r)}
    BY <1>1, <1>4 DEF OnceInv
<1>6. \A r \in Requests \ R : Held(r)' = Held(r)
  <2> SUFFICES ASSUME NEW r \in Requests \ R PROVE Held(r)' = Held(r)
      OBVIOUS
  <2>1. \A f \in Range(owed'[t]) : f.of \in R
      BY <1>1
  <2>2. {f \in Range(owed'[t]) : f.of = r} = {}
      BY <2>1
  <2>3. Held(r)' = Held(r) \cup {f \in Range(owed'[t]) : f.of = r}
      BY <1>4
  <2> QED BY <2>2, <2>3
<1>7. \A r \in Requests : Given(r)' = Given(r)
    BY DEF Given
<1>8. \A u \in Takers : \A i \in DOMAIN owed'[u] : owed'[u][i].kind \in Kinds
  <2>1. \A i \in DOMAIN owed'[t] : owed'[t][i] \in Range(owed'[t])
      BY DEF Range
  <2>2. \A i \in DOMAIN owed'[t] : owed'[t][i].kind = v
      BY <1>1, <2>1
  <2> QED BY <2>2 DEF OnceInv
<1>9. ASSUME NEW u \in Takers, NEW w \in Takers, NEW i \in DOMAIN owed'[u],
             NEW j \in DOMAIN owed'[w], owed'[u][i].of = owed'[w][j].of
      PROVE  u = w /\ i = j
  <2>1. ASSUME NEW x \in Takers, x # t, NEW k \in DOMAIN owed[x] PROVE owed[x][k].of \notin R
    <3>1. owed[x][k] \in Held(owed[x][k].of)
        BY <2>1 DEF Held, Range
    <3> QED BY <1>1, <3>1 DEF OnceInv
  <2>2. ASSUME NEW k \in DOMAIN owed'[t] PROVE owed'[t][k].of \in R
    <3>1. owed'[t][k] \in Range(owed'[t])
        BY DEF Range
    <3> QED BY <1>1, <3>1
  <2>3. CASE u = t /\ w = t
      BY <1>9, <2>3
  <2>4. CASE u # t /\ w # t
      BY <1>9, <2>4 DEF OnceInv
  <2>5. CASE u = t /\ w # t
      BY <1>9, <2>1, <2>2, <2>5
  <2>6. CASE u # t /\ w = t
      BY <1>9, <2>1, <2>2, <2>6
  <2> QED BY <2>3, <2>4, <2>5, <2>6
<1>10. OnceInv'
    BY <1>1, <1>5, <1>6, <1>7, <1>8, <1>9 DEF OnceInv
<1> QED BY <1>5, <1>6, <1>7, <1>10

(* A frame that is responded with is the only one its request has.         *)
LEMMA DeliverKeeps ==
    ASSUME TypeOK, OnceInv, NEW t \in Takers, RespondNext(t),
           NEW f, NEW r, f = Head(owed[t]), r = f.of
    PROVE  /\ r \in Requests /\ f.kind \in Kinds
           /\ f \in Held(r) /\ Held(r)' = {}
           /\ Given(r) = {} /\ Given(r)' \in {{}, {f}}
           /\ \A q \in Requests : q # r => Held(q)' = Held(q) /\ Given(q)' = Given(q)
           /\ UNCHANGED <<pending, pc>>
           /\ OnceInv'
<1>1. /\ owed[t] \in Seq(Frames) /\ owed[t] # <<>> /\ UNCHANGED <<pending, pc, session>>
      /\ owed' = [owed EXCEPT ![t] = Tail(@)] /\ Respond(f)
      /\ owed \in [Takers -> Seq(Frames)]
    BY DEF RespondNext, Idle, TypeOK, calls
<1>2. /\ f \in Frames /\ f = owed[t][1] /\ 1 \in DOMAIN owed[t] /\ Len(owed[t]) \in Nat
      /\ DOMAIN owed[t] = 1..Len(owed[t]) /\ DOMAIN Tail(owed[t]) = 1..(Len(owed[t]) - 1)
      /\ \A i \in 1..(Len(owed[t]) - 1) : Tail(owed[t])[i] = owed[t][i + 1]
      /\ Range(owed[t]) = Range(Tail(owed[t])) \cup {f}
    BY <1>1, TailFacts
<1>3. r \in Requests /\ f.kind \in Kinds
    BY <1>2 DEF Frames, OnceInv
<1>4. owed'[t] = Tail(owed[t]) /\ \A u \in Takers : u # t => owed'[u] = owed[u]
    BY <1>1
<1>5. f \in Held(r)
    BY <1>2 DEF Held, Range
<1>6. Given(r) = {} /\ r \notin pending
    BY <1>3, <1>5 DEF OnceInv
<1>7. told \subseteq told' /\ told' \subseteq told \cup {f}
    BY <1>1, <1>2, <1>3, RespondFacts
<1>8. Given(r)' \in {{}, {f}}
    BY <1>6, <1>7 DEF Given
<1>9. \A q \in Requests : q # r => Given(q)' = Given(q)
    BY <1>7 DEF Given
<1> DEFINE Shift(u, i) == IF u = t THEN i + 1 ELSE i
<1>10. ASSUME NEW u \in Takers, NEW i \in DOMAIN owed'[u]
       PROVE  Shift(u, i) \in DOMAIN owed[u] /\ owed'[u][i] = owed[u][Shift(u, i)]
  <2>1. CASE u = t
    <3>1. i \in 1..(Len(owed[t]) - 1)
        BY <1>2, <1>4, <2>1
    <3>2. i + 1 \in 1..Len(owed[t])
        BY <1>2, <3>1
    <3> QED BY <1>2, <1>4, <2>1, <3>1, <3>2
  <2>2. CASE u # t
      BY <1>4, <2>2
  <2> QED BY <2>1, <2>2
<1>11. ASSUME NEW u \in Takers, NEW i \in DOMAIN owed'[u] PROVE owed'[u][i].of # r
  <2>1. ~(u = t /\ Shift(u, i) = 1)
    <3>1. CASE u = t
      <4>1. i \in 1..(Len(owed[t]) - 1)
          BY <1>2, <1>4, <3>1
      <4>2. i + 1 # 1
          BY <4>1
      <4> QED BY <3>1, <4>2
    <3> QED BY <3>1
  <2>2. Shift(u, i) \in DOMAIN owed[u] /\ owed'[u][i] = owed[u][Shift(u, i)]
      BY <1>10
  <2> HIDE DEF Shift
  <2> QED BY <1>2, <2>1, <2>2 DEF OnceInv
<1>12. Held(r)' = {}
    BY <1>11 DEF Held, Range
<1>13. ASSUME NEW q \in Requests, q # r PROVE Held(q)' = Held(q)
  <2>1. \A u \in Takers : {g \in Range(owed'[u]) : g.of = q} = {g \in Range(owed[u]) : g.of = q}
    <3> SUFFICES ASSUME NEW u \in Takers
                 PROVE  {g \in Range(owed'[u]) : g.of = q} = {g \in Range(owed[u]) : g.of = q}
        OBVIOUS
    <3>1. CASE u = t
        BY <1>2, <1>4, <1>13, <3>1
    <3>2. CASE u # t
        BY <1>4, <3>2
    <3> QED BY <3>1, <3>2
  <2> QED BY <2>1 DEF Held
<1>14. \A u \in Takers : \A i \in DOMAIN owed'[u] : owed'[u][i].kind \in Kinds
  <2> HIDE DEF Shift
  <2> QED BY <1>10 DEF OnceInv
<1>15. ASSUME NEW u \in Takers, NEW w \in Takers, NEW i \in DOMAIN owed'[u],
              NEW j \in DOMAIN owed'[w], owed'[u][i].of = owed'[w][j].of
       PROVE  u = w /\ i = j
  <2>1. u = w /\ Shift(u, i) = Shift(w, j)
    <3> HIDE DEF Shift
    <3> QED BY <1>10, <1>15 DEF OnceInv
  <2>2. i \in Nat /\ j \in Nat
    <3>1. \A x \in Takers : owed'[x] \in Seq(Frames)
        BY <1>1, <1>2, <1>4, TailFacts
    <3>2. \A x \in Takers : DOMAIN owed'[x] = 1..Len(owed'[x])
        BY <3>1
    <3> QED BY <3>2
  <2>3. i = j
      BY <2>1, <2>2
  <2> QED BY <2>1, <2>3
<1>16. OnceInv'
    BY <1>1, <1>3, <1>5, <1>6, <1>8, <1>9, <1>12, <1>13, <1>14, <1>15 DEF OnceInv
<1> QED BY <1>1, <1>3, <1>5, <1>6, <1>8, <1>9, <1>12, <1>13, <1>16

(* Steps that leave the frames alone, but for those of failed writes.      *)
LEMMA FramesKept ==
    ASSUME OnceInv, UNCHANGED owed, \A r \in Requests : Given(r)' = Given(r),
           \A r \in Requests : /\ pc'[r] = "new" => pc[r] = "new" /\ r \notin pending'
                               /\ r \in pending' => r \in pending \/ pc[r] = "new"
    PROVE  OnceInv' /\ \A r \in Requests : Held(r)' = Held(r)
<1>1. \A r \in Requests : Held(r)' = Held(r)
    BY DEF Held
<1> QED BY <1>1 DEF OnceInv

(* What a step does to the places of the calls, one case for each action   *)
(* of Correlation, and none.                                               *)
SameFrames(S) == \A r \in Requests \ S : Held(r)' = Held(r) /\ Given(r)' = Given(r)

NewKept(S) == \A r \in Requests \ S : pc'[r] = "new" <=> pc[r] = "new"

Still == pending' = pending /\ SameFrames({}) /\ NewKept({})

Enters(r) ==
    /\ pc[r] = "new" /\ pc'[r] # "new" /\ pending' = pending \cup {r}
    /\ SameFrames({}) /\ NewKept({r})

Drops(r) == pc[r] # "new" /\ pending' = pending \ {r} /\ SameFrames({}) /\ NewKept({})

Owes(R, v) ==
    /\ pending' = pending \ R /\ NewKept({}) /\ SameFrames(R)
    /\ \A r \in R : Held(r)' = {Frame(v, r)}

Delivers(r, f) ==
    /\ pc[r] # "new" /\ pending' = pending /\ NewKept({}) /\ SameFrames({r})
    /\ f.kind \in Kinds /\ f \in Held(r) /\ Held(r)' = {} /\ Given(r)' \in {{}, {f}}

Effect ==
    \/ Still
    \/ \E r \in Requests : Enters(r) \/ Drops(r)
    \/ \E R \in SUBSET pending, v \in Kinds : Owes(R, v)
    \/ \E r \in Requests : \E f \in Frames : Delivers(r, f)

LEMMA StillEffect ==
    ASSUME OnceInv, UNCHANGED <<pending, owed>>, \A r \in Requests : Given(r)' = Given(r),
           \A r \in Requests : pc'[r] = "new" <=> pc[r] = "new"
    PROVE  OnceInv' /\ Effect
<1>1. OnceInv' /\ \A r \in Requests : Held(r)' = Held(r)
  <2>1. \A r \in Requests : /\ pc'[r] = "new" => pc[r] = "new" /\ r \notin pending'
                            /\ r \in pending' => r \in pending \/ pc[r] = "new"
      BY DEF OnceInv
  <2> QED BY <2>1, FramesKept
<1> QED BY <1>1 DEF Effect, Still, SameFrames, NewKept

LEMMA OnceNext ==
    ASSUME TypeOK, OnceInv, Next
    PROVE  OnceInv' /\ Effect
<1> USE DEF calls, clients, process, reader
<1>1. ASSUME NEW r \in Requests, handleMessages(r) PROVE OnceInv' /\ Effect
  <2>1. /\ pc[r] = "new" /\ pending' = pending \cup {r} /\ UNCHANGED <<told, owed>>
        /\ pc' = [pc EXCEPT ![r] = "get"]
      BY <1>1 DEF handleMessages
  <2>2. \A q \in Requests : pc'[q] = IF q = r THEN "get" ELSE pc[q]
      BY <2>1 DEF TypeOK
  <2>3. \A q \in Requests : Given(q)' = Given(q)
      BY <2>1 DEF Given
  <2>4. \A q \in Requests : /\ pc'[q] = "new" => pc[q] = "new" /\ q \notin pending'
                            /\ q \in pending' => q \in pending \/ pc[q] = "new"
      BY <2>1, <2>2 DEF OnceInv
  <2>5. OnceInv' /\ \A q \in Requests : Held(q)' = Held(q)
      BY <2>1, <2>3, <2>4, FramesKept
  <2>6. Enters(r)
      BY <2>1, <2>2, <2>3, <2>5 DEF Enters, SameFrames, NewKept
  <2> QED BY <2>5, <2>6 DEF Effect
<1>2. ASSUME NEW r \in Requests,
             GetWriter(r) \/ WriteFails(r) \/ WritePayload(r) \/ WriteNewline(r)
      PROVE  OnceInv' /\ Effect
  <2>1. /\ UNCHANGED <<pending, told, owed>> /\ pc[r] # "new"
        /\ \E to \in {"payload", "newline", "sent", "failed"} : pc' = [pc EXCEPT ![r] = to]
      BY <1>2 DEF GetWriter, WriteFails, WritePayload, WriteNewline, Put, Goto
  <2>2. \A q \in Requests : pc'[q] = "new" <=> pc[q] = "new"
      BY <2>1 DEF TypeOK
  <2>3. \A q \in Requests : Given(q)' = Given(q)
      BY <2>1 DEF Given
  <2> QED BY <2>1, <2>2, <2>3, StillEffect
<1>3. ASSUME NEW r \in Requests, TellFailed(r) PROVE OnceInv' /\ Effect
  <2>1. UNCHANGED <<pending, owed>> /\ pc[r] = "failed" /\ pc' = [pc EXCEPT ![r] = "drop"]
      BY <1>3 DEF TellFailed, Goto
  <2>2. \A q \in Requests : pc'[q] = "new" <=> pc[q] = "new"
      BY <2>1 DEF TypeOK
  <2>3. /\ Frame("failed", r) \in Frames /\ Frame("failed", r).of = r
        /\ Frame("failed", r).kind = "failed"
      BY FrameFacts
  <2>4. told \subseteq told' /\ told' \subseteq told \cup {Frame("failed", r)}
      BY <1>3, <2>3, RespondFacts DEF TellFailed
  <2>5. \A q \in Requests : Given(q)' = Given(q)
      BY <2>3, <2>4 DEF Given
  <2> QED BY <2>1, <2>2, <2>5, StillEffect
<1>4. ASSUME NEW r \in Requests, dropPending(r) PROVE OnceInv' /\ Effect
  <2>1. /\ pending' = pending \ {r} /\ UNCHANGED <<told, owed>>
        /\ pc[r] = "drop" /\ pc' = [pc EXCEPT ![r] = "done"]
      BY <1>4 DEF dropPending, Goto
  <2>2. \A q \in Requests : pc'[q] = "new" <=> pc[q] = "new"
      BY <2>1 DEF TypeOK
  <2>3. \A q \in Requests : Given(q)' = Given(q)
      BY <2>1 DEF Given
  <2>4. \A q \in Requests : /\ pc'[q] = "new" => pc[q] = "new" /\ q \notin pending'
                            /\ q \in pending' => q \in pending \/ pc[q] = "new"
      BY <2>1, <2>2 DEF OnceInv
  <2>5. OnceInv' /\ \A q \in Requests : Held(q)' = Held(q)
      BY <2>1, <2>3, <2>4, FramesKept
  <2>6. Drops(r)
      BY <2>1, <2>2, <2>3, <2>5 DEF Drops, SameFrames, NewKept
  <2> QED BY <2>5, <2>6 DEF Effect
<1>5. ASSUME NEW t \in Takers, NEW R \in SUBSET pending, NEW v \in Kinds,
             owed[t] = <<>>, pending' = pending \ R, UNCHANGED <<told, pc>>,
             \A u \in Takers : u # t => owed'[u] = owed[u],
             Range(owed'[t]) = {Frame(v, r) : r \in R},
             \A i, j \in DOMAIN owed'[t] : owed'[t][i].of = owed'[t][j].of => i = j
      PROVE  OnceInv' /\ Effect
  <2>1. /\ \A r \in R : Held(r)' = {Frame(v, r)}
        /\ \A r \in Requests \ R : Held(r)' = Held(r)
        /\ \A r \in Requests : Given(r)' = Given(r)
        /\ OnceInv'
      BY <1>5, SettleKeeps
  <2>2. Owes(R, v)
      BY <1>5, <2>1 DEF Owes, SameFrames, NewKept
  <2> QED BY <2>1, <2>2 DEF Effect
<1>6. ASSUME NEW t \in Takers, NEW R \in SUBSET pending, Take(t, R), UNCHANGED <<told, pc>>
      PROVE  OnceInv' /\ Effect
  <2>1. /\ pending' = pending \ R /\ owed[t] = <<>>
        /\ \A u \in Takers : u # t => owed'[u] = owed[u]
      BY <1>6, TakeFacts
  <2>2. /\ Range(owed'[t]) = {Frame(Verdict(t), r) : r \in R}
        /\ \A i, j \in DOMAIN owed'[t] : owed'[t][i].of = owed'[t][j].of => i = j
      BY <1>6, TakeOnce
  <2>3. Verdict(t) \in Kinds
      BY DEF Verdict, Kinds
  <2> QED BY <1>5, <1>6, <2>1, <2>2, <2>3
<1>7. CASE HandleLine
  <2>1. UNCHANGED <<told, pc>> /\ owed["supervisor"] = <<>> /\ "supervisor" \in Takers
      BY <1>7 DEF HandleLine, Idle, Takers
  <2>2. CASE UNCHANGED <<pending, owed>>
    <3>1. \A q \in Requests : Given(q)' = Given(q)
        BY <2>1 DEF Given
    <3> QED BY <2>1, <2>2, <3>1, StillEffect
  <2>3. ASSUME NEW l \in pending, pending' = pending \ {l},
               owed' = [owed EXCEPT !["supervisor"] = <<Frame("result", l)>>]
        PROVE  OnceInv' /\ Effect
    <3>1. /\ owed'["supervisor"] = <<Frame("result", l)>>
          /\ \A u \in Takers : u # "supervisor" => owed'[u] = owed[u]
        BY <2>1, <2>3 DEF TypeOK
    <3>2. DOMAIN owed'["supervisor"] = {1} /\ owed'["supervisor"][1] = Frame("result", l)
        BY <3>1
    <3>3. Range(owed'["supervisor"]) = {Frame("result", r) : r \in {l}}
        BY <3>2 DEF Range
    <3>4. "result" \in Kinds /\ {l} \in SUBSET pending
        BY DEF Kinds
    <3>5. \A i, j \in DOMAIN owed'["supervisor"] :
              owed'["supervisor"][i].of = owed'["supervisor"][j].of => i = j
        BY <3>2
    <3> QED BY <1>5, <2>1, <2>3, <3>1, <3>3, <3>4, <3>5
  <2> QED BY <1>7, <2>2, <2>3 DEF HandleLine
<1>8. CASE failPendingUpstreamDown
    BY <1>6, <1>8 DEF failPendingUpstreamDown, Takers
<1>9. CASE reapPending
    BY <1>6, <1>9 DEF reapPending, Takers
<1>10. ASSUME NEW t \in Takers, RespondNext(t) PROVE OnceInv' /\ Effect
  <2>1. /\ owed[t] \in Seq(Frames) /\ owed[t] # <<>>
      BY <1>10 DEF RespondNext, Idle, TypeOK
  <2>2. PICK f \in Frames : f = Head(owed[t])
      BY <2>1, TailFacts
  <2>3. PICK r : r = f.of
      OBVIOUS
  <2>4. /\ r \in Requests /\ f.kind \in Kinds
        /\ f \in Held(r) /\ Held(r)' = {}
        /\ Given(r) = {} /\ Given(r)' \in {{}, {f}}
        /\ \A q \in Requests : q # r => Held(q)' = Held(q) /\ Given(q)' = Given(q)
        /\ UNCHANGED <<pending, pc>>
        /\ OnceInv'
      BY <1>10, <2>2, <2>3, DeliverKeeps
  <2>5. pc[r] # "new"
      BY <2>4 DEF OnceInv
  <2>6. Delivers(r, f)
      BY <2>4, <2>5 DEF Delivers, SameFrames, NewKept
  <2> QED BY <2>4, <2>6 DEF Effect
<1>11. ASSUME \/ \E s \in Sessions : Disconnect(s) \/ WriteFrame(s)
              \/ \E r \in Requests : Answer(r)
              \/ ReadLine \/ Notify \/ Die
              \/ Scan \/ Start \/ RunReturns \/ CloseUpstream \/ ClearWriter
       PROVE  OnceInv' /\ Effect
  <2>1. UNCHANGED <<pending, pc, owed, told>>
      BY <1>11 DEF Disconnect, WriteFrame, Answer, ReadLine, Notify, Die, Scan, Start,
                   RunReturns, CloseUpstream, ClearWriter
  <2>2. \A q \in Requests : Given(q)' = Given(q)
      BY <2>1 DEF Given
  <2> QED BY <2>1, <2>2, StillEffect
<1> QED BY <1>1, <1>2, <1>3, <1>4, <1>7, <1>8, <1>9, <1>10, <1>11, StepCases
        DEF TableStep, ConnectionStep

(* What the refinement mapping says of a call, by the place it is in.      *)
PhaseSpec ==
    /\ phase = [r \in Requests |-> phase[r]]
    /\ \A r \in Requests :
          /\ r \in pending => phase[r] = Table!Waiting
          /\ \A f \in Held(r) : phase[r] = Table!Settled(f.kind)
          /\ \A f \in Given(r) : phase[r] = Table!Answered(f.kind)
          /\ r \notin pending /\ Held(r) = {} /\ Given(r) = {} =>
                phase[r] = IF pc[r] = "new" THEN Table!New ELSE Table!Dropped

LEMMA PhaseByPlace == OnceInv => PhaseSpec
<1> SUFFICES ASSUME OnceInv PROVE PhaseSpec
    OBVIOUS
<1> DEFINE Value(r) ==
        CASE r \in pending -> [at |-> "waiting", verdict |-> "none"]
          [] Held(r) # {} -> [at |-> "settled", verdict |-> KindOf(Held(r))]
          [] Given(r) # {} -> [at |-> "answered", verdict |-> KindOf(Given(r))]
          [] OTHER -> [at |-> IF pc[r] = "new" THEN "new" ELSE "dropped", verdict |-> "none"]
<1>1. phase = [r \in Requests |-> Value(r)]
    BY DEF phase
<1>2. phase = [r \in Requests |-> phase[r]] /\ \A r \in Requests : phase[r] = Value(r)
    BY <1>1
<1>3. ASSUME NEW r \in Requests
      PROVE  /\ r \in pending => phase[r] = Table!Waiting
             /\ \A f \in Held(r) : phase[r] = Table!Settled(f.kind)
             /\ \A f \in Given(r) : phase[r] = Table!Answered(f.kind)
             /\ r \notin pending /\ Held(r) = {} /\ Given(r) = {} =>
                   phase[r] = IF pc[r] = "new" THEN Table!New ELSE Table!Dropped
  <2>1. ASSUME r \in pending PROVE phase[r] = Table!Waiting
    <3>1. Held(r) = {} /\ Given(r) = {}
        BY <2>1 DEF OnceInv
    <3> QED BY <1>2, <2>1, <3>1 DEF Table!Waiting
  <2>2. ASSUME NEW f \in Held(r) PROVE phase[r] = Table!Settled(f.kind)
    <3>1. r \notin pending /\ Held(r) # {} /\ Given(r) = {}
        BY <2>2 DEF OnceInv
    <3>2. \A g \in Held(r) : g = f
        BY <2>2, HeldAt DEF OnceInv
    <3>3. KindOf(Held(r)) = f.kind
        BY <2>2, <3>2 DEF KindOf
    <3> QED BY <1>2, <3>1, <3>3 DEF Table!Settled
  <2>3. ASSUME NEW f \in Given(r) PROVE phase[r] = Table!Answered(f.kind)
    <3>1. r \notin pending /\ Held(r) = {} /\ Given(r) # {}
        BY <2>3 DEF OnceInv
    <3>2. \A g \in Given(r) : g = f
        BY <2>3 DEF OnceInv
    <3>3. KindOf(Given(r)) = f.kind
        BY <2>3, <3>2 DEF KindOf
    <3> QED BY <1>2, <3>1, <3>3 DEF Table!Answered
  <2>4. ASSUME r \notin pending, Held(r) = {}, Given(r) = {}
        PROVE  phase[r] = IF pc[r] = "new" THEN Table!New ELSE Table!Dropped
      BY <1>2, <2>4 DEF Table!New, Table!Dropped
  <2> QED BY <2>1, <2>2, <2>3, <2>4
<1> HIDE DEF Value
<1> QED BY <1>2, <1>3 DEF PhaseSpec

LEMMA OneMoves ==
    ASSUME PhaseSpec, PhaseSpec', NEW r \in Requests, NEW from, NEW to,
           phase[r] = from, phase'[r] = to,
           \A q \in Requests : q # r => phase'[q] = phase[q]
    PROVE  Table!Move(r, from, to)
BY DEF PhaseSpec, Table!Move

LEMMA SamePlace ==
    ASSUME PhaseSpec, PhaseSpec', OnceInv, OnceInv', NEW r \in Requests,
           r \in pending' <=> r \in pending, Held(r)' = Held(r), Given(r)' = Given(r),
           pc'[r] = "new" <=> pc[r] = "new"
    PROVE  phase'[r] = phase[r]
<1>1. CASE r \in pending
    BY <1>1 DEF PhaseSpec
<1>2. CASE Held(r) # {}
    BY <1>2 DEF PhaseSpec
<1>3. CASE Given(r) # {}
    BY <1>3 DEF PhaseSpec
<1>4. CASE r \notin pending /\ Held(r) = {} /\ Given(r) = {}
    BY <1>4 DEF PhaseSpec
<1> QED BY <1>1, <1>2, <1>3, <1>4

LEMMA PromiseStep ==
    ASSUME OnceInv, OnceInv', PhaseSpec, PhaseSpec', pending \subseteq Requests, Effect
    PROVE  Table!Next \/ UNCHANGED phase
<1> USE DEF SameFrames, NewKept
<1>1. CASE Still
  <2>1. \A r \in Requests : phase'[r] = phase[r]
      BY <1>1, SamePlace DEF Still
  <2> QED BY <2>1 DEF PhaseSpec
<1>2. ASSUME NEW r \in Requests, Enters(r) PROVE Table!Next
  <2>1. phase[r] = Table!New /\ phase'[r] = Table!Waiting
      BY <1>2 DEF Enters, PhaseSpec, OnceInv
  <2>2. \A q \in Requests : q # r => phase'[q] = phase[q]
      BY <1>2, SamePlace DEF Enters
  <2>3. Table!Accept(r)
      BY <2>1, <2>2, OneMoves DEF Table!Accept
  <2> QED BY <2>3 DEF Table!Next
<1>3. ASSUME NEW r \in Requests, Drops(r) PROVE Table!Next \/ UNCHANGED phase
  <2>1. \A q \in Requests : q # r => phase'[q] = phase[q]
      BY <1>3, SamePlace DEF Drops
  <2>2. CASE r \in pending
    <3>1. phase[r] = Table!Waiting
        BY <2>2 DEF PhaseSpec
    <3>2. r \notin pending' /\ Held(r)' = {} /\ Given(r)' = {} /\ pc'[r] # "new"
        BY <1>3, <2>2 DEF Drops, OnceInv
    <3>3. phase'[r] = Table!Dropped
        BY <3>2 DEF PhaseSpec
    <3>4. Table!Drop(r)
        BY <2>1, <3>1, <3>3, OneMoves DEF Table!Drop
    <3> QED BY <3>4 DEF Table!Next
  <2>3. CASE r \notin pending
    <3>1. phase'[r] = phase[r]
        BY <1>3, <2>3, SamePlace DEF Drops
    <3> QED BY <2>1, <3>1 DEF PhaseSpec
  <2> QED BY <2>2, <2>3
<1>4. ASSUME NEW R \in SUBSET pending, NEW v \in Kinds, Owes(R, v) PROVE Table!Next
  <2>1. \A r \in R : phase[r] = Table!Waiting
      BY DEF PhaseSpec
  <2>2. \A r \in R : phase'[r] = Table!Settled(v)
    <3>1. \A r \in R : Frame(v, r) \in Held(r)' /\ Frame(v, r).kind = v
        BY <1>4 DEF Owes, Frame
    <3> QED BY <3>1 DEF PhaseSpec
  <2>3. \A r \in Requests \ R : phase'[r] = phase[r]
      BY <1>4, SamePlace DEF Owes
  <2>4. phase' = [r \in Requests |-> IF r \in R THEN Table!Settled(v) ELSE phase[r]]
      BY <2>2, <2>3 DEF PhaseSpec
  <2>5. Table!Settle(R, v)
      BY <2>1, <2>4 DEF Table!Settle
  <2>6. R \in SUBSET Requests
      OBVIOUS
  <2> QED BY <2>5, <2>6 DEF Table!Next, Kinds
<1>5. ASSUME NEW r \in Requests, NEW f \in Frames, Delivers(r, f) PROVE Table!Next
  <2>1. phase[r] = Table!Settled(f.kind)
      BY <1>5 DEF Delivers, PhaseSpec
  <2>2. \A q \in Requests : q # r => phase'[q] = phase[q]
      BY <1>5, SamePlace DEF Delivers
  <2>3. CASE f \in Given(r)'
    <3>1. phase'[r] = Table!Answered(f.kind)
        BY <2>3 DEF PhaseSpec
    <3>2. Table!Answer(r, f.kind)
        BY <2>1, <2>2, <3>1, OneMoves DEF Table!Answer
    <3> QED BY <1>5, <3>2 DEF Table!Next, Delivers, Kinds
  <2>4. CASE Given(r)' = {}
    <3>1. r \notin pending' /\ Held(r)' = {} /\ pc'[r] # "new"
        BY <1>5 DEF Delivers, OnceInv
    <3>2. phase'[r] = Table!Dropped
        BY <2>4, <3>1 DEF PhaseSpec
    <3>3. Table!Lose(r, f.kind)
        BY <2>1, <2>2, <3>2, OneMoves DEF Table!Lose
    <3> QED BY <1>5, <3>3 DEF Table!Next, Delivers, Kinds
  <2> QED BY <1>5, <2>3, <2>4 DEF Delivers
<1> QED BY <1>1, <1>2, <1>3, <1>4, <1>5 DEF Effect

LEMMA OnceAlways == Spec => [](TypeOK /\ OnceInv)
<1>1. Init => TypeOK /\ OnceInv
  <2> SUFFICES ASSUME Init PROVE OnceInv
      BY TypeInit
  <2>1. \A t \in Takers : DOMAIN owed[t] = {}
      BY DEF Init, Takers
  <2>2. \A r \in Requests : Held(r) = {} /\ Given(r) = {}
      BY <2>1 DEF Init, Held, Given, Range
  <2> QED BY <2>1, <2>2 DEF Init, OnceInv
<1>2. TypeOK /\ OnceInv /\ [Next]_vars => (TypeOK /\ OnceInv)'
  <2>1. ASSUME OnceInv, UNCHANGED vars PROVE OnceInv'
      BY <2>1 DEF vars, OnceInv, Held, Given
  <2> QED BY <2>1, OnceNext, TypeNext
<1> QED BY <1>1, <1>2, PTL DEF Spec

(* The calls of all clients keep the promise of Correlation, as those of   *)
(* the core do: a call leaves the table once, however its goroutine, the   *)
(* reader, the supervisor and the sweeper race for it, and its verdict is  *)
(* delivered once or lost with its client or to its full queue.            *)
THEOREM PromiseKept == Spec => Promise
<1>1. Init /\ PhaseSpec => Table!Init
  <2> SUFFICES ASSUME Init, PhaseSpec PROVE Table!Init
      OBVIOUS
  <2>1. \A t \in Takers : DOMAIN owed[t] = {}
      BY DEF Init, Takers
  <2>2. \A r \in Requests : /\ Held(r) = {} /\ Given(r) = {} /\ r \notin pending
                            /\ pc[r] = "new"
      BY <2>1 DEF Init, Held, Given, Range
  <2>3. \A r \in Requests : phase[r] = Table!New
      BY <2>2 DEF PhaseSpec
  <2> QED BY <2>3 DEF PhaseSpec, Table!Init
<1>2. TypeOK /\ OnceInv /\ OnceInv' /\ PhaseSpec /\ PhaseSpec' /\ [Next]_vars
         => [Table!Next]_phase
  <2> SUFFICES ASSUME TypeOK, OnceInv, OnceInv', PhaseSpec, PhaseSpec', [Next]_vars
               PROVE  Table!Next \/ UNCHANGED phase
      OBVIOUS
  <2>1. CASE Next
      BY <2>1, OnceNext, PromiseStep DEF TypeOK
  <2>2. CASE UNCHANGED vars
    <3>1. Still
        BY <2>2 DEF vars, Still, SameFrames, NewKept, Held, Given
    <3> QED BY <3>1, PromiseStep DEF Effect, TypeOK
  <2> QED BY <2>1, <2>2
<1> QED BY <1>1, <1>2, PhaseByPlace, OnceAlways, PTL DEF Spec, Promise, Table!Spec
=============================================================================
