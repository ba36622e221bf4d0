-------------------------- MODULE StreamableProofs --------------------------
(* Theorems about StreamableHop, for any number of calls and any size of   *)
(* the channel.  The steps are taken in four groups: those of the client's *)
(* exchange, of the POST, of the takers, and of the proxy's life.          *)
EXTENDS StreamableHop, FiniteSetTheorems, SequenceTheorems, TLAPS

LifeStep ==
    \/ StartUpstream \/ StopUpstream \/ SupervisorFails
    \/ Cancel \/ MainFails \/ CloseClient

TakerStep ==
    \/ \E K \in SUBSET pending : K # {} /\ reapPending(K)
    \/ \E t \in Takers : Tell(t)

LEMMA StepCases ==
    ASSUME [Next]_vars
    PROVE  \/ \E c \in Requests : ClientStep(c) \/ PostStep(c)
           \/ TakerStep \/ LifeStep \/ UNCHANGED vars
BY DEF Next, Exited, LifeStep, TakerStep

-----------------------------------------------------------------------------
(* Types.                                                                  *)

(* Sending puts a frame at the end of one channel and keeps its bound.     *)
LEMMA SendType ==
    ASSUME NEW c \in Requests, NEW k \in Kinds, Send(c, k),
           buf \in [Requests -> Seq(Kinds)], \A d \in Requests : Len(buf[d]) <= Buffer
    PROVE  /\ buf' \in [Requests -> Seq(Kinds)]
           /\ \A d \in Requests : Len(buf'[d]) <= Buffer
<1>1. buf[c] \in Seq(Kinds) /\ Len(buf[c]) \in Nat
    OBVIOUS
<1>2. Append(buf[c], k) \in Seq(Kinds) /\ Len(Append(buf[c], k)) = Len(buf[c]) + 1
    BY <1>1
<1>3. Len(buf[c]) + 1 <= Buffer
    BY <1>1, HopAssumption DEF Send
<1> QED BY <1>2, <1>3 DEF Send

LEMMA RefusedType ==
    ASSUME NEW c \in Requests, Refused(c),
           buf \in [Requests -> Seq(Kinds)], \A d \in Requests : Len(buf[d]) <= Buffer
    PROVE  /\ buf' \in [Requests -> Seq(Kinds)]
           /\ \A d \in Requests : Len(buf'[d]) <= Buffer
BY DEF Refused

(* Whoever takes calls puts them in some order.                            *)
LEMMA TakeType ==
    ASSUME TypeOK, NEW t \in Takers, NEW K \in SUBSET pending, Take(t, K)
    PROVE  /\ pending' = pending \ K /\ taken' \in [Takers -> Seq(Requests)]
           /\ ToSet(taken'[t]) = K
           /\ \A u \in Takers : u # t => taken'[u] = taken[u]
           /\ taken[t] = <<>>
<1>1. PICK order \in [1..Cardinality(K) -> K] :
          ToSet(order) = K /\ taken' = [taken EXCEPT ![t] = order]
    BY DEF Take
<1>2. K \subseteq Requests /\ taken \in [Takers -> Seq(Requests)]
    BY DEF TypeOK
<1>3. IsFiniteSet(K) /\ Cardinality(K) \in Nat
    BY <1>2, HopAssumption, FS_Subset, FS_CardinalityType
<1>4. order \in [1..Cardinality(K) -> Requests]
    BY <1>1, <1>2
<1>5. order \in Seq(Requests)
    BY <1>3, <1>4, SeqDef
<1> QED BY <1>1, <1>2, <1>5 DEF Take

LEMMA TypeClient ==
    ASSUME TypeOK, NEW c \in Requests, ClientStep(c)
    PROVE  TypeOK'
<1> USE DEF TypeOK
<1>1. CASE handlePost(c)
    BY <1>1 DEF handlePost, Goto, PostStates
<1>2. CASE RateLimited(c)
  <2>1. "limited" \in Kinds
      BY DEF Kinds, Terminal
  <2> QED BY <1>2, <2>1, SendType DEF RateLimited, Goto, PostStates
<1>3. CASE WriteFrame(c)
  <2>1. buf[c] \in Seq(Kinds) /\ buf[c] # <<>> /\ wire[c] \in Seq(Kinds) /\ Len(buf[c]) <= Buffer
      BY <1>3 DEF WriteFrame
  <2>2. /\ Head(buf[c]) \in Kinds /\ Tail(buf[c]) \in Seq(Kinds)
        /\ Len(Tail(buf[c])) = Len(buf[c]) - 1 /\ Len(buf[c]) \in Nat
      BY <2>1
  <2>3. Append(wire[c], Head(buf[c])) \in Seq(Kinds) /\ Len(Tail(buf[c])) <= Buffer
      BY <2>1, <2>2, HopAssumption
  <2> QED BY <1>3, <2>2, <2>3 DEF WriteFrame, postVars
<1>4. CASE ClientGone(c) \/ CleanupDrops(c)
    BY <1>4 DEF ClientGone, CleanupDrops, postVars
<1>5. CASE CleanupCancels(c)
    BY <1>5 DEF CleanupCancels, cancelUpstream
<1> QED BY <1>1, <1>2, <1>3, <1>4, <1>5 DEF ClientStep

LEMMA TypePost ==
    ASSUME TypeOK, NEW c \in Requests, PostStep(c)
    PROVE  TypeOK'
<1> USE DEF TypeOK, Goto
<1>1. CASE GetWriter(c) \/ LoadCallback(c) \/ Register(c)
    BY <1>1 DEF GetWriter, LoadCallback, Register, clientVars, PostStates
<1>2. CASE Post(c) \/ EndOfBody(c)
    BY <1>2 DEF Post, EndOfBody, clientVars, PostStates
<1>3. CASE Notification(c)
    BY <1>3, HopAssumption DEF Notification, clientVars, PostStates
<1>4. CASE ForwardNote(c) \/ ForwardResult(c) \/ TellWriteFailed(c)
  <2>1. "note" \in Kinds /\ "result" \in Kinds /\ "writefailed" \in Kinds
      BY DEF Kinds, Terminal
  <2>2. /\ buf' \in [Requests -> Seq(Kinds)]
        /\ \A d \in Requests : Len(buf'[d]) <= Buffer
      BY <1>4, <2>1, SendType, RefusedType DEF ForwardNote, ForwardResult, TellWriteFailed
  <2>3. ctx' \in [Requests -> {"none", "live", "cancelled", "ended"}]
      BY <1>4 DEF ForwardNote, ForwardResult, TellWriteFailed, cancelUpstream
  <2>4. pc' \in [Requests -> PostStates]
      BY <1>4 DEF ForwardNote, ForwardResult, TellWriteFailed, PostStates
  <2>5. UNCHANGED <<pending, cancels, notes, http, stream, wire, taken, missed, sup, main>>
      BY <1>4 DEF ForwardNote, ForwardResult, TellWriteFailed
  <2> QED BY <2>2, <2>3, <2>4, <2>5
<1>5. CASE Result(c) \/ DropFailed(c)
    BY <1>5 DEF Result, DropFailed, clientVars, PostStates
<1>6. CASE Leave(c)
    BY <1>6 DEF Leave, clientVars, PostStates
<1> QED BY <1>1, <1>2, <1>3, <1>4, <1>5, <1>6 DEF PostStep

LEMMA TypeTaker ==
    ASSUME TypeOK, TakerStep
    PROVE  TypeOK'
<1>1. CASE \E K \in SUBSET pending : K # {} /\ reapPending(K)
  <2>1. PICK K \in SUBSET pending : reapPending(K)
      BY <1>1
  <2>2. pending' = pending \ K /\ taken' \in [Takers -> Seq(Requests)]
      BY <2>1, TakeType DEF reapPending, Takers
  <2> QED BY <2>1, <2>2 DEF reapPending, postVars, clientVars, TypeOK
<1>2. ASSUME NEW t \in Takers, Tell(t) PROVE TypeOK'
  <2>1. taken[t] \in Seq(Requests) /\ taken[t] # <<>>
      BY <1>2 DEF Tell, TypeOK
  <2>2. Head(taken[t]) \in Requests /\ Tail(taken[t]) \in Seq(Requests)
      BY <2>1
  <2>3. Verdict(t) \in Kinds
      BY DEF Verdict, Kinds, Terminal
  <2>4. /\ buf' \in [Requests -> Seq(Kinds)]
        /\ \A d \in Requests : Len(buf'[d]) <= Buffer
      BY <1>2, <2>2, <2>3, SendType, RefusedType DEF Tell, TypeOK
  <2>5. taken' \in [Takers -> Seq(Requests)]
      BY <1>2, <2>2 DEF Tell, TypeOK
  <2> QED BY <1>2, <2>4, <2>5 DEF Tell, postVars, TypeOK
<1> QED BY <1>1, <1>2 DEF TakerStep

LEMMA TypeLife ==
    ASSUME TypeOK, LifeStep
    PROVE  TypeOK'
<1>1. CASE StartUpstream \/ StopUpstream
    BY <1>1 DEF StartUpstream, StopUpstream, Advance, clientVars, TypeOK, Sups
<1>2. CASE SupervisorFails
  <2>1. pending' = {} /\ taken' \in [Takers -> Seq(Requests)]
      BY <1>2, TakeType, pending \in SUBSET pending DEF SupervisorFails, Takers
  <2> QED BY <1>2, <2>1 DEF SupervisorFails, postVars, clientVars, TypeOK, Sups
<1>3. CASE Cancel \/ CloseClient
    BY <1>3 DEF Cancel, CloseClient, postVars, clientVars, TypeOK
<1>4. CASE MainFails
  <2>1. pending' = {} /\ taken' \in [Takers -> Seq(Requests)]
      BY <1>4, TakeType, pending \in SUBSET pending DEF MainFails, Takers
  <2> QED BY <1>4, <2>1 DEF MainFails, postVars, clientVars, TypeOK
<1> QED BY <1>1, <1>2, <1>3, <1>4 DEF LifeStep

LEMMA TypeInit == Init => TypeOK
BY HopAssumption DEF Init, TypeOK, PostStates, Sups

LEMMA TypeStep ==
    ASSUME TypeOK, [Next]_vars
    PROVE  TypeOK'
<1>1. CASE UNCHANGED vars
    BY <1>1 DEF vars, postVars, clientVars, TypeOK
<1> QED BY <1>1, StepCases, TypeClient, TypePost, TypeTaker, TypeLife

(* The state is always of its type; in particular no channel ever holds    *)
(* more frames than its capacity, whoever sends.                           *)
THEOREM TypeCorrect == Spec => []TypeOK
<1>1. TypeOK /\ [Next]_vars => TypeOK'
    BY TypeStep
<1> QED BY TypeInit, <1>1, PTL DEF Spec
-----------------------------------------------------------------------------
(* The terminal frame is the last: while the goroutine that writes them is *)
(* there, it has written none.                                             *)
TerminalInv ==
    /\ TerminalLast
    /\ \A c \in Requests : stream[c] = "open" =>
          \A i \in DOMAIN wire[c] : wire[c][i] \notin Terminal

(* What the other steps do to an exchange: they may end it, no more.       *)
LEMMA OnlyEnds ==
    ASSUME TypeOK, [Next]_vars, \A c \in Requests : ~WriteFrame(c)
    PROVE  /\ UNCHANGED wire
           /\ \A c \in Requests : stream'[c] = "open" => stream[c] = "open"
<1>1. ASSUME NEW c \in Requests, ClientStep(c)
      PROVE  /\ UNCHANGED wire
             /\ \A d \in Requests : stream'[d] = "open" => stream[d] = "open"
    BY <1>1 DEF ClientStep, handlePost, RateLimited, ClientGone, CleanupCancels, CleanupDrops,
       TypeOK
<1>2. ASSUME NEW c \in Requests, PostStep(c) PROVE UNCHANGED <<wire, stream>>
    BY <1>2 DEF PostStep, GetWriter, LoadCallback, Register, Post, Notification, ForwardNote,
       Result, ForwardResult, EndOfBody, Leave, TellWriteFailed, DropFailed, clientVars
<1>3. CASE TakerStep
    BY <1>3 DEF TakerStep, reapPending, Tell, clientVars
<1>4. CASE LifeStep
    BY <1>4 DEF LifeStep, StartUpstream, StopUpstream, Advance, SupervisorFails, Cancel,
       MainFails, CloseClient, clientVars
<1>5. CASE UNCHANGED vars
    BY <1>5 DEF vars, clientVars
<1> QED BY <1>1, <1>2, <1>3, <1>4, <1>5, StepCases

LEMMA TerminalStep ==
    ASSUME TypeOK, TerminalInv, [Next]_vars
    PROVE  TerminalInv'
<1>1. CASE \E c \in Requests : WriteFrame(c)
  <2>1. PICK c \in Requests : WriteFrame(c)
      BY <1>1
  <2> DEFINE f == Head(buf[c])
  <2>2. /\ wire' = [wire EXCEPT ![c] = Append(@, f)]
        /\ stream' = IF f \in Terminal THEN [stream EXCEPT ![c] = "closed"] ELSE stream
        /\ stream[c] = "open" /\ f \in Kinds /\ wire[c] \in Seq(Kinds)
      BY <2>1 DEF WriteFrame, TypeOK
  <2> HIDE DEF f
  <2>3. /\ DOMAIN wire'[c] = 1..(Len(wire[c]) + 1) /\ DOMAIN wire[c] = 1..Len(wire[c])
        /\ Len(wire'[c]) = Len(wire[c]) + 1 /\ Len(wire[c]) \in Nat
        /\ \A i \in DOMAIN wire'[c] :
              wire'[c][i] = IF i = Len(wire[c]) + 1 THEN f ELSE wire[c][i]
      BY <2>2 DEF TypeOK
  <2>4. \A i \in DOMAIN wire'[c] : i # Len(wire[c]) + 1 => wire'[c][i] \notin Terminal
      BY <2>2, <2>3 DEF TerminalInv
  <2>5. \A i \in DOMAIN wire'[c] : wire'[c][i] \in Terminal => i = Len(wire'[c])
      BY <2>3, <2>4
  <2>6. stream'[c] = "open" => \A i \in DOMAIN wire'[c] : wire'[c][i] \notin Terminal
      BY <2>2, <2>3, <2>4 DEF TypeOK
  <2>7. \A d \in Requests : d # c => wire'[d] = wire[d] /\ stream'[d] = stream[d]
      BY <2>2 DEF TypeOK
  <2> QED BY <2>5, <2>6, <2>7 DEF TerminalInv, TerminalLast
<1>2. CASE \A c \in Requests : ~WriteFrame(c)
    BY <1>2, OnlyEnds DEF TerminalInv, TerminalLast
<1> QED BY <1>1, <1>2

(* A client sees nothing after the frame that answers its call.            *)
THEOREM TerminalLastAlways == Spec => []TerminalLast
<1>1. Init => TerminalInv
    BY DEF Init, TerminalInv, TerminalLast
<1>2. TypeOK /\ TerminalInv /\ [Next]_vars => TerminalInv'
    BY TerminalStep
<1>3. TerminalInv => TerminalLast
    BY DEF TerminalInv
<1> QED BY TypeCorrect, <1>1, <1>2, <1>3, PTL DEF Spec

-----------------------------------------------------------------------------
(* Cancellation.  A POST is live only once Run has set the callback, and   *)
(* is registered until Close clears the register; an exchange whose        *)
(* cleanup came before it registered is in `missed`.                       *)
AfterRun == {"running", "closed", "noWriter", "noInstance", "failing", "stopped"}

CancelInv ==
    \A c \in Requests :
        /\ ctx[c] = "cancelled" => stream[c] = "closed"
        /\ ctx[c] = "live" \/ pc[c] = "register" => sup \in AfterRun
        /\ ctx[c] = "live" => c \in cancels \/ sup # "running"
        /\ http[c] \in {"cancelled", "left"} =>
              /\ pc[c] \in {"get", "load", "register"} => c \in missed
              /\ ctx[c] = "live" => c \in missed \/ sup # "running"

LEMMA CancelStep ==
    ASSUME TypeOK, CancelInv, [Next]_vars
    PROVE  CancelInv'
<1> USE DEF TypeOK, CancelInv, AfterRun
<1>1. ASSUME NEW c \in Requests, ClientStep(c) PROVE CancelInv'
  <2>1. CASE handlePost(c) \/ RateLimited(c)
      BY <2>1 DEF handlePost, RateLimited, Goto
  <2>2. CASE WriteFrame(c) \/ ClientGone(c) \/ CleanupDrops(c)
      BY <2>2 DEF WriteFrame, ClientGone, CleanupDrops, postVars
  <2>3. CASE CleanupCancels(c)
      BY <2>3 DEF CleanupCancels, cancelUpstream, InstanceSet
  <2> QED BY <1>1, <2>1, <2>2, <2>3 DEF ClientStep
<1>2. ASSUME NEW c \in Requests, PostStep(c) PROVE CancelInv'
  <2>1. CASE GetWriter(c) \/ LoadCallback(c) \/ Register(c)
      BY <2>1 DEF GetWriter, LoadCallback, Register, Goto, clientVars
  <2>2. CASE Post(c) \/ EndOfBody(c) \/ Notification(c) \/ Result(c) \/ DropFailed(c)
      BY <2>2 DEF Post, EndOfBody, Notification, Result, DropFailed, Goto, clientVars
  <2>3. CASE ForwardNote(c) \/ ForwardResult(c)
      BY <2>3 DEF ForwardNote, ForwardResult, Goto, cancelUpstream, Refused
  <2>4. CASE Leave(c) \/ TellWriteFailed(c)
      BY <2>4 DEF Leave, TellWriteFailed, Goto, clientVars
  <2> QED BY <1>2, <2>1, <2>2, <2>3, <2>4 DEF PostStep
<1>3. CASE TakerStep
    BY <1>3 DEF TakerStep, reapPending, Tell, postVars, clientVars
<1>4. CASE StartUpstream \/ StopUpstream
    BY <1>4 DEF StartUpstream, StopUpstream, Advance, clientVars
<1>5. CASE SupervisorFails \/ Cancel \/ MainFails \/ CloseClient
    BY <1>5 DEF SupervisorFails, Cancel, MainFails, CloseClient, postVars, clientVars
<1>6. CASE UNCHANGED vars
    BY <1>6 DEF vars, postVars, clientVars
<1> QED BY <1>1, <1>2, <1>3, <1>4, <1>5, <1>6, StepCases DEF LifeStep

LEMMA CancelGives == CancelInv => CancellationExact
BY DEF CancelInv, AfterRun, CancellationExact, CancelOnlyAbandoned, AbandonedIsCancelled

(* A POST is cancelled only when its exchange is over, and is not live     *)
(* once the exchange has cleaned up, but for the race with its start.      *)
THEOREM CancellationExactAlways == Spec => []CancellationExact
<1>1. Init => CancelInv
    BY DEF Init, CancelInv
<1>2. TypeOK /\ CancelInv /\ [Next]_vars => CancelInv'
    BY CancelStep
<1> QED BY TypeCorrect, CancelGives, <1>1, <1>2, PTL DEF Spec

-----------------------------------------------------------------------------
(* Nobody is forgotten: a goroutine that drops its failed call has told    *)
(* the client.                                                             *)
Answered(c) == \E i \in DOMAIN buf[c] : buf[c][i] \in Terminal

ForgottenInv ==
    /\ NoneForgotten
    /\ \A c \in Requests :
          pc[c] = "drop" /\ http[c] = "serving" /\ stream[c] = "open" => Answered(c)

(* Sending keeps what a channel holds, and a terminal frame answers.       *)
LEMMA SendAnswers ==
    ASSUME TypeOK, NEW c \in Requests, NEW k \in Kinds, Send(c, k)
    PROVE  /\ k \in Terminal => Answered(c)'
           /\ \A d \in Requests : Answered(d) => Answered(d)'
           /\ buf' \in [Requests -> Seq(Kinds)]
<1>1. /\ buf' = [buf EXCEPT ![c] = Append(@, k)] /\ buf \in [Requests -> Seq(Kinds)]
    BY DEF Send, TypeOK
<1>2. buf[c] \in Seq(Kinds) /\ Len(buf[c]) \in Nat /\ buf'[c] = Append(buf[c], k)
    BY <1>1
<1>3. /\ DOMAIN buf[c] = 1..Len(buf[c]) /\ DOMAIN buf'[c] = 1..(Len(buf[c]) + 1)
      /\ buf'[c][Len(buf[c]) + 1] = k
      /\ \A i \in 1..Len(buf[c]) : buf'[c][i] = buf[c][i]
    BY <1>2
<1>4. k \in Terminal => Answered(c)'
  <2>1. Len(buf[c]) + 1 \in DOMAIN buf'[c]
      BY <1>2, <1>3
  <2> QED BY <1>3, <2>1 DEF Answered
<1>5. Answered(c) => Answered(c)'
    BY <1>2, <1>3 DEF Answered
<1>6. \A d \in Requests : d # c => buf'[d] = buf[d]
    BY <1>1
<1>7. \A d \in Requests : d # c /\ Answered(d) => Answered(d)'
    BY <1>6 DEF Answered
<1>8. buf' \in [Requests -> Seq(Kinds)]
  <2>1. Append(buf[c], k) \in Seq(Kinds)
      BY <1>2
  <2> QED BY <1>1, <2>1
<1> QED BY <1>4, <1>5, <1>7, <1>8

(* A frame taken from the channel either ends the stream or is a           *)
(* notification, and leaves the answer behind it.                          *)
LEMMA PopAnswers ==
    ASSUME TypeOK, NEW c \in Requests, WriteFrame(c)
    PROVE  \A d \in Requests : Answered(d) /\ stream'[d] = "open" => Answered(d)'
<1>1. /\ buf[c] \in Seq(Kinds) /\ buf[c] # <<>> /\ Len(buf[c]) \in Nat
      /\ buf' = [buf EXCEPT ![c] = Tail(@)]
    BY DEF WriteFrame, TypeOK
<1>2. /\ DOMAIN buf[c] = 1..Len(buf[c]) /\ DOMAIN Tail(buf[c]) = 1..(Len(buf[c]) - 1)
      /\ \A i \in 1..(Len(buf[c]) - 1) : Tail(buf[c])[i] = buf[c][i + 1]
      /\ Head(buf[c]) = buf[c][1]
    BY <1>1
<1>3. stream'[c] = "open" => buf[c][1] \notin Terminal
    BY <1>2 DEF WriteFrame, TypeOK
<1>4. buf'[c] = Tail(buf[c]) /\ \A d \in Requests : d # c => buf'[d] = buf[d]
    BY <1>1 DEF TypeOK
<1>5. ASSUME Answered(c), stream'[c] = "open" PROVE Answered(c)'
  <2>1. PICK i \in 1..Len(buf[c]) : buf[c][i] \in Terminal
      BY <1>2, <1>5 DEF Answered
  <2>2. i # 1
      BY <1>3, <1>5, <2>1
  <2>3. i - 1 \in 1..(Len(buf[c]) - 1) /\ (i - 1) + 1 = i
      BY <1>1, <2>2
  <2>4. Tail(buf[c])[i - 1] = buf[c][i]
      BY <1>2, <2>3
  <2> QED BY <1>2, <1>4, <2>1, <2>3, <2>4 DEF Answered
<1>6. \A d \in Requests : d # c /\ Answered(d) => Answered(d)'
    BY <1>4 DEF Answered
<1> QED BY <1>5, <1>6

(* What the invariant says of one call.                                    *)
Known(c) ==
    http[c] = "serving" /\ stream[c] = "open" =>
        /\ c \in pending \/ pc[c] = "result" \/ (\E t \in Takers : c \in ToSet(taken[t]))
           \/ Answered(c)
        /\ pc[c] = "drop" => Answered(c)

LEMMA ForgottenIs == ForgottenInv <=> \A c \in Requests : Known(c)
BY DEF ForgottenInv, NoneForgotten, Known, Answered

LEMMA KnownClient ==
    ASSUME TypeOK, NEW c \in Requests, ClientStep(c), NEW d \in Requests, Known(d)
    PROVE  Known(d)'
<1>1. CASE handlePost(c)
    BY <1>1 DEF handlePost, Goto, Known, Answered, TypeOK
<1>2. CASE RateLimited(c)
  <2>1. "limited" \in Terminal /\ "limited" \in Kinds
      BY DEF Terminal, Kinds
  <2>2. Answered(c)' /\ (Answered(d) => Answered(d)')
      BY <1>2, <2>1, SendAnswers DEF RateLimited
  <2> QED BY <1>2, <2>2 DEF RateLimited, Goto, Known, TypeOK
<1>3. CASE WriteFrame(c)
  <2>1. Answered(d) /\ stream'[d] = "open" => Answered(d)'
      BY <1>3, PopAnswers
  <2>2. stream'[d] = "open" => stream[d] = "open"
      BY <1>3 DEF WriteFrame, TypeOK
  <2> QED BY <1>3, <2>1, <2>2 DEF WriteFrame, postVars, Known
<1>4. CASE ClientGone(c) \/ CleanupCancels(c) \/ CleanupDrops(c)
    BY <1>4 DEF ClientGone, CleanupCancels, CleanupDrops, postVars, Known, Answered, TypeOK
<1> QED BY <1>1, <1>2, <1>3, <1>4 DEF ClientStep

LEMMA KnownPost ==
    ASSUME TypeOK, NEW c \in Requests, PostStep(c), NEW d \in Requests, Known(d)
    PROVE  Known(d)'
<1> USE DEF Goto, TypeOK
<1>1. CASE GetWriter(c) \/ LoadCallback(c) \/ Register(c) \/ Post(c) \/ Notification(c)
           \/ EndOfBody(c) \/ Leave(c)
    BY <1>1 DEF GetWriter, LoadCallback, Register, Post, Notification, EndOfBody, Leave,
       clientVars, Known, Answered
<1>2. CASE Result(c) \/ DropFailed(c)
    BY <1>2 DEF Result, DropFailed, clientVars, Known, Answered
<1>3. CASE ForwardNote(c) \/ ForwardResult(c) \/ TellWriteFailed(c)
  <2>1. /\ "note" \in Kinds /\ "result" \in Kinds /\ "writefailed" \in Kinds
        /\ "result" \in Terminal /\ "writefailed" \in Terminal
      BY DEF Kinds, Terminal
  <2>2. UNCHANGED <<pending, http, stream, taken>>
      BY <1>3 DEF ForwardNote, ForwardResult, TellWriteFailed
  <2>3. Answered(d) => Answered(d)'
    <3>1. CASE Refused(c)
        BY <3>1 DEF Refused, Answered
    <3>2. CASE \E k \in Kinds : Send(c, k)
        BY <3>2, SendAnswers
    <3> QED BY <1>3, <2>1, <3>1, <3>2 DEF ForwardNote, ForwardResult, TellWriteFailed
  <2>4. CASE ForwardNote(c)
      BY <2>2, <2>3, <2>4 DEF ForwardNote, Known
  <2>5. CASE ForwardResult(c) \/ TellWriteFailed(c)
    <3>1. Answered(c)' \/ stream[c] = "closed"
        BY <2>1, <2>5, SendAnswers DEF ForwardResult, TellWriteFailed, Refused
    <3> QED BY <2>2, <2>3, <2>5, <3>1 DEF ForwardResult, TellWriteFailed, Known
  <2> QED BY <1>3, <2>4, <2>5
<1> QED BY <1>1, <1>2, <1>3 DEF PostStep

LEMMA KnownTake ==
    ASSUME TypeOK, NEW t \in Takers, NEW K \in SUBSET pending, Take(t, K),
           UNCHANGED <<pc, http, stream, buf>>, NEW d \in Requests, Known(d)
    PROVE  Known(d)'
<1>1. /\ pending' = pending \ K /\ ToSet(taken'[t]) = K /\ taken[t] = <<>>
      /\ \A u \in Takers : u # t => taken'[u] = taken[u]
    BY TakeType
<1>2. ToSet(<<>>) = {}
    BY DEF ToSet
<1>3. ASSUME d \in pending \/ \E u \in Takers : d \in ToSet(taken[u])
      PROVE  d \in pending' \/ \E u \in Takers : d \in ToSet(taken'[u])
    BY <1>1, <1>2, <1>3
<1> QED BY <1>3 DEF Known, Answered

LEMMA KnownTaker ==
    ASSUME TypeOK, TakerStep, NEW d \in Requests, Known(d)
    PROVE  Known(d)'
<1>1. CASE \E K \in SUBSET pending : K # {} /\ reapPending(K)
    BY <1>1, KnownTake DEF reapPending, postVars, clientVars, Takers
<1>2. ASSUME NEW t \in Takers, Tell(t) PROVE Known(d)'
  <2>1. taken[t] \in Seq(Requests) /\ taken[t] # <<>> /\ Len(taken[t]) \in Nat
      BY <1>2 DEF Tell, TypeOK
  <2>9. PICK c \in Requests : c = Head(taken[t])
      BY <2>1
  <2>2. /\ \A i \in DOMAIN taken[t] : i = 1 \/ i - 1 \in DOMAIN Tail(taken[t])
        /\ \A i \in DOMAIN taken[t] : i # 1 => Tail(taken[t])[i - 1] = taken[t][i]
        /\ c = taken[t][1]
      BY <2>1, <2>9
  <2>3. Verdict(t) \in Terminal /\ Verdict(t) \in Kinds
      BY DEF Verdict, Terminal, Kinds
  <2>4. /\ Answered(d) => Answered(d)'
        /\ Answered(c)' \/ stream[c] = "closed"
    <3>1. CASE Refused(c)
        BY <3>1 DEF Refused, Answered
    <3>2. CASE Send(c, Verdict(t))
        BY <2>3, <3>2, SendAnswers
    <3> QED BY <1>2, <2>9, <3>1, <3>2 DEF Tell
  <2>5. /\ taken'[t] = Tail(taken[t]) /\ \A u \in Takers : u # t => taken'[u] = taken[u]
      BY <1>2 DEF Tell, TypeOK
  <2>6. d # c /\ d \in ToSet(taken[t]) => d \in ToSet(taken'[t])
      BY <2>2, <2>5 DEF ToSet
  <2>7. \A u \in Takers : d # c /\ d \in ToSet(taken[u]) => d \in ToSet(taken'[u])
      BY <2>5, <2>6
  <2>8. UNCHANGED <<pending, pc, http, stream>>
      BY <1>2 DEF Tell, postVars
  <2> QED BY <2>4, <2>7, <2>8 DEF Known
<1> QED BY <1>1, <1>2 DEF TakerStep

LEMMA KnownLife ==
    ASSUME TypeOK, LifeStep, NEW d \in Requests, Known(d)
    PROVE  Known(d)'
<1>1. CASE StartUpstream \/ StopUpstream
    BY <1>1 DEF StartUpstream, StopUpstream, Advance, clientVars, Known, Answered
<1>2. CASE SupervisorFails \/ MainFails
    BY <1>2, KnownTake, pending \in SUBSET pending
       DEF SupervisorFails, MainFails, postVars, clientVars, Takers
<1>3. CASE Cancel \/ CloseClient
    BY <1>3 DEF Cancel, CloseClient, postVars, Known, Answered, clientVars, TypeOK
<1> QED BY <1>1, <1>2, <1>3 DEF LifeStep

(* A call whose exchange is open has an answer in its channel, or is in    *)
(* the table or in the hands of someone who will answer.                   *)
THEOREM NoneForgottenAlways == Spec => []NoneForgotten
<1>1. Init => ForgottenInv
    BY DEF Init, ForgottenInv, NoneForgotten
<1>2. TypeOK /\ ForgottenInv /\ [Next]_vars => ForgottenInv'
  <2> SUFFICES ASSUME TypeOK, \A c \in Requests : Known(c), [Next]_vars,
                      NEW d \in Requests
               PROVE  Known(d)'
      BY ForgottenIs DEF ForgottenInv, NoneForgotten, Known, Answered
  <2>1. CASE UNCHANGED vars
      BY <2>1 DEF vars, postVars, clientVars, Known, Answered
  <2> QED BY <2>1, StepCases, KnownClient, KnownPost, KnownTaker, KnownLife
<1>3. ForgottenInv => NoneForgotten
    BY DEF ForgottenInv
<1> QED BY TypeCorrect, <1>1, <1>2, <1>3, PTL DEF Spec

-----------------------------------------------------------------------------
(* The promise.  What makes each call leave the table once: it is in one   *)
(* place at a time, the table, the hands of one who answers it, or its     *)
(* channel.                                                                *)
OnceInv ==
    /\ \A t, u \in Takers : \A i \in DOMAIN taken[t], j \in DOMAIN taken[u] :
          taken[t][i] = taken[u][j] => t = u /\ i = j
    /\ \A c \in Requests :
          /\ pc[c] = "result" => \A t \in Takers : c \notin ToSet(taken[t])
          /\ http[c] = "none" => c \notin pending /\ Held(c) = {} /\ Given(c) = {}
          /\ c \in pending => Held(c) = {} /\ Given(c) = {}
          /\ Held(c) # {} => Given(c) = {}
          /\ \A j, k \in Given(c) : j = k

LEMMA VerdictOf ==
    ASSUME NEW t \in Takers
    PROVE  Verdict(t) \in Verdicts /\ Verdict(t) \in Kinds
BY DEF Verdict, Verdicts, Kinds, Terminal

(* Sending adds its own frame to what a call has been given.               *)
LEMMA SendGives ==
    ASSUME TypeOK, NEW c \in Requests, NEW k \in Kinds, Send(c, k), UNCHANGED wire
    PROVE  /\ Given(c)' = Given(c) \cup ({k} \ {"note", "writefailed"})
           /\ \A d \in Requests : d # c => Given(d)' = Given(d)
<1>1. /\ buf' = [buf EXCEPT ![c] = Append(@, k)] /\ buf \in [Requests -> Seq(Kinds)]
      /\ buf[c] \in Seq(Kinds) /\ Len(buf[c]) \in Nat
    BY DEF Send, TypeOK
<1>2. buf'[c] = Append(buf[c], k) /\ \A d \in Requests : d # c => buf'[d] = buf[d]
    BY <1>1
<1>3. /\ DOMAIN buf[c] = 1..Len(buf[c]) /\ DOMAIN buf'[c] = 1..Len(buf[c]) \cup {Len(buf[c]) + 1}
      /\ buf'[c][Len(buf[c]) + 1] = k
      /\ \A i \in 1..Len(buf[c]) : buf'[c][i] = buf[c][i]
    BY <1>1, <1>2
<1>4. ToSet(buf'[c]) = ToSet(buf[c]) \cup {k}
    BY <1>1, <1>3 DEF ToSet
<1>5. Given(c)' = Given(c) \cup ({k} \ {"note", "writefailed"})
    BY <1>4 DEF Given
<1>6. \A d \in Requests : d # c => Given(d)' = Given(d)
    BY <1>2 DEF Given
<1> QED BY <1>5, <1>6

(* The goroutine that writes the frames takes none away.                   *)
LEMMA WriteGives ==
    ASSUME TypeOK, NEW c \in Requests, WriteFrame(c)
    PROVE  \A d \in Requests : Given(d)' = Given(d)
<1>1. /\ buf[c] \in Seq(Kinds) /\ buf[c] # <<>> /\ Len(buf[c]) \in Nat
      /\ wire[c] \in Seq(Kinds) /\ Len(wire[c]) \in Nat
      /\ buf' = [buf EXCEPT ![c] = Tail(@)]
      /\ wire' = [wire EXCEPT ![c] = Append(@, Head(buf[c]))]
      /\ buf \in [Requests -> Seq(Kinds)] /\ wire \in [Requests -> Seq(Kinds)]
    BY DEF WriteFrame, TypeOK
<1>2. /\ buf'[c] = Tail(buf[c]) /\ wire'[c] = Append(wire[c], Head(buf[c]))
      /\ \A d \in Requests : d # c => buf'[d] = buf[d] /\ wire'[d] = wire[d]
    BY <1>1
<1>3. ToSet(buf[c]) = ToSet(Tail(buf[c])) \cup {Head(buf[c])}
  <2>1. /\ DOMAIN buf[c] = 1..Len(buf[c]) /\ DOMAIN Tail(buf[c]) = 1..(Len(buf[c]) - 1)
        /\ \A i \in 1..(Len(buf[c]) - 1) : Tail(buf[c])[i] = buf[c][i + 1]
        /\ Head(buf[c]) = buf[c][1] /\ Len(buf[c]) > 0
      BY <1>1
  <2>2. ASSUME NEW i \in 1..Len(buf[c]), i # 1 PROVE buf[c][i] \in ToSet(Tail(buf[c]))
    <3>1. i - 1 \in 1..(Len(buf[c]) - 1) /\ (i - 1) + 1 = i
        BY <1>1, <2>2
    <3> QED BY <2>1, <3>1 DEF ToSet
  <2>3. ASSUME NEW i \in 1..(Len(buf[c]) - 1) PROVE Tail(buf[c])[i] \in ToSet(buf[c])
    <3>1. i + 1 \in 1..Len(buf[c])
        BY <1>1
    <3> QED BY <2>1, <3>1 DEF ToSet
  <2>4. ToSet(buf[c]) \subseteq ToSet(Tail(buf[c])) \cup {Head(buf[c])}
      BY <2>1, <2>2 DEF ToSet
  <2>5. Head(buf[c]) \in ToSet(buf[c])
    <3>1. 1 \in 1..Len(buf[c])
        BY <1>1, <2>1
    <3> QED BY <2>1, <3>1 DEF ToSet
  <2>6. ToSet(Tail(buf[c])) \subseteq ToSet(buf[c])
      BY <2>1, <2>3 DEF ToSet
  <2> QED BY <2>4, <2>5, <2>6
<1>4. ToSet(wire'[c]) = ToSet(wire[c]) \cup {Head(buf[c])}
  <2> DEFINE h == Head(buf[c])
  <2>1. h \in Kinds /\ wire'[c] = Append(wire[c], h)
      BY <1>1, <1>2
  <2> HIDE DEF h
  <2>2. /\ DOMAIN wire[c] = 1..Len(wire[c])
        /\ DOMAIN wire'[c] = 1..Len(wire[c]) \cup {Len(wire[c]) + 1}
        /\ wire'[c][Len(wire[c]) + 1] = h
        /\ \A i \in 1..Len(wire[c]) : wire'[c][i] = wire[c][i]
      BY <1>1, <2>1
  <2>3. ToSet(wire'[c]) = ToSet(wire[c]) \cup {h}
      BY <1>1, <2>2 DEF ToSet
  <2> QED BY <2>3 DEF h
<1>5. Given(c)' = Given(c)
    BY <1>2, <1>3, <1>4 DEF Given
<1>6. \A d \in Requests : d # c => Given(d)' = Given(d)
    BY <1>2 DEF Given
<1> QED BY <1>5, <1>6

(* Each call taken has one place in the order.                             *)
LEMMA TakeOnce ==
    ASSUME TypeOK, NEW t \in Takers, NEW K \in SUBSET pending, Take(t, K)
    PROVE  \A i, j \in DOMAIN taken'[t] : taken'[t][i] = taken'[t][j] => i = j
<1>1. PICK order \in [1..Cardinality(K) -> K] :
          ToSet(order) = K /\ taken' = [taken EXCEPT ![t] = order]
    BY DEF Take
<1> DEFINE n == Cardinality(K)
<1>2. IsFiniteSet(K) /\ n \in Nat
    BY HopAssumption, FS_Subset, FS_CardinalityType DEF TypeOK
<1>3. IsFiniteSet(1..n) /\ Cardinality(1..n) = n
  <2>1. \A a, b \in Int : /\ IsFiniteSet(a..b)
                          /\ Cardinality(a..b) = IF a > b THEN 0 ELSE b - a + 1
      BY FS_Interval
  <2>2. IsFiniteSet(1..n) /\ Cardinality(1..n) = IF 1 > n THEN 0 ELSE n - 1 + 1
      BY <1>2, <2>1
  <2>3. (IF 1 > n THEN 0 ELSE n - 1 + 1) = n
      BY <1>2
  <2> QED BY <2>2, <2>3
<1>4. order \in Surjection(1..n, K)
    BY <1>1 DEF Surjection, ToSet
<1>5. order \in Injection(1..n, K)
    BY <1>2, <1>3, <1>4, FS_SurjSameCardinalityImpliesInj
<1>6. \A i, j \in 1..n : order[i] = order[j] => i = j
    BY <1>1, <1>5 DEF Injection, IsInjective
<1>7. taken'[t] = order /\ DOMAIN order = 1..n
    BY <1>1 DEF TypeOK
<1> QED BY <1>6, <1>7

(* What a step does to the places of the calls, one case for each action   *)
(* of Correlation, and none.                                               *)
Same(S) ==
    /\ \A d \in Requests \ S : Held(d)' = Held(d) /\ Given(d)' = Given(d)
    /\ \A d \in Requests \ S : http'[d] = "none" <=> http[d] = "none"

Still == pending' = pending /\ Same({})

Enters(c) ==
    /\ http[c] = "none" /\ http'[c] # "none" /\ pending' = pending \cup {c}
    /\ Same({c})

Refuses(c) ==
    /\ http[c] = "none" /\ http'[c] # "none" /\ pending' = pending
    /\ Given(c)' = {"limited"} /\ Same({c})

Drops(c) == http[c] # "none" /\ pending' = pending \ {c} /\ Same({})

Owes(K, v) ==
    /\ pending' = pending \ K /\ Same(K)
    /\ \A d \in K : Held(d)' = {v}

Delivers(c, k) ==
    /\ http'[c] # "none" /\ pending' = pending /\ Same({c})
    /\ k \in Held(c) /\ Held(c)' = {} /\ Given(c)' \in {{}, {k}}

Effect ==
    \/ Still
    \/ \E c \in Requests : Enters(c) \/ Refuses(c) \/ Drops(c)
    \/ \E K \in SUBSET pending, v \in Verdicts : Owes(K, v)
    \/ \E c \in Requests, k \in Verdicts : Delivers(c, k)

(* Steps that leave the takers alone and deliver no result hold what was   *)
(* held.                                                                   *)
LEMMA HeldKept ==
    ASSUME UNCHANGED taken, NEW d \in Requests, pc'[d] = "result" <=> pc[d] = "result"
    PROVE  Held(d)' = Held(d)
BY DEF Held

LEMMA StillEffect ==
    ASSUME OnceInv, UNCHANGED <<pending, taken>>,
           \A d \in Requests : pc'[d] = "result" <=> pc[d] = "result",
           \A d \in Requests : Given(d)' = Given(d),
           \A d \in Requests : http'[d] = "none" <=> http[d] = "none"
    PROVE  OnceInv' /\ Effect
<1>1. \A d \in Requests : Held(d)' = Held(d)
    BY HeldKept
<1> QED BY <1>1 DEF OnceInv, Effect, Still, Same

(* The steps that end a call in the table: a taker, or its own result.     *)
LEMMA TakeEffect ==
    ASSUME TypeOK, OnceInv, NEW t \in Takers, NEW K \in SUBSET pending, Take(t, K),
           UNCHANGED <<pc, http, buf, wire>>
    PROVE  OnceInv' /\ Effect
<1>1. /\ pending' = pending \ K /\ ToSet(taken'[t]) = K /\ taken[t] = <<>>
      /\ \A u \in Takers : u # t => taken'[u] = taken[u]
    BY TakeType
<1>2. \A i, j \in DOMAIN taken'[t] : taken'[t][i] = taken'[t][j] => i = j
    BY TakeOnce
<1>3. K \subseteq Requests /\ ToSet(taken[t]) = {}
    BY <1>1 DEF TypeOK, ToSet
<1>4. \A d \in Requests : Given(d)' = Given(d)
    BY DEF Given
<1>5. \A d \in K : Held(d)' = {Verdict(t)}
  <2> SUFFICES ASSUME NEW d \in K PROVE Held(d)' = {Verdict(t)}
      OBVIOUS
  <2>1. Held(d) = {}
      BY <1>3 DEF OnceInv
  <2>2. pc[d] # "result" /\ \A u \in Takers : d \notin ToSet(taken[u])
      BY <2>1, VerdictOf DEF Held, Verdicts
  <2>3. \A u \in Takers : d \in ToSet(taken'[u]) <=> u = t
      BY <1>1, <2>2
  <2> QED BY <2>2, <2>3, VerdictOf DEF Held
<1>6. \A d \in Requests \ K : Held(d)' = Held(d)
  <2> SUFFICES ASSUME NEW d \in Requests \ K PROVE Held(d)' = Held(d)
      OBVIOUS
  <2>1. \A u \in Takers : d \in ToSet(taken'[u]) <=> d \in ToSet(taken[u])
      BY <1>1, <1>3
  <2> QED BY <2>1 DEF Held
<1>7. ASSUME NEW u \in Takers, NEW w \in Takers, NEW i \in DOMAIN taken'[u],
             NEW j \in DOMAIN taken'[w], taken'[u][i] = taken'[w][j]
      PROVE  u = w /\ i = j
  <2>1. ASSUME NEW x \in Takers, x # t, NEW n \in DOMAIN taken[x] PROVE taken[x][n] \notin K
    <3>1. taken[x][n] \in ToSet(taken[x])
        BY DEF ToSet
    <3>2. taken[x][n] \in K => Verdict(x) \in Held(taken[x][n])
        BY <3>1, VerdictOf DEF Held
    <3> QED BY <1>3, <3>2 DEF OnceInv
  <2>2. ASSUME NEW n \in DOMAIN taken'[t] PROVE taken'[t][n] \in K
      BY <1>1 DEF ToSet
  <2>3. CASE u = t /\ w = t
      BY <1>2, <1>7, <2>3
  <2>4. CASE u # t /\ w # t
      BY <1>1, <1>7, <2>4 DEF OnceInv
  <2>5. CASE u = t /\ w # t
      BY <1>1, <1>7, <2>1, <2>2, <2>5
  <2>6. CASE u # t /\ w = t
      BY <1>1, <1>7, <2>1, <2>2, <2>6
  <2> QED BY <2>3, <2>4, <2>5, <2>6
<1>8. \A d \in Requests : pc'[d] = "result" => \A u \in Takers : d \notin ToSet(taken'[u])
  <2> SUFFICES ASSUME NEW d \in Requests, pc'[d] = "result", NEW u \in Takers
               PROVE  d \notin ToSet(taken'[u])
      OBVIOUS
  <2>1. "result" \in Held(d)
      BY DEF Held, Verdicts
  <2>2. d \notin K
      BY <2>1 DEF OnceInv
  <2>3. d \notin ToSet(taken[u])
      BY DEF OnceInv
  <2> QED BY <1>1, <2>2, <2>3
<1>9. OnceInv'
  <2>1. ASSUME NEW d \in Requests
        PROVE  /\ http'[d] = "none" => d \notin pending' /\ Held(d)' = {} /\ Given(d)' = {}
               /\ d \in pending' => Held(d)' = {} /\ Given(d)' = {}
               /\ Held(d)' # {} => Given(d)' = {}
               /\ \A j, k \in Given(d)' : j = k
    <3>1. CASE d \in K
        BY <1>1, <1>4, <3>1 DEF OnceInv
    <3>2. CASE d \notin K
        BY <1>1, <1>4, <1>6, <3>2 DEF OnceInv
    <3> QED BY <3>1, <3>2
  <2> QED BY <1>7, <1>8, <2>1 DEF OnceInv
<1>10. Owes(K, Verdict(t))
    BY <1>1, <1>4, <1>5, <1>6 DEF Owes, Same
<1> QED BY <1>9, <1>10, VerdictOf DEF Effect

LEMMA ResultEffect ==
    ASSUME TypeOK, OnceInv, NEW c \in Requests, Result(c)
    PROVE  OnceInv' /\ Effect
<1>1. /\ c \in pending /\ pending' = pending \ {c} /\ UNCHANGED <<http, buf, wire, taken>>
      /\ pc'[c] = "result" /\ \A d \in Requests : d # c => pc'[d] = pc[d]
    BY DEF Result, Goto, clientVars, TypeOK
<1>2. \A d \in Requests : Given(d)' = Given(d)
    BY <1>1 DEF Given
<1>3. \A d \in Requests : d # c => Held(d)' = Held(d)
    BY <1>1, HeldKept
<1>4. Held(c) = {} /\ \A t \in Takers : c \notin ToSet(taken[t])
  <2>1. Held(c) = {}
      BY <1>1 DEF OnceInv
  <2> QED BY <2>1, VerdictOf DEF Held
<1>5. Held(c)' = {"result"}
    BY <1>1, <1>4 DEF Held, Verdicts
<1>6. OnceInv'
  <2>1. \A d \in Requests : pc'[d] = "result" => \A t \in Takers : d \notin ToSet(taken'[t])
      BY <1>1, <1>4 DEF OnceInv
  <2>2. ASSUME NEW d \in Requests
        PROVE  /\ http'[d] = "none" => d \notin pending' /\ Held(d)' = {} /\ Given(d)' = {}
               /\ d \in pending' => Held(d)' = {} /\ Given(d)' = {}
               /\ Held(d)' # {} => Given(d)' = {}
               /\ \A j, k \in Given(d)' : j = k
    <3>1. CASE d = c
        BY <1>1, <1>2, <3>1 DEF OnceInv
    <3>2. CASE d # c
        BY <1>1, <1>2, <1>3, <3>2 DEF OnceInv
    <3> QED BY <3>1, <3>2
  <2> QED BY <1>1, <2>1, <2>2 DEF OnceInv
<1>7. Owes({c}, "result")
    BY <1>1, <1>2, <1>3, <1>5 DEF Owes, Same
<1>8. {c} \in SUBSET pending /\ "result" \in Verdicts
    BY <1>1 DEF Verdicts
<1> QED BY <1>6, <1>7, <1>8 DEF Effect

(* A call that is responded to has its verdict, or its exchange is over.   *)
LEMMA TellEffect ==
    ASSUME TypeOK, OnceInv, NEW t \in Takers, Tell(t)
    PROVE  OnceInv' /\ Effect
<1>1. /\ taken[t] \in Seq(Requests) /\ taken[t] # <<>> /\ Len(taken[t]) \in Nat
      /\ taken' = [taken EXCEPT ![t] = Tail(@)] /\ taken \in [Takers -> Seq(Requests)]
      /\ UNCHANGED <<pending, pc, http, wire>>
    BY DEF Tell, TypeOK, postVars
<1>2. PICK c \in Requests : c = Head(taken[t])
    BY <1>1
<1>3. /\ DOMAIN taken[t] = 1..Len(taken[t]) /\ DOMAIN Tail(taken[t]) = 1..(Len(taken[t]) - 1)
      /\ \A i \in 1..(Len(taken[t]) - 1) : Tail(taken[t])[i] = taken[t][i + 1]
      /\ c = taken[t][1] /\ Len(taken[t]) > 0
    BY <1>1, <1>2
<1>4. taken'[t] = Tail(taken[t]) /\ \A u \in Takers : u # t => taken'[u] = taken[u]
    BY <1>1
<1>5. 1 \in DOMAIN taken[t] /\ c \in ToSet(taken[t])
  <2>1. 1 \in 1..Len(taken[t])
      BY <1>1, <1>3
  <2> QED BY <1>3, <2>1 DEF ToSet
<1>6. Verdict(t) \in Held(c)
    BY <1>5, VerdictOf DEF Held
<1>7. Given(c) = {} /\ c \notin pending /\ http[c] # "none" /\ pc[c] # "result"
    BY <1>5, <1>6 DEF OnceInv
<1>8. /\ Given(c)' \in {{}, {Verdict(t)}}
      /\ \A d \in Requests : d # c => Given(d)' = Given(d)
  <2>1. CASE Send(c, Verdict(t))
    <3>1. /\ Given(c)' = Given(c) \cup ({Verdict(t)} \ {"note", "writefailed"})
          /\ \A d \in Requests : d # c => Given(d)' = Given(d)
        BY <1>1, <2>1, SendGives, VerdictOf
    <3>2. {Verdict(t)} \ {"note", "writefailed"} = {Verdict(t)}
        BY DEF Verdict
    <3> QED BY <1>7, <3>1, <3>2
  <2>2. CASE Refused(c)
      BY <1>1, <1>7, <2>2 DEF Refused, Given
  <2> QED BY <1>2, <2>1, <2>2 DEF Tell
<1> DEFINE Shift(u, i) == IF u = t THEN i + 1 ELSE i
<1>9. ASSUME NEW u \in Takers, NEW i \in DOMAIN taken'[u]
      PROVE  /\ i \in Nat /\ Shift(u, i) \in DOMAIN taken[u] /\ (u = t => Shift(u, i) # 1)
             /\ taken'[u][i] = taken[u][Shift(u, i)]
  <2>1. CASE u = t
    <3>1. i \in 1..(Len(taken[t]) - 1)
        BY <1>3, <1>4, <2>1
    <3>2. i \in Nat /\ i + 1 \in 1..Len(taken[t]) /\ i + 1 # 1
        BY <1>1, <3>1
    <3>3. taken'[u][i] = taken[t][i + 1]
        BY <1>3, <1>4, <2>1, <3>1
    <3> QED BY <1>3, <2>1, <3>2, <3>3
  <2>2. CASE u # t
    <3>1. DOMAIN taken[u] = 1..Len(taken[u])
        BY <1>1
    <3> QED BY <1>4, <2>2, <3>1
  <2> QED BY <2>1, <2>2
<1>10. ASSUME NEW u \in Takers, NEW i \in DOMAIN taken'[u] PROVE taken'[u][i] # c
  <2>1. /\ Shift(u, i) \in DOMAIN taken[u] /\ (u = t => Shift(u, i) # 1)
        /\ taken'[u][i] = taken[u][Shift(u, i)]
      BY <1>9
  <2> HIDE DEF Shift
  <2> QED BY <1>3, <1>5, <2>1 DEF OnceInv
<1>11. Held(c)' = {}
    BY <1>1, <1>7, <1>10 DEF Held, ToSet
<1>12. ASSUME NEW d \in Requests, d # c PROVE Held(d)' = Held(d)
  <2>1. ASSUME d \in ToSet(taken[t]) PROVE d \in ToSet(taken'[t])
    <3>1. PICK i \in 1..Len(taken[t]) : taken[t][i] = d
        BY <1>3, <2>1 DEF ToSet
    <3>2. i # 1
        BY <1>3, <1>12, <3>1
    <3>3. i - 1 \in 1..(Len(taken[t]) - 1) /\ (i - 1) + 1 = i
        BY <1>1, <3>2
    <3> QED BY <1>3, <1>4, <3>1, <3>3 DEF ToSet
  <2>2. ASSUME d \in ToSet(taken'[t]) PROVE d \in ToSet(taken[t])
    <3>1. PICK i \in DOMAIN taken'[t] : taken'[t][i] = d
        BY <2>2 DEF ToSet
    <3>2. Shift(t, i) \in DOMAIN taken[t] /\ taken'[t][i] = taken[t][Shift(t, i)]
        BY <1>9
    <3> HIDE DEF Shift
    <3> QED BY <3>1, <3>2 DEF ToSet
  <2>3. \A u \in Takers : d \in ToSet(taken'[u]) <=> d \in ToSet(taken[u])
      BY <1>4, <2>1, <2>2
  <2> QED BY <1>1, <2>3 DEF Held
<1>13. ASSUME NEW u \in Takers, NEW w \in Takers, NEW i \in DOMAIN taken'[u],
              NEW j \in DOMAIN taken'[w], taken'[u][i] = taken'[w][j]
       PROVE  u = w /\ i = j
  <2>1. u = w /\ Shift(u, i) = Shift(w, j)
    <3> HIDE DEF Shift
    <3> QED BY <1>9, <1>13 DEF OnceInv
  <2>2. i \in Nat /\ j \in Nat
      BY <1>9
  <2> QED BY <2>1, <2>2
<1>14. OnceInv'
  <2>1. ASSUME NEW d \in Requests, pc'[d] = "result", NEW u \in Takers
        PROVE  d \notin ToSet(taken'[u])
    <3>1. "result" \in Held(d) /\ d # c
        BY <1>1, <1>7, <2>1 DEF Held, Verdicts
    <3>2. \A w \in Takers : d \notin ToSet(taken[w])
        BY <1>1, <2>1 DEF OnceInv
    <3>3. ASSUME NEW i \in DOMAIN taken'[u], taken'[u][i] = d PROVE FALSE
      <4>1. Shift(u, i) \in DOMAIN taken[u] /\ taken'[u][i] = taken[u][Shift(u, i)]
          BY <1>9
      <4> HIDE DEF Shift
      <4> QED BY <3>2, <3>3, <4>1 DEF ToSet
    <3> QED BY <3>3 DEF ToSet
  <2>2. ASSUME NEW d \in Requests
        PROVE  /\ http'[d] = "none" => d \notin pending' /\ Held(d)' = {} /\ Given(d)' = {}
               /\ d \in pending' => Held(d)' = {} /\ Given(d)' = {}
               /\ Held(d)' # {} => Given(d)' = {}
               /\ \A j, k \in Given(d)' : j = k
    <3>1. CASE d = c
        BY <1>1, <1>7, <1>8, <1>11, <3>1
    <3>2. CASE d # c
        BY <1>1, <1>8, <1>12, <3>2 DEF OnceInv
    <3> QED BY <3>1, <3>2
  <2> QED BY <1>13, <2>1, <2>2 DEF OnceInv
<1>15. Delivers(c, Verdict(t))
    BY <1>1, <1>6, <1>7, <1>8, <1>11, <1>12 DEF Delivers, Same
<1> QED BY <1>14, <1>15, VerdictOf DEF Effect

LEMMA ForwardEffect ==
    ASSUME TypeOK, OnceInv, NEW c \in Requests, ForwardResult(c)
    PROVE  OnceInv' /\ Effect
<1>1. /\ pc[c] = "result" /\ pc'[c] = "reading" /\ \A d \in Requests : d # c => pc'[d] = pc[d]
      /\ UNCHANGED <<pending, http, wire, taken>>
    BY DEF ForwardResult, Goto, TypeOK
<1>2. "result" \in Held(c) /\ "result" \in Verdicts /\ "result" \in Kinds
    BY <1>1 DEF Held, Verdicts, Kinds, Terminal
<1>3. Given(c) = {} /\ c \notin pending /\ http[c] # "none"
    BY <1>2 DEF OnceInv
<1>4. \A t \in Takers : c \notin ToSet(taken[t])
    BY <1>1 DEF OnceInv
<1>5. Held(c)' = {}
    BY <1>1, <1>4 DEF Held
<1>6. \A d \in Requests : d # c => Held(d)' = Held(d)
    BY <1>1, HeldKept
<1>7. /\ Given(c)' \in {{}, {"result"}}
      /\ \A d \in Requests : d # c => Given(d)' = Given(d)
  <2>1. CASE Send(c, "result")
    <3>1. /\ Given(c)' = Given(c) \cup ({"result"} \ {"note", "writefailed"})
          /\ \A d \in Requests : d # c => Given(d)' = Given(d)
        BY <1>1, <1>2, <2>1, SendGives
    <3> QED BY <1>3, <3>1
  <2>2. CASE Refused(c)
      BY <1>1, <1>3, <2>2 DEF Refused, Given
  <2> QED BY <2>1, <2>2 DEF ForwardResult
<1>8. OnceInv'
  <2>1. ASSUME NEW d \in Requests
        PROVE  /\ http'[d] = "none" => d \notin pending' /\ Held(d)' = {} /\ Given(d)' = {}
               /\ d \in pending' => Held(d)' = {} /\ Given(d)' = {}
               /\ Held(d)' # {} => Given(d)' = {}
               /\ \A j, k \in Given(d)' : j = k
    <3>1. CASE d = c
        BY <1>1, <1>3, <1>5, <1>7, <3>1
    <3>2. CASE d # c
        BY <1>1, <1>6, <1>7, <3>2 DEF OnceInv
    <3> QED BY <3>1, <3>2
  <2>2. \A d \in Requests : pc'[d] = "result" => \A t \in Takers : d \notin ToSet(taken'[t])
      BY <1>1 DEF OnceInv
  <2> QED BY <1>1, <2>1, <2>2 DEF OnceInv
<1>9. Delivers(c, "result")
    BY <1>1, <1>2, <1>3, <1>5, <1>6, <1>7 DEF Delivers, Same
<1> QED BY <1>2, <1>8, <1>9 DEF Effect

(* The cleanup of an exchange and a failed POST drop the entry, if it is   *)
(* still there.                                                            *)
LEMMA DropEffect ==
    ASSUME TypeOK, OnceInv, NEW c \in Requests,
           pending' = pending \ {c}, UNCHANGED <<taken, buf, wire>>,
           \A d \in Requests : pc'[d] = "result" <=> pc[d] = "result",
           \A d \in Requests : http'[d] = "none" <=> http[d] = "none"
    PROVE  OnceInv' /\ Effect
<1>1. \A d \in Requests : Held(d)' = Held(d) /\ Given(d)' = Given(d)
    BY HeldKept DEF Given
<1>2. OnceInv'
    BY <1>1 DEF OnceInv
<1>3. CASE http[c] = "none"
  <2>1. pending' = pending
      BY <1>3 DEF OnceInv
  <2> QED BY <1>1, <1>2, <2>1 DEF Effect, Still, Same
<1>4. CASE http[c] # "none"
    BY <1>1, <1>2, <1>4 DEF Effect, Drops, Same
<1> QED BY <1>3, <1>4

LEMMA OnceClient ==
    ASSUME TypeOK, OnceInv, NEW c \in Requests, ClientStep(c)
    PROVE  OnceInv' /\ Effect
<1>1. CASE handlePost(c)
  <2>1. /\ http[c] = "none" /\ http'[c] = "serving" /\ pending' = pending \cup {c}
        /\ \A d \in Requests : d # c => http'[d] = http[d] /\ pc'[d] = pc[d]
        /\ pc'[c] = "get" /\ UNCHANGED <<buf, wire, taken>>
      BY <1>1 DEF handlePost, Goto, TypeOK
  <2>2. \A d \in Requests : Given(d)' = Given(d)
      BY <2>1 DEF Given
  <2>3. Held(c) = {} /\ Given(c) = {}
      BY <2>1 DEF OnceInv
  <2>4. pc[c] # "result"
      BY <2>3 DEF Held, Verdicts
  <2>5. \A d \in Requests : Held(d)' = Held(d)
      BY <2>1, <2>4, HeldKept
  <2>6. OnceInv'
    <3>1. ASSUME NEW d \in Requests
          PROVE  /\ http'[d] = "none" => d \notin pending' /\ Held(d)' = {} /\ Given(d)' = {}
                 /\ d \in pending' => Held(d)' = {} /\ Given(d)' = {}
                 /\ Held(d)' # {} => Given(d)' = {}
                 /\ \A j, k \in Given(d)' : j = k
      <4>1. CASE d = c
          BY <2>1, <2>2, <2>3, <2>5, <4>1
      <4>2. CASE d # c
          BY <2>1, <2>2, <2>5, <4>2 DEF OnceInv
      <4> QED BY <4>1, <4>2
    <3>2. \A d \in Requests : pc'[d] = "result" => \A t \in Takers : d \notin ToSet(taken'[t])
        BY <2>1 DEF OnceInv
    <3> QED BY <2>1, <3>1, <3>2 DEF OnceInv
  <2>7. Enters(c)
      BY <2>1, <2>2, <2>5 DEF Enters, Same
  <2> QED BY <2>6, <2>7 DEF Effect
<1>2. CASE RateLimited(c)
  <2>1. /\ http[c] = "none" /\ http'[c] = "serving" /\ UNCHANGED <<pending, wire, taken>>
        /\ \A d \in Requests : d # c => http'[d] = http[d] /\ pc'[d] = pc[d]
        /\ pc'[c] = "done" /\ Send(c, "limited")
      BY <1>2 DEF RateLimited, Goto, TypeOK
  <2>2. Held(c) = {} /\ Given(c) = {} /\ c \notin pending
      BY <2>1 DEF OnceInv
  <2>3. "limited" \in Kinds
      BY DEF Kinds, Terminal
  <2>4. /\ Given(c)' = Given(c) \cup ({"limited"} \ {"note", "writefailed"})
        /\ \A d \in Requests : d # c => Given(d)' = Given(d)
      BY <2>1, <2>3, SendGives
  <2>5. Given(c)' = {"limited"}
      BY <2>2, <2>4
  <2>6. pc[c] # "result"
      BY <2>2 DEF Held, Verdicts
  <2>7. \A d \in Requests : Held(d)' = Held(d)
      BY <2>1, <2>6, HeldKept
  <2>8. OnceInv'
    <3>1. ASSUME NEW d \in Requests
          PROVE  /\ http'[d] = "none" => d \notin pending' /\ Held(d)' = {} /\ Given(d)' = {}
                 /\ d \in pending' => Held(d)' = {} /\ Given(d)' = {}
                 /\ Held(d)' # {} => Given(d)' = {}
                 /\ \A j, k \in Given(d)' : j = k
      <4>1. CASE d = c
          BY <2>1, <2>2, <2>5, <2>7, <4>1
      <4>2. CASE d # c
          BY <2>1, <2>4, <2>7, <4>2 DEF OnceInv
      <4> QED BY <4>1, <4>2
    <3>2. \A d \in Requests : pc'[d] = "result" => \A t \in Takers : d \notin ToSet(taken'[t])
        BY <2>1 DEF OnceInv
    <3> QED BY <2>1, <3>1, <3>2 DEF OnceInv
  <2>9. Refuses(c)
      BY <2>1, <2>4, <2>5, <2>7 DEF Refuses, Same
  <2> QED BY <2>8, <2>9 DEF Effect
<1>3. CASE WriteFrame(c)
  <2>1. UNCHANGED <<pending, pc, taken, http>>
      BY <1>3 DEF WriteFrame, postVars
  <2>2. \A d \in Requests : Given(d)' = Given(d)
      BY <1>3, WriteGives
  <2> QED BY <2>1, <2>2, StillEffect
<1>4. CASE ClientGone(c) \/ CleanupCancels(c)
  <2>1. /\ UNCHANGED <<pending, pc, taken, buf, wire>>
        /\ \A d \in Requests : http'[d] = "none" <=> http[d] = "none"
      BY <1>4 DEF ClientGone, CleanupCancels, postVars, TypeOK
  <2>2. \A d \in Requests : Given(d)' = Given(d)
      BY <2>1 DEF Given
  <2> QED BY <2>1, <2>2, StillEffect
<1>5. CASE CleanupDrops(c)
  <2>1. /\ pending' = pending \ {c} /\ UNCHANGED <<pc, taken, buf, wire>>
        /\ \A d \in Requests : http'[d] = "none" <=> http[d] = "none"
      BY <1>5 DEF CleanupDrops, postVars, TypeOK
  <2> QED BY <2>1, DropEffect
<1> QED BY <1>1, <1>2, <1>3, <1>4, <1>5 DEF ClientStep

LEMMA OncePost ==
    ASSUME TypeOK, OnceInv, NEW c \in Requests, PostStep(c)
    PROVE  OnceInv' /\ Effect
<1>1. CASE GetWriter(c) \/ LoadCallback(c) \/ Register(c) \/ Post(c) \/ Notification(c)
           \/ EndOfBody(c) \/ Leave(c)
  <2>1. /\ UNCHANGED <<pending, taken, http, buf, wire>>
        /\ \A d \in Requests : pc'[d] = "result" <=> pc[d] = "result"
      BY <1>1 DEF GetWriter, LoadCallback, Register, Post, Notification, EndOfBody, Leave,
         Goto, clientVars, TypeOK
  <2>2. \A d \in Requests : Given(d)' = Given(d)
      BY <2>1 DEF Given
  <2> QED BY <2>1, <2>2, StillEffect
<1>2. CASE ForwardNote(c) \/ TellWriteFailed(c)
  <2>1. /\ UNCHANGED <<pending, taken, http, wire>>
        /\ \A d \in Requests : pc'[d] = "result" <=> pc[d] = "result"
      BY <1>2 DEF ForwardNote, TellWriteFailed, Goto, TypeOK
  <2>2. PICK k \in {"note", "writefailed"} : Send(c, k) \/ Refused(c)
      BY <1>2 DEF ForwardNote, TellWriteFailed
  <2>3. k \in Kinds /\ {k} \ {"note", "writefailed"} = {}
      BY DEF Kinds, Terminal
  <2>4. \A d \in Requests : Given(d)' = Given(d)
    <3>1. CASE Send(c, k)
      <4>1. /\ Given(c)' = Given(c) \cup ({k} \ {"note", "writefailed"})
            /\ \A d \in Requests : d # c => Given(d)' = Given(d)
          BY <2>1, <2>3, <3>1, SendGives
      <4> QED BY <2>3, <4>1
    <3>2. CASE Refused(c)
        BY <2>1, <3>2 DEF Refused, Given
    <3> QED BY <2>2, <3>1, <3>2
  <2> QED BY <2>1, <2>4, StillEffect
<1>3. CASE DropFailed(c)
  <2>1. /\ pending' = pending \ {c} /\ UNCHANGED <<http, taken, buf, wire>>
        /\ \A d \in Requests : pc'[d] = "result" <=> pc[d] = "result"
      BY <1>3 DEF DropFailed, Goto, clientVars, TypeOK
  <2> QED BY <2>1, DropEffect
<1> QED BY <1>1, <1>2, <1>3, ResultEffect, ForwardEffect DEF PostStep

LEMMA OnceStep ==
    ASSUME TypeOK, OnceInv, [Next]_vars
    PROVE  OnceInv' /\ Effect
<1>1. ASSUME UNCHANGED <<pending, pc, taken, buf, wire>>,
             \A d \in Requests : http'[d] = "none" <=> http[d] = "none"
      PROVE  OnceInv' /\ Effect
  <2>1. \A d \in Requests : Given(d)' = Given(d)
      BY <1>1 DEF Given
  <2> QED BY <1>1, <2>1, StillEffect
<1>2. CASE \E K \in SUBSET pending : K # {} /\ reapPending(K)
    BY <1>2, TakeEffect DEF reapPending, postVars, clientVars, Takers
<1>3. CASE SupervisorFails \/ MainFails
  <2>1. pending \in SUBSET pending
      OBVIOUS
  <2> QED BY <1>3, <2>1, TakeEffect DEF SupervisorFails, MainFails, postVars, clientVars, Takers
<1>4. CASE StartUpstream \/ StopUpstream
    BY <1>1, <1>4 DEF StartUpstream, StopUpstream, Advance, clientVars
<1>5. CASE Cancel \/ CloseClient
    BY <1>1, <1>5 DEF Cancel, CloseClient, postVars, clientVars
<1>6. CASE UNCHANGED vars
    BY <1>1, <1>6 DEF vars, postVars, clientVars
<1> QED BY <1>2, <1>3, <1>4, <1>5, <1>6, TellEffect, OnceClient, OncePost, StepCases
        DEF TakerStep, LifeStep

(* What the refinement mapping says of a call, by the place it is in.      *)
PhaseSpec ==
    /\ phase = [c \in Requests |-> phase[c]]
    /\ \A c \in Requests :
          /\ c \in pending => phase[c] = Table!Waiting
          /\ \A k \in Held(c) : phase[c] = Table!Settled(k)
          /\ \A k \in Given(c) : phase[c] = Table!Answered(k)
          /\ c \notin pending /\ Held(c) = {} /\ Given(c) = {} =>
                phase[c] = IF http[c] = "none" THEN Table!New ELSE Table!Dropped

(* Whoever holds a call holds it with one verdict.                         *)
LEMMA HeldIsOne ==
    ASSUME OnceInv, NEW c \in Requests
    PROVE  \A j, k \in Held(c) : j = k
<1> SUFFICES ASSUME NEW j \in Held(c), NEW k \in Held(c) PROVE j = k
    OBVIOUS
<1>1. CASE pc[c] = "result"
    BY <1>1 DEF OnceInv, Held
<1>2. CASE pc[c] # "result"
  <2>1. PICK t \in Takers : c \in ToSet(taken[t]) /\ j = Verdict(t)
      BY <1>2 DEF Held
  <2>2. PICK u \in Takers : c \in ToSet(taken[u]) /\ k = Verdict(u)
      BY <1>2 DEF Held
  <2>3. PICK m \in DOMAIN taken[t] : c = taken[t][m]
      BY <2>1 DEF ToSet
  <2>4. PICK n \in DOMAIN taken[u] : c = taken[u][n]
      BY <2>2 DEF ToSet
  <2>5. t = u
      BY <2>3, <2>4 DEF OnceInv
  <2> QED BY <2>1, <2>2, <2>5
<1> QED BY <1>1, <1>2

LEMMA PhaseByPlace == OnceInv => PhaseSpec
<1> SUFFICES ASSUME OnceInv PROVE PhaseSpec
    OBVIOUS
<1> DEFINE Value(c) ==
        CASE c \in pending -> [at |-> "waiting", verdict |-> "none"]
          [] Held(c) # {} -> [at |-> "settled", verdict |-> CHOOSE k \in Held(c) : TRUE]
          [] Given(c) # {} -> [at |-> "answered", verdict |-> CHOOSE k \in Given(c) : TRUE]
          [] OTHER -> [at |-> IF http[c] = "none" THEN "new" ELSE "dropped",
                       verdict |-> "none"]
<1>1. phase = [c \in Requests |-> Value(c)]
    BY DEF phase
<1>2. phase = [c \in Requests |-> phase[c]] /\ \A c \in Requests : phase[c] = Value(c)
    BY <1>1
<1>3. ASSUME NEW c \in Requests
      PROVE  /\ c \in pending => phase[c] = Table!Waiting
             /\ \A k \in Held(c) : phase[c] = Table!Settled(k)
             /\ \A k \in Given(c) : phase[c] = Table!Answered(k)
             /\ c \notin pending /\ Held(c) = {} /\ Given(c) = {} =>
                   phase[c] = IF http[c] = "none" THEN Table!New ELSE Table!Dropped
  <2>1. ASSUME c \in pending PROVE phase[c] = Table!Waiting
    <3>1. Held(c) = {} /\ Given(c) = {}
        BY <2>1 DEF OnceInv
    <3> QED BY <1>2, <2>1, <3>1 DEF Table!Waiting
  <2>2. ASSUME NEW k \in Held(c) PROVE phase[c] = Table!Settled(k)
    <3>1. c \notin pending /\ Held(c) # {} /\ Given(c) = {}
        BY <2>2 DEF OnceInv
    <3>2. (CHOOSE j \in Held(c) : TRUE) = k
        BY <2>2, HeldIsOne
    <3> QED BY <1>2, <3>1, <3>2 DEF Table!Settled
  <2>3. ASSUME NEW k \in Given(c) PROVE phase[c] = Table!Answered(k)
    <3>1. c \notin pending /\ Held(c) = {} /\ Given(c) # {}
        BY <2>3 DEF OnceInv
    <3>2. (CHOOSE j \in Given(c) : TRUE) = k
        BY <2>3 DEF OnceInv
    <3> QED BY <1>2, <3>1, <3>2 DEF Table!Answered
  <2>4. ASSUME c \notin pending, Held(c) = {}, Given(c) = {}
        PROVE  phase[c] = IF http[c] = "none" THEN Table!New ELSE Table!Dropped
      BY <1>2, <2>4 DEF Table!New, Table!Dropped
  <2> QED BY <2>1, <2>2, <2>3, <2>4
<1> HIDE DEF Value
<1> QED BY <1>2, <1>3 DEF PhaseSpec

LEMMA OneMoves ==
    ASSUME PhaseSpec, PhaseSpec', NEW c \in Requests, NEW from, NEW to,
           phase[c] = from, phase'[c] = to,
           \A d \in Requests : d # c => phase'[d] = phase[d]
    PROVE  Table!Move(c, from, to)
BY DEF PhaseSpec, Table!Move

LEMMA SamePlace ==
    ASSUME PhaseSpec, PhaseSpec', OnceInv, OnceInv', NEW c \in Requests,
           c \in pending' <=> c \in pending, Held(c)' = Held(c), Given(c)' = Given(c),
           http'[c] = "none" <=> http[c] = "none"
    PROVE  phase'[c] = phase[c]
<1>1. CASE c \in pending
    BY <1>1 DEF PhaseSpec
<1>2. CASE Held(c) # {}
    BY <1>2 DEF PhaseSpec
<1>3. CASE Given(c) # {}
    BY <1>3 DEF PhaseSpec
<1>4. CASE c \notin pending /\ Held(c) = {} /\ Given(c) = {}
    BY <1>4 DEF PhaseSpec
<1> QED BY <1>1, <1>2, <1>3, <1>4

LEMMA PromiseStep ==
    ASSUME OnceInv, OnceInv', PhaseSpec, PhaseSpec', pending \subseteq Requests, Effect
    PROVE  Table!Next \/ UNCHANGED phase
<1> USE DEF Same
<1>1. CASE Still
  <2>1. \A c \in Requests : phase'[c] = phase[c]
      BY <1>1, SamePlace DEF Still
  <2> QED BY <2>1 DEF PhaseSpec
<1>2. ASSUME NEW c \in Requests, Enters(c) PROVE Table!Next
  <2>1. phase[c] = Table!New /\ phase'[c] = Table!Waiting
      BY <1>2 DEF Enters, PhaseSpec, OnceInv
  <2>2. \A d \in Requests : d # c => phase'[d] = phase[d]
      BY <1>2, SamePlace DEF Enters
  <2>3. Table!Accept(c)
      BY <2>1, <2>2, OneMoves DEF Table!Accept
  <2> QED BY <2>3 DEF Table!Next
<1>3. ASSUME NEW c \in Requests, Refuses(c) PROVE Table!Next
  <2>1. phase[c] = Table!New
      BY <1>3 DEF Refuses, PhaseSpec, OnceInv
  <2>2. phase'[c] = Table!Answered("limited")
      BY <1>3 DEF Refuses, PhaseSpec
  <2>3. \A d \in Requests : d # c => phase'[d] = phase[d]
      BY <1>3, SamePlace DEF Refuses
  <2>4. Table!Refuse(c)
      BY <2>1, <2>2, <2>3, OneMoves DEF Table!Refuse
  <2> QED BY <2>4 DEF Table!Next
<1>4. ASSUME NEW c \in Requests, Drops(c) PROVE Table!Next \/ UNCHANGED phase
  <2>1. \A d \in Requests : d # c => phase'[d] = phase[d]
      BY <1>4, SamePlace DEF Drops
  <2>2. CASE c \in pending
    <3>1. phase[c] = Table!Waiting
        BY <2>2 DEF PhaseSpec
    <3>2. c \notin pending' /\ Held(c)' = {} /\ Given(c)' = {} /\ http'[c] # "none"
        BY <1>4, <2>2 DEF Drops, OnceInv
    <3>3. phase'[c] = Table!Dropped
        BY <3>2 DEF PhaseSpec
    <3>4. Table!Drop(c)
        BY <2>1, <3>1, <3>3, OneMoves DEF Table!Drop
    <3> QED BY <3>4 DEF Table!Next
  <2>3. CASE c \notin pending
    <3>1. phase'[c] = phase[c]
        BY <1>4, <2>3, SamePlace DEF Drops
    <3> QED BY <2>1, <3>1 DEF PhaseSpec
  <2> QED BY <2>2, <2>3
<1>5. ASSUME NEW K \in SUBSET pending, NEW v \in Verdicts, Owes(K, v) PROVE Table!Next
  <2>1. \A c \in K : phase[c] = Table!Waiting
      BY DEF PhaseSpec
  <2>2. \A c \in K : phase'[c] = Table!Settled(v)
    <3>1. \A c \in K : v \in Held(c)'
        BY <1>5 DEF Owes
    <3> QED BY <3>1 DEF PhaseSpec
  <2>3. \A c \in Requests \ K : phase'[c] = phase[c]
      BY <1>5, SamePlace DEF Owes
  <2>4. phase' = [c \in Requests |-> IF c \in K THEN Table!Settled(v) ELSE phase[c]]
      BY <2>2, <2>3 DEF PhaseSpec
  <2>5. Table!Settle(K, v)
      BY <2>1, <2>4 DEF Table!Settle
  <2>6. K \in SUBSET Requests
      OBVIOUS
  <2> QED BY <2>5, <2>6 DEF Table!Next
<1>6. ASSUME NEW c \in Requests, NEW k \in Verdicts, Delivers(c, k) PROVE Table!Next
  <2>1. phase[c] = Table!Settled(k)
      BY <1>6 DEF Delivers, PhaseSpec
  <2>2. \A d \in Requests : d # c => phase'[d] = phase[d]
      BY <1>6, SamePlace DEF Delivers, OnceInv
  <2>3. CASE k \in Given(c)'
    <3>1. phase'[c] = Table!Answered(k)
        BY <2>3 DEF PhaseSpec
    <3>2. Table!Answer(c, k)
        BY <2>1, <2>2, <3>1, OneMoves DEF Table!Answer
    <3> QED BY <3>2 DEF Table!Next
  <2>4. CASE Given(c)' = {}
    <3>1. c \notin pending' /\ Held(c)' = {} /\ http'[c] # "none"
        BY <1>6 DEF Delivers, OnceInv
    <3>2. phase'[c] = Table!Dropped
        BY <2>4, <3>1 DEF PhaseSpec
    <3>3. Table!Lose(c, k)
        BY <2>1, <2>2, <3>2, OneMoves DEF Table!Lose
    <3> QED BY <3>3 DEF Table!Next
  <2> QED BY <1>6, <2>3, <2>4 DEF Delivers
<1> QED BY <1>1, <1>2, <1>3, <1>4, <1>5, <1>6 DEF Effect

LEMMA OnceInit == ASSUME Init PROVE OnceInv
<1>1. \A t \in Takers : DOMAIN taken[t] = {} /\ ToSet(taken[t]) = {}
    BY DEF Init, ToSet
<1>2. \A c \in Requests : Held(c) = {} /\ Given(c) = {} /\ c \notin pending /\ pc[c] = "idle"
    BY <1>1 DEF Init, Held, Given, ToSet
<1> QED BY <1>1, <1>2 DEF OnceInv

(* The exchanges keep the promise of Correlation: a call leaves the table  *)
(* once, however its result, the sweeper, the supervisor, a stop and the   *)
(* end of its exchange race for it, and its verdict is put in its channel  *)
(* once or lost with the exchange.                                         *)
THEOREM PromiseKept == Spec => Promise
<1>1. Init => OnceInv
    BY OnceInit
<1>2. TypeOK /\ OnceInv /\ [Next]_vars => OnceInv'
    BY OnceStep
<1>3. Init /\ PhaseSpec => Table!Init
  <2> SUFFICES ASSUME Init, PhaseSpec PROVE Table!Init
      OBVIOUS
  <2>1. \A c \in Requests : /\ Held(c) = {} /\ Given(c) = {} /\ c \notin pending
                            /\ http[c] = "none"
      BY OnceInit DEF Init, OnceInv
  <2>2. \A c \in Requests : phase[c] = Table!New
      BY <2>1 DEF PhaseSpec
  <2> QED BY <2>2 DEF PhaseSpec, Table!Init
<1>4. TypeOK /\ OnceInv /\ OnceInv' /\ PhaseSpec /\ PhaseSpec' /\ [Next]_vars
         => [Table!Next]_phase
    BY OnceStep, PromiseStep DEF TypeOK
<1> QED BY <1>1, <1>2, <1>3, <1>4, TypeCorrect, PhaseByPlace, PTL
        DEF Spec, Promise, Table!Spec
=============================================================================
