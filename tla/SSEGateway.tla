----------------------------- MODULE SSEGateway -----------------------------
(* MCP Arc as a shared gateway: several SSE clients in front of one stdio  *)
(* upstream.  The calls of all of them meet at the upstream's stdin, where *)
(* a message is two writes without a lock, and at its stdout, which one    *)
(* goroutine reads and answers from, waiting up to five seconds for a      *)
(* client that does not drain its queue.  The table of calls is that of    *)
(* Proxy, here without its ids; `respond` is that of SSEServer.            *)
EXTENDS Naturals, SequencesExt

CONSTANTS
    Sessions,    \* SSE connections
    Requests,    \* messages posted to them
    Session,     \* the session of a request
    QueueSize,   \* capacity of sess.ch
    LineSize,    \* capacity of `lines`
    MaxNotes     \* bound on the upstream's notifications

ASSUME GatewayAssumption ==
    /\ IsFiniteSet(Requests) /\ Requests \cap {"newline", "overlong", "note"} = {}
    /\ Session \in [Requests -> Sessions]
    /\ QueueSize \in Nat \ {0} /\ LineSize \in Nat \ {0}
    /\ MaxNotes \in Nat

VARIABLES
    pending,     \* requests in p.pending
    pc,          \* where the goroutine of a request is
    session,     \* "open" or "gone"
    queue,       \* number of frames in sess.ch
    told,        \* history: the frames sessions have accepted
    owed,        \* frames a goroutine has taken out of the table to respond with
    refused,     \* history: requests whose frame a full queue refused
    sup,         \* where the supervisor is
    writing,     \* whether upstreamWriter is set
    alive,       \* whether the process runs
    stdin,       \* what is in its stdin: payloads and newlines
    asked,       \* requests it has read and not answered
    stdout,      \* lines it has written
    scan,        \* the reading goroutine: "on", "cut" by a long line, "closed"
    lines,       \* lines read
    notes,       \* number of its notifications
    overlapped,  \* history: requests written while another was half written
    answered     \* history: requests it has answered with a whole line

calls == <<pending, pc, overlapped>>
clients == <<session, queue, told, refused>>
process == <<alive, stdin, asked, notes, answered>>
reader == <<stdout, scan, lines>>
vars == <<pending, pc, overlapped, session, queue, told, refused, owed, sup,
          writing, alive, stdin, asked, notes, answered, stdout, scan, lines>>

Takers == {"sweeper", "supervisor"}
Verdict(t) == IF t = "sweeper" THEN "timeout" ELSE "disconnected"
Newline == "newline"
Long == "overlong"
Note == "note"

Frame(kind, r) == [kind |-> kind, of |-> r]
Frames == [kind : {"result", "failed", "timeout", "disconnected"}, of : Requests]

Init ==
    /\ pending = {} /\ overlapped = {} /\ refused = {} /\ answered = {} /\ asked = {}
    /\ pc = [r \in Requests |-> "new"]
    /\ session = [s \in Sessions |-> "open"]
    /\ queue = [s \in Sessions |-> 0] /\ told = {}
    /\ owed = [t \in Takers |-> <<>>]
    /\ sup = "dial" /\ writing = FALSE
    /\ alive = FALSE /\ stdin = <<>> /\ notes = 0
    /\ stdout = <<>> /\ scan = "closed" /\ lines = <<>>

-----------------------------------------------------------------------------
(* The client side.                                                        *)

(* The client goes away; calls of its session stay in the table.           *)
Disconnect(s) ==
    /\ session[s] = "open"
    /\ session' = [session EXCEPT ![s] = "gone"]
    /\ UNCHANGED <<calls, queue, told, refused, owed, sup, writing, process, reader>>

(* The writer goroutine of a session; nothing makes a client read.         *)
WriteFrame(s) ==
    /\ session[s] = "open" /\ queue[s] > 0
    /\ queue' = [queue EXCEPT ![s] = @ - 1]
    /\ UNCHANGED <<calls, session, told, refused, owed, sup, writing, process, reader>>

(* handleMessages: the request enters the table, its goroutine starts.     *)
handleMessages(r) ==
    /\ pc[r] = "new" /\ session[Session[r]] = "open"
    /\ pending' = pending \cup {r}
    /\ pc' = [pc EXCEPT ![r] = "get"]
    /\ UNCHANGED <<overlapped, clients, owed, sup, writing, process, reader>>

Full(s) == queue[s] = QueueSize

Accept(f) ==
    /\ ~Full(Session[f.of])
    /\ queue' = [queue EXCEPT ![Session[f.of]] = @ + 1]
    /\ told' = told \cup {f}
    /\ UNCHANGED refused

Ended(f) == session[Session[f.of]] = "gone" /\ UNCHANGED <<queue, told, refused>>

(* Mutant: the queue is tried once, as for a broadcast.                    *)
RespondOnce(f) ==
    Accept(f) \/ (Full(Session[f.of]) /\ UNCHANGED <<queue, told, refused>>)

(* Mutant: without the five seconds.                                       *)
RespondForEver(f) == Accept(f) \/ Ended(f)

(* respond: the frame is queued, or the session has ended, or its queue    *)
(* stays full for five seconds; a goroutine in here does nothing else.     *)
Respond(f) ==
    \/ Accept(f)
    \/ Ended(f)
    \/ /\ Full(Session[f.of])
       /\ refused' = refused \cup {f.of}
       /\ UNCHANGED <<queue, told>>

(* Broadcast leaves out the sessions whose queue is full.                  *)
Broadcast ==
    queue' = [s \in Sessions |->
                 IF session[s] = "open" /\ ~Full(s) THEN queue[s] + 1 ELSE queue[s]]

-----------------------------------------------------------------------------
(* The goroutine of a request: writeUpstream and StdioUpstream.Write.      *)

Goto(r, to) == pc' = [pc EXCEPT ![r] = to]

(* Before the first connect it may also wait for one here.                 *)
GetWriter(r) ==
    /\ pc[r] = "get"
    /\ Goto(r, IF writing THEN "payload" ELSE "failed")
    /\ UNCHANGED <<pending, overlapped, clients, owed, sup, writing, process, reader>>

Put(token) == stdin' = Append(stdin, token) /\ UNCHANGED <<alive, asked, notes, answered>>

(* A write to a process that has gone fails.                               *)
WriteFails(r) ==
    /\ pc[r] \in {"payload", "newline"} /\ ~alive
    /\ Goto(r, "failed")
    /\ UNCHANGED <<pending, overlapped, clients, owed, sup, writing, process, reader>>

WritePayload(r) ==
    /\ pc[r] = "payload" /\ alive
    /\ Put(r)
    /\ Goto(r, "newline")
    /\ LET half == {q \in Requests : pc[q] = "newline"}
       IN  overlapped' = IF half = {} THEN overlapped ELSE overlapped \cup half \cup {r}
    /\ UNCHANGED <<pending, clients, owed, sup, writing, reader>>

WriteNewline(r) ==
    /\ pc[r] = "newline" /\ alive
    /\ Put(Newline)
    /\ Goto(r, "sent")
    /\ UNCHANGED <<pending, overlapped, clients, owed, sup, writing, reader>>

TellFailed(r) ==
    /\ pc[r] = "failed"
    /\ Respond(Frame("failed", r))
    /\ Goto(r, "drop")
    /\ UNCHANGED <<pending, overlapped, session, owed, sup, writing,
                   process, reader>>

dropPending(r) ==
    /\ pc[r] = "drop"
    /\ pending' = pending \ {r}
    /\ Goto(r, "done")
    /\ UNCHANGED <<overlapped, clients, owed, sup, writing, process, reader>>

-----------------------------------------------------------------------------
(* The upstream process, which is external: it reads lines, answers what   *)
(* it can read in any order or not at all, notifies, and may die.          *)

(* A line of more than one payload is no message, an empty one is skipped. *)
ReadLine ==
    /\ alive
    /\ \E n \in DOMAIN stdin :
          /\ stdin[n] = Newline /\ \A k \in 1..(n - 1) : stdin[k] # Newline
          /\ asked' = IF n = 2 THEN asked \cup {stdin[1]} ELSE asked
          /\ stdin' = SubSeq(stdin, n + 1, Len(stdin))
    /\ UNCHANGED <<calls, clients, owed, sup, writing, alive, notes, answered,
                   reader>>

Emit(line) == stdout' = Append(stdout, line)

Answer(r) ==
    /\ alive /\ r \in asked
    /\ asked' = asked \ {r}
    /\ \/ Emit(r) /\ answered' = answered \cup {r}
       \/ Emit(Long) /\ UNCHANGED answered     \* beyond the scanner's 16 MiB
    /\ UNCHANGED <<calls, clients, owed, sup, writing, alive, stdin, notes, scan,
                   lines>>

Notify ==
    /\ alive /\ notes < MaxNotes
    /\ notes' = notes + 1
    /\ Emit(Note)
    /\ UNCHANGED <<calls, clients, owed, sup, writing, alive, stdin, asked, answered,
                   scan, lines>>

Die ==
    /\ alive
    /\ alive' = FALSE /\ stdin' = <<>> /\ asked' = {}
    /\ UNCHANGED <<calls, clients, owed, sup, writing, notes, answered, reader>>

-----------------------------------------------------------------------------
(* StdioUpstream.Run: one goroutine scans stdout, the supervisor's handles *)
(* the lines.                                                              *)

(* The scanner gives up at a line it cannot hold, or at the end.           *)
Scan ==
    /\ scan = "on"
    /\ \/ /\ stdout # <<>> /\ Head(stdout) # Long /\ Len(lines) < LineSize
          /\ lines' = Append(lines, Head(stdout))
          /\ stdout' = Tail(stdout)
          /\ UNCHANGED scan
       \/ /\ stdout # <<>> /\ Head(stdout) = Long
          /\ scan' = "cut" /\ UNCHANGED <<stdout, lines>>
       \/ /\ stdout = <<>> /\ ~alive
          /\ scan' = "closed" /\ UNCHANGED <<stdout, lines>>
    /\ UNCHANGED <<calls, clients, owed, sup, writing, process>>

Idle(t) == owed[t] = <<>>

(* processUpstreamMessage: the entry is taken and answered, a notification *)
(* broadcast, and an id that is not in the table ignored.                  *)
HandleLine ==
    /\ sup = "running" /\ Idle("supervisor") /\ lines # <<>>
    /\ lines' = Tail(lines)
    /\ LET l == Head(lines) IN
         \/ l = Note /\ Broadcast /\ UNCHANGED <<pending, owed>>
         \/ /\ l \in pending
            /\ pending' = pending \ {l}
            /\ owed' = [owed EXCEPT !["supervisor"] = <<Frame("result", l)>>]
            /\ UNCHANGED queue
         \/ l \notin pending \cup {Note} /\ UNCHANGED <<pending, owed, queue>>
    /\ UNCHANGED <<pc, overlapped, session, told, refused, sup, writing, process,
                   stdout, scan>>

(* Mutant: the loop ends with the scanner, not with its lines.             *)
RunEndsEarly ==
    /\ sup = "running" /\ Idle("supervisor")
    /\ scan # "on"
    /\ sup' = "returned"
    /\ UNCHANGED <<calls, clients, owed, writing, process, reader>>

(* The channel of lines is closed and empty.                               *)
RunReturns ==
    /\ sup = "running" /\ Idle("supervisor")
    /\ scan # "on" /\ lines = <<>>
    /\ sup' = "returned"
    /\ UNCHANGED <<calls, clients, owed, writing, process, reader>>

-----------------------------------------------------------------------------
(* The supervisor and the sweeper.  One process is followed to its end;    *)
(* what a reconnect adds is in Proxy.                                      *)

Start ==
    /\ sup = "dial"
    /\ alive' = TRUE /\ writing' = TRUE /\ scan' = "on"
    /\ sup' = "running"
    /\ UNCHANGED <<calls, clients, owed, stdin, asked, notes, answered, stdout, lines>>

CloseUpstream ==
    /\ sup = "returned"
    /\ alive' = FALSE /\ stdin' = <<>> /\ asked' = {}
    /\ sup' = "closed"
    /\ UNCHANGED <<calls, clients, owed, writing, notes, answered, reader>>

ClearWriter ==
    /\ sup = "closed"
    /\ writing' = FALSE
    /\ sup' = "cleared"
    /\ UNCHANGED <<calls, clients, owed, process, reader>>

(* Mutant: the entries are read and not deleted.                           *)
TakeCopies(t, R) ==
    /\ Idle(t)
    /\ UNCHANGED pending
    /\ \E order \in [1..Cardinality(R) -> R] :
          /\ Range(order) = R
          /\ owed' = [owed EXCEPT ![t] = [i \in DOMAIN order |-> Frame(Verdict(t), order[i])]]

(* A set of requests leaves the table, in the order of a map.              *)
Take(t, R) ==
    /\ Idle(t)
    /\ pending' = pending \ R
    /\ \E order \in [1..Cardinality(R) -> R] :
          /\ Range(order) = R
          /\ owed' = [owed EXCEPT ![t] = [i \in DOMAIN order |-> Frame(Verdict(t), order[i])]]

failPendingUpstreamDown ==
    /\ sup = "cleared"
    /\ Take("supervisor", pending)
    /\ sup' = "failed"
    /\ UNCHANGED <<pc, overlapped, clients, writing, process, reader>>

reapPending ==
    /\ \E R \in SUBSET pending : R # {} /\ Take("sweeper", R)
    /\ UNCHANGED <<pc, overlapped, clients, sup, writing, process, reader>>

RespondNext(t) ==
    /\ ~Idle(t)
    /\ Respond(Head(owed[t]))
    /\ owed' = [owed EXCEPT ![t] = Tail(@)]
    /\ UNCHANGED <<calls, session, sup, writing, process, reader>>

Goroutine(r) ==
    \/ GetWriter(r) \/ WritePayload(r) \/ WriteNewline(r) \/ WriteFails(r)
    \/ TellFailed(r) \/ dropPending(r)

Supervisor ==
    \/ Start \/ HandleLine \/ RunReturns \/ CloseUpstream \/ ClearWriter
    \/ failPendingUpstreamDown \/ RespondNext("supervisor")

Next ==
    \/ \E s \in Sessions : Disconnect(s) \/ WriteFrame(s)
    \/ \E r \in Requests : handleMessages(r) \/ Goroutine(r) \/ Answer(r)
    \/ ReadLine \/ Notify \/ Die
    \/ Scan \/ Supervisor
    \/ reapPending \/ RespondNext("sweeper")

Spec == Init /\ [][Next]_vars

(* The two goroutines of the upstream connection are scheduled.  Clients,  *)
(* the upstream, the sweeper's clock and the other goroutines owe nothing; *)
(* a frame for a client that never reads is given up by the timeout of     *)
(* respond.                                                                *)
FairSpec == Spec /\ WF_vars(Scan) /\ WF_vars(Supervisor)

-----------------------------------------------------------------------------
TypeOK ==
    /\ pending \subseteq Requests /\ refused \subseteq Requests
    /\ overlapped \subseteq Requests /\ answered \subseteq Requests /\ asked \subseteq Requests
    /\ pc \in [Requests -> {"new", "get", "payload", "newline", "sent", "failed", "drop", "done"}]
    /\ session \in [Sessions -> {"open", "gone"}]
    /\ queue \in [Sessions -> 0..QueueSize] /\ told \subseteq Frames
    /\ owed \in [Takers -> Seq(Frames)]
    /\ sup \in {"dial", "running", "returned", "closed", "cleared", "failed"}
    /\ writing \in BOOLEAN /\ alive \in BOOLEAN
    /\ stdin \in Seq(Requests \cup {Newline})
    /\ stdout \in Seq(Requests \cup {Long, Note})
    /\ lines \in Seq(Requests \cup {Note}) /\ Len(lines) <= LineSize
    /\ scan \in {"on", "cut", "closed"} /\ notes \in 0..MaxNotes

Told(r) == \E f \in told : f.of = r

(* Someone is about to answer it.                                          *)
InHand(r) ==
    \/ pc[r] \in {"get", "payload", "newline", "failed"}
    \/ \E t \in Takers : \E i \in DOMAIN owed[t] : owed[t][i].of = r

(* It is with the upstream, on the way there or on the way back.           *)
Upstream(r) ==
    r \in Range(stdin) \cup asked \cup Range(stdout) \cup Range(lines)

(* The process is gone or no longer read, and that is still to be told.    *)
LossToCome ==
    /\ sup \in {"running", "returned", "closed", "cleared"}
    /\ ~alive \/ scan # "on" \/ Long \in Range(stdout)

(* No request vanishes.  While its client is there, a request has been     *)
(* answered, or someone has it in hand to answer; or it is in the table    *)
(* and with the upstream, or the upstream's end is about to be told; or    *)
(* what was lost has one of two causes: its own client's queue was full    *)
(* for five seconds, or its line was written while another was, and only   *)
(* the sweeper will answer.  So a client that does not read costs no other *)
(* client an answer.                                                       *)
NoSilentLoss ==
    \A r \in Requests :
        pc[r] # "new" /\ session[Session[r]] = "open" =>
            \/ Told(r) \/ InHand(r) \/ r \in refused
            \/ r \in pending /\ (Upstream(r) \/ LossToCome \/ r \in overlapped)

(* An answer the upstream wrote before it died is not replaced by          *)
(* "upstream disconnected", however long its lines wait for other clients: *)
(* they are drained first.  A line beyond the scanner's limit ends that.   *)
AnswerBeatsDown ==
    scan # "cut" =>
        \A r \in answered :
            Frame("disconnected", r) \notin told \cup Range(owed["supervisor"])

(* The calls of all clients keep the promise of Correlation: one verdict   *)
(* each out of the table, however many goroutines go for it, delivered     *)
(* once or lost with its client.  A failed write is told past the table.   *)
Held(r) == {f \in UNION {Range(owed[t]) : t \in Takers} : f.of = r}

Given(r) == {f \in told : f.of = r /\ f.kind # "failed"}

KindOf(S) == (CHOOSE f \in S : TRUE).kind

phase ==
    [r \in Requests |->
        CASE r \in pending -> [at |-> "waiting", verdict |-> "none"]
          [] Held(r) # {} -> [at |-> "settled", verdict |-> KindOf(Held(r))]
          [] Given(r) # {} -> [at |-> "answered", verdict |-> KindOf(Given(r))]
          [] OTHER -> [at |-> IF pc[r] = "new" THEN "new" ELSE "dropped", verdict |-> "none"]]

Table == INSTANCE Correlation
             WITH Calls <- Requests, Verdicts <- {"result", "timeout", "disconnected"}

Promise == Table!Spec

(* Liveness: one client does not stop the others.  A line the upstream has *)
(* written is dealt with although nothing makes a client read its frames.  *)
LinesMoveOn ==
    \A r \in Requests :
        r \in Range(stdout) \cup Range(lines)
            ~> (r \notin Range(stdout) \cup Range(lines) /\ Idle("supervisor"))
               \/ scan = "cut"
=============================================================================
