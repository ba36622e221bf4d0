-------------------------------- MODULE Proxy --------------------------------
(***************************************************************************)
(* The heart of MCP Arc: the table of in-flight calls that internal/proxy  *)
(* keeps between the MCP clients and the one upstream MCP server, and the  *)
(* goroutines that race on it:                                             *)
(*                                                                         *)
(*   - one goroutine per client request, and one per console replay, that  *)
(*     enters the call in the table and writes it to the upstream;         *)
(*   - the upstream supervisor, which connects, runs, loses and reconnects *)
(*     the upstream and fails every in-flight call when it is lost;        *)
(*   - the upstream reader, which takes a call from the table when its     *)
(*     reply arrives;                                                      *)
(*   - the sweeper, which takes the calls that outlived pendingTTL;        *)
(*   - the client transport, which notices a client that went away;        *)
(*   - the main goroutine, which shuts the process down.                   *)
(*                                                                         *)
(* The upstream is one of the two connection-oriented transports (stdio,   *)
(* SSE), neither of which has a Cancel method, so cancelUpstream is a      *)
(* no-op here.  A request is a member of Requests, a replay a member of    *)
(* Replays; a frame carries the gateway id upID[c] of a call c and is      *)
(* represented by c.                                                       *)
(***************************************************************************)
EXTENDS Naturals, Sequences

CONSTANTS
    Requests,           \* client frames that carry an id
    Replays,            \* replays asked for by the admin console
    ClientTransport,    \* "stdio", "sse" or "streamable-http"
    UpstreamTransport,  \* "stdio" or "sse"
    MaxConn             \* bound on the connections the supervisor opens

Calls == Requests \cup Replays

ASSUME CallsAssumption == Requests \cap Replays = {}
ASSUME TransportAssumption ==
    /\ ClientTransport \in {"stdio", "sse", "streamable-http"}
    /\ UpstreamTransport \in {"stdio", "sse"}
ASSUME MaxConnAssumption == MaxConn \in Nat

VARIABLES
    seq,             \* the counter behind the gateway ids gw-1, gw-2, ...
    pending,         \* gateway id -> the call waiting under it
    upID,            \* the gateway id a call was given, 0 before that
    pc,              \* where the goroutine of a call is
    writer,          \* the connection whose Write that goroutine holds
    sent,            \* calls whose frame reached the upstream of their writer
    owed,            \* frames of calls taken from pending, not yet responded
    answers,         \* history: the frames handed to the caller of a call
    client,          \* the HTTP exchange (or the pipe) of a request
    conn,            \* number of the newest upstream connection
    upstreamWriter,  \* connection behind p.upstreamWriter, 0 for nil
    upstreamEverUp,
    upstreamReady,   \* whether the channel of that name is closed
    sup,             \* where the supervisor is
    sweeping,        \* whether sweepPending is still in its loop
    main             \* where run() is

callVars == <<upID, pc, writer, sent>>
tableVars == <<seq, pending>>
upstreamVars == <<conn, upstreamWriter, upstreamEverUp, upstreamReady, sup>>
vars == <<tableVars, callVars, owed, answers, client, upstreamVars,
          sweeping, main>>

(***************************************************************************)
(* A frame is what respond is called with.  Its kind tells who wrote it,   *)
(* and a result also carries the call the upstream executed to produce it. *)
(***************************************************************************)
Takers == {"reader", "supervisor", "sweeper", "main"}
TableKinds == {"result", "disconnected", "timeout", "limited"}
Kinds == TableKinds \cup {"writefailed"}

Frames == [kind : Kinds, of : Calls]
Frame(k, c) == [kind |-> k, of |-> c]

CallStates == {"idle", "checked", "get", "retest", "wait", "reget", "write",
               "failed", "await", "drop", "done"}
SupStates == {"dial", "starting", "connected", "everUp", "running", "closed", "cleared",
              "failing", "backoff", "stopped"}

Open == {"connected", "everUp", "running"}

Init ==
    /\ seq = 0
    /\ pending = [k \in {} |-> 0]
    /\ upID = [c \in Calls |-> 0]
    /\ pc = [c \in Calls |-> "idle"]
    /\ writer = [c \in Calls |-> 0]
    /\ sent = {}
    /\ owed = {}
    /\ answers = [c \in Calls |-> <<>>]
    /\ client = [c \in Calls |-> "connected"]
    /\ conn = 0
    /\ upstreamWriter = 0
    /\ upstreamEverUp = FALSE
    /\ upstreamReady = FALSE
    /\ sup = "dial"
    /\ sweeping = TRUE
    /\ main = "running"

-----------------------------------------------------------------------------
(* The table and the respond callback.                                     *)

InTable(c) == \E k \in DOMAIN pending : pending[k] = c

Insert(k, c) ==
    pending' = [j \in DOMAIN pending \cup {k} |-> IF j = k THEN c ELSE pending[j]]

Remove(K) == pending' = [j \in DOMAIN pending \ K |-> pending[j]]

Owes(t) == \E o \in owed : o.by = t

(* What calling respond(f, done=true) does.  A frame reaches a request     *)
(* while its exchange (or SSE session) is open, and the final frame of a   *)
(* Streamable HTTP exchange ends it; a session that is closed, or that     *)
(* does not make room for the frame in 5 seconds, loses it; the respond of *)
(* a replay feeds the replay's channel.                                    *)
Respond(c, f) ==
    IF c \in Replays
    THEN /\ answers' = [answers EXCEPT ![c] = Append(@, f)]
         /\ UNCHANGED client
    ELSE IF client[c] = "connected"
    THEN /\ answers' = [answers EXCEPT ![c] = Append(@, f)]
         /\ client' = [client EXCEPT ![c] =
                IF ClientTransport = "streamable-http" THEN "finished" ELSE @]
    ELSE UNCHANGED <<answers, client>>

(* Taking entries out of the table under p.mu makes the taker owe each of  *)
(* their callers a frame, which it sends after the mutex is released.      *)
Take(t, K, kind) ==
    /\ owed' = owed \cup
           {[by |-> t, call |-> pending[k], frame |-> Frame(kind, pending[k])] :
               k \in K}
    /\ Remove(K)

\* Mutant: the map is walked but not replaced by an empty one.
FailWithoutReset(t) ==
    /\ owed' = owed \cup
           {[by |-> t, call |-> pending[k], frame |-> Frame("disconnected", pending[k])] :
               k \in DOMAIN pending}
    /\ UNCHANGED pending

failPendingUpstreamDown(t) == Take(t, DOMAIN pending, "disconnected")

-----------------------------------------------------------------------------
(* A client request: handleClientMessage and the goroutine it starts.      *)

(* processClientMessage refuses a tools/call the rate limiter does not     *)
(* allow, and handleClientMessage answers it on the spot.                  *)
RateLimit(c) ==
    /\ pc[c] = "idle" /\ c \in Requests /\ client[c] = "connected"
    /\ pc' = [pc EXCEPT ![c] = "done"]
    /\ Respond(c, Frame("limited", c))
    /\ UNCHANGED <<tableVars, upID, writer, sent, owed, upstreamVars, sweeping, main>>

\* Mutant: the id is read from the counter without advancing it.
EnterWithoutAdd(c) ==
    /\ UNCHANGED seq
    /\ upID' = [upID EXCEPT ![c] = seq + 1]
    /\ Insert(seq + 1, c)
    /\ pc' = [pc EXCEPT ![c] = "get"]

(* Every other request gets the next gateway id and an entry.              *)
Enter(c) ==
    /\ seq' = seq + 1
    /\ upID' = [upID EXCEPT ![c] = seq + 1]
    /\ Insert(seq + 1, c)
    /\ pc' = [pc EXCEPT ![c] = "get"]

processClientMessage(c) ==
    /\ pc[c] = "idle" /\ c \in Requests /\ client[c] = "connected"
    /\ Enter(c)
    /\ UNCHANGED <<writer, sent, owed, answers, client, upstreamVars, sweeping, main>>

(* writeUpstream, step by step: load the writer; if there is none, load    *)
(* upstreamEverUp; if it is false, wait for the first connection.          *)
Goto(c, to) == pc' = [pc EXCEPT ![c] = to]

GetWriter(c) ==
    /\ pc[c] \in {"get", "reget"}
    /\ IF upstreamWriter # 0
       THEN Goto(c, "write") /\ writer' = [writer EXCEPT ![c] = upstreamWriter]
       ELSE Goto(c, IF pc[c] = "get" THEN "retest" ELSE "failed") /\ UNCHANGED writer
    /\ UNCHANGED <<tableVars, upID, sent, owed, answers, client, upstreamVars,
                   sweeping, main>>

LoadEverUp(c) ==
    /\ pc[c] = "retest"
    /\ Goto(c, IF upstreamEverUp THEN "failed" ELSE "wait")
    /\ UNCHANGED <<tableVars, upID, writer, sent, owed, answers, client,
                   upstreamVars, sweeping, main>>

WaitReady(c) ==
    /\ pc[c] = "wait"
    /\ upstreamReady
    /\ Goto(c, "reget")
    /\ UNCHANGED <<tableVars, upID, writer, sent, owed, answers, client,
                   upstreamVars, sweeping, main>>

WaitTimeout(c) ==
    /\ pc[c] = "wait"
    /\ Goto(c, "failed")
    /\ UNCHANGED <<tableVars, upID, writer, sent, owed, answers, client,
                   upstreamVars, sweeping, main>>

(* The write itself.  A pipe to a stdio upstream is gone once Close has    *)
(* run; an SSE upstream takes POSTs whatever became of its event stream,   *)
(* and the status of its response is not looked at: one that refuses the   *)
(* frame is, to the proxy, one that never answers it.                      *)
Writable(n) == UpstreamTransport = "sse" \/ (n = conn /\ sup \in Open)

WriteOK(c) ==
    /\ pc[c] = "write" /\ Writable(writer[c])
    /\ sent' = sent \cup {c}
    /\ Goto(c, IF c \in Replays THEN "await" ELSE "done")
    /\ UNCHANGED <<tableVars, upID, writer, owed, answers, client, upstreamVars,
                   sweeping, main>>

(* A POST may fail after the upstream has read it (its response is lost);  *)
(* a frame whose write to a pipe fails never arrives whole.                *)
WriteError(c) ==
    /\ pc[c] = "write"
    /\ \/ UNCHANGED sent
       \/ UpstreamTransport = "sse" /\ sent' = sent \cup {c}
    /\ Goto(c, "failed")
    /\ UNCHANGED <<tableVars, upID, writer, owed, answers, client, upstreamVars,
                   sweeping, main>>

\* Mutant: the client is told of the failure, and the write tried again.
ReportAndRetry(c) ==
    /\ pc[c] = "failed"
    /\ Goto(c, "get")
    /\ IF c \in Requests
       THEN Respond(c, Frame("writefailed", c))
       ELSE UNCHANGED <<answers, client>>
    /\ UNCHANGED <<tableVars, upID, writer, sent, owed, upstreamVars, sweeping, main>>

(* The write failed: the request's goroutine tells the client, and only    *)
(* then drops the entry; a replay returns the error and its deferred       *)
(* dropPending runs.                                                       *)
ReportWriteError(c) ==
    /\ pc[c] = "failed"
    /\ Goto(c, "drop")
    /\ IF c \in Requests
       THEN Respond(c, Frame("writefailed", c))
       ELSE UNCHANGED <<answers, client>>
    /\ UNCHANGED <<tableVars, upID, writer, sent, owed, upstreamVars, sweeping, main>>

dropPending(c) ==
    /\ pc[c] = "drop"
    /\ Goto(c, "done")
    /\ Remove({upID[c]})
    /\ UNCHANGED <<seq, upID, writer, sent, owed, answers, client, upstreamVars,
                   sweeping, main>>

-----------------------------------------------------------------------------
(* A replay: like a request, but refused at once when no upstream is       *)
(* connected, and its caller waits for the answer for at most 30 seconds.  *)

ReplayCheck(c) ==
    /\ pc[c] = "idle" /\ c \in Replays
    /\ Goto(c, IF upstreamWriter = 0 THEN "done" ELSE "checked")
    /\ UNCHANGED <<tableVars, upID, writer, sent, owed, answers, client,
                   upstreamVars, sweeping, main>>

ReplayEnter(c) ==
    /\ pc[c] = "checked"
    /\ Enter(c)
    /\ UNCHANGED <<writer, sent, owed, answers, client, upstreamVars, sweeping, main>>

ReplayReturn(c) ==   \* the answer arrived, or ctx ended, or 30 s went by
    /\ pc[c] = "await" /\ c \in Replays
    /\ Goto(c, "drop")
    /\ UNCHANGED <<tableVars, upID, writer, sent, owed, answers, client,
                   upstreamVars, sweeping, main>>

-----------------------------------------------------------------------------
(* The client transport.  Only the Streamable HTTP client calls the        *)
(* cleanup that handleClientMessage returns; the entry of a call whose SSE *)
(* session went away waits for its reply, a disconnect or the sweep.       *)

(* The client goes away, or its SSE session is wedged and takes no frame.  *)
Disconnect(c) ==
    /\ ClientTransport # "stdio"
    /\ c \in Requests /\ pc[c] # "idle" /\ client[c] = "connected"
    /\ client' = [client EXCEPT ![c] = "gone"]
    /\ UNCHANGED <<tableVars, callVars, owed, answers, upstreamVars, sweeping, main>>

Cleanup(c) ==
    /\ ClientTransport = "streamable-http"
    /\ client[c] \in {"gone", "finished"}
    /\ client' = [client EXCEPT ![c] = "left"]
    /\ Remove({upID[c]})
    /\ UNCHANGED <<seq, callVars, owed, answers, upstreamVars, sweeping, main>>

-----------------------------------------------------------------------------
(* The upstream supervisor.                                                *)

LoopTop ==           \* if ctx.Err() != nil { return }
    /\ sup = "dial"
    /\ sup' = IF main = "running" THEN "starting" ELSE "stopped"
    /\ UNCHANGED <<tableVars, callVars, owed, answers, client, conn, upstreamWriter,
                   upstreamEverUp, upstreamReady, sweeping, main>>

Connect ==           \* factory() succeeded, setUpstreamWriter(up.Write)
    /\ sup = "starting" /\ conn < MaxConn
    /\ conn' = conn + 1
    /\ upstreamWriter' = conn + 1
    /\ sup' = "connected"
    /\ UNCHANGED <<tableVars, callVars, owed, answers, client, upstreamEverUp,
                   upstreamReady, sweeping, main>>

StartFails ==        \* factory() failed: starting a process can, SSE cannot
    /\ sup = "starting" /\ UpstreamTransport = "stdio"
    /\ sup' = "backoff"
    /\ UNCHANGED <<tableVars, callVars, owed, answers, client, conn, upstreamWriter,
                   upstreamEverUp, upstreamReady, sweeping, main>>

StoreEverUp ==       \* markUpstreamReady, first half
    /\ sup = "connected"
    /\ upstreamEverUp' = TRUE
    /\ sup' = "everUp"
    /\ UNCHANGED <<tableVars, callVars, owed, answers, client, conn, upstreamWriter,
                   upstreamReady, sweeping, main>>

CloseReady ==        \* markUpstreamReady, second half; then Run starts
    /\ sup = "everUp"
    /\ upstreamReady' = TRUE
    /\ sup' = "running"
    /\ UNCHANGED <<tableVars, callVars, owed, answers, client, conn, upstreamWriter,
                   upstreamEverUp, sweeping, main>>

RunReturns ==        \* the connection is lost or ctx is done; up.Close()
    /\ sup = "running" /\ ~Owes("reader")
    /\ sup' = "closed"
    /\ UNCHANGED <<tableVars, callVars, owed, answers, client, conn, upstreamWriter,
                   upstreamEverUp, upstreamReady, sweeping, main>>

\* Mutant: the writer of the lost connection stays in place.
KeepWriter ==
    /\ sup = "closed"
    /\ sup' = "cleared"
    /\ UNCHANGED <<tableVars, callVars, owed, answers, client, conn, upstreamWriter,
                   upstreamEverUp, upstreamReady, sweeping, main>>

ClearWriter ==       \* setUpstreamWriter(nil)
    /\ sup = "closed"
    /\ upstreamWriter' = 0
    /\ sup' = "cleared"
    /\ UNCHANGED <<tableVars, callVars, owed, answers, client, conn,
                   upstreamEverUp, upstreamReady, sweeping, main>>

SupervisorFails ==   \* failPendingUpstreamDown, under p.mu
    /\ sup = "cleared"
    /\ failPendingUpstreamDown("supervisor")
    /\ sup' = "failing"
    /\ UNCHANGED <<seq, callVars, answers, client, conn, upstreamWriter,
                   upstreamEverUp, upstreamReady, sweeping, main>>

SupervisorDone ==    \* every taken call was responded to
    /\ sup = "failing" /\ ~Owes("supervisor")
    /\ sup' = "backoff"
    /\ UNCHANGED <<tableVars, callVars, owed, answers, client, conn, upstreamWriter,
                   upstreamEverUp, upstreamReady, sweeping, main>>

Backoff ==           \* the timer fired, or ctx is done
    /\ sup = "backoff"
    /\ sup' \in IF main = "running" THEN {"dial"} ELSE {"dial", "stopped"}
    /\ UNCHANGED <<tableVars, callVars, owed, answers, client, conn, upstreamWriter,
                   upstreamEverUp, upstreamReady, sweeping, main>>

-----------------------------------------------------------------------------
(* The upstream reader: onUpstreamMessage, called by Run, one at a time.   *)
(* The upstream answers the frames it got in any order, and may answer one *)
(* twice; an answer to a call that left the table is ignored.              *)

\* Mutant: the entry is looked up and not deleted.
ReplyKeepsEntry(c) ==
    /\ sup = "running" /\ ~Owes("reader")
    /\ c \in sent /\ writer[c] = conn
    /\ upID[c] \in DOMAIN pending
    /\ owed' = owed \cup {[by |-> "reader", call |-> pending[upID[c]],
                           frame |-> Frame("result", c)]}
    /\ UNCHANGED <<tableVars, callVars, answers, client, upstreamVars, sweeping, main>>

processUpstreamMessage(c) ==
    /\ sup = "running" /\ ~Owes("reader")
    /\ c \in sent /\ writer[c] = conn
    /\ upID[c] \in DOMAIN pending
    /\ owed' = owed \cup {[by |-> "reader", call |-> pending[upID[c]],
                           frame |-> Frame("result", c)]}
    /\ Remove({upID[c]})
    /\ UNCHANGED <<seq, callVars, answers, client, upstreamVars, sweeping, main>>

\* Mutant: expired entries are deleted and their callers not told.
ReapSilently(K) ==
    /\ sweeping
    /\ Remove(K)
    /\ UNCHANGED <<seq, callVars, owed, answers, client, upstreamVars, sweeping, main>>

(* The sweeper takes the calls past their deadline, whichever they are.    *)
reapPending(K) ==
    /\ sweeping
    /\ ~Owes("sweeper")
    /\ Take("sweeper", K, "timeout")
    /\ UNCHANGED <<seq, callVars, answers, client, upstreamVars, sweeping, main>>

SweeperStops ==
    /\ sweeping /\ main # "running" /\ ~Owes("sweeper")
    /\ sweeping' = FALSE
    /\ UNCHANGED <<tableVars, callVars, owed, answers, client, upstreamVars, main>>

(* A taker calls pc.respond for one of the calls it took.                  *)
RespondTaken(o) ==
    /\ owed' = owed \ {o}
    /\ Respond(o.call, o.frame)
    /\ UNCHANGED <<tableVars, callVars, upstreamVars, sweeping, main>>

-----------------------------------------------------------------------------
(* run(): stop on a signal or when the client transport ends.              *)

Cancel ==
    /\ main = "running"
    /\ main' = "cancelled"
    /\ UNCHANGED <<tableVars, callVars, owed, answers, client, upstreamVars, sweeping>>

MainFails ==
    /\ main = "cancelled"
    /\ failPendingUpstreamDown("main")
    /\ main' = "failing"
    /\ UNCHANGED <<seq, callVars, answers, client, upstreamVars, sweeping>>

CloseClient ==       \* client.Close() cuts the open exchanges and sessions
    /\ main = "failing" /\ ~Owes("main")
    /\ main' = "closed"
    /\ client' = [c \in Calls |->
           IF ClientTransport # "stdio" /\ c \in Requests /\ client[c] = "connected"
           THEN "gone" ELSE client[c]]
    /\ UNCHANGED <<tableVars, callVars, owed, answers, upstreamVars, sweeping>>

Exit ==              \* the audit queue is flushed, the store closed
    /\ main = "closed"
    /\ main' = "exited"
    /\ UNCHANGED <<tableVars, callVars, owed, answers, client, upstreamVars, sweeping>>

Exited == main = "exited" /\ UNCHANGED vars

-----------------------------------------------------------------------------
CallStep(c) ==
    \/ RateLimit(c) \/ processClientMessage(c)
    \/ GetWriter(c) \/ LoadEverUp(c) \/ WaitReady(c) \/ WaitTimeout(c)
    \/ WriteOK(c) \/ WriteError(c) \/ ReportWriteError(c) \/ dropPending(c)
    \/ ReplayCheck(c) \/ ReplayEnter(c) \/ ReplayReturn(c)
    \/ Disconnect(c) \/ Cleanup(c)
    \/ processUpstreamMessage(c)

SupervisorStep ==
    \/ LoopTop \/ Connect \/ StartFails \/ StoreEverUp \/ CloseReady
    \/ RunReturns \/ ClearWriter \/ SupervisorFails \/ SupervisorDone \/ Backoff

MainStep == Cancel \/ MainFails \/ CloseClient \/ Exit

Next ==
    \/ /\ main # "exited"
       /\ \/ \E c \in Calls : CallStep(c)
          \/ \E o \in owed : RespondTaken(o)
          \/ \E K \in SUBSET DOMAIN pending : K # {} /\ reapPending(K)
          \/ SupervisorStep
          \/ SweeperStops
          \/ MainStep
    \/ Exited

Spec == Init /\ [][Next]_vars

(***************************************************************************)
(* Fairness.  A goroutine that can take its next step takes it; a taker    *)
(* goes on responding; the ticker of the sweeper keeps firing, so a call   *)
(* that stays in the table is reaped; once run() has begun to stop it goes *)
(* on stopping.  Nothing is assumed of the upstream (it may never answer,  *)
(* never die, never read what is written to it), of the clients, of        *)
(* factory(), or of the order to stop.                                     *)
(***************************************************************************)
GoroutineStep(c) ==
    \/ GetWriter(c) \/ LoadEverUp(c) \/ WaitReady(c) \/ WaitTimeout(c)
    \/ ReportWriteError(c) \/ dropPending(c) \/ ReplayEnter(c) \/ ReplayReturn(c)

Running(A) == main # "exited" /\ A

Fairness ==
    /\ \A c \in Calls :
          /\ WF_vars(Running(GoroutineStep(c)))
          /\ WF_vars(Running(Cleanup(c)))
          /\ WF_vars(Running(\E o \in owed : o.call = c /\ RespondTaken(o)))
          /\ WF_vars(Running(\E K \in SUBSET DOMAIN pending :
                               (\E k \in K : pending[k] = c) /\ reapPending(K)))
    /\ WF_vars(Running(ClearWriter \/ SupervisorFails \/ SupervisorDone))
    /\ WF_vars(MainFails \/ CloseClient \/ Exit)

FairSpec == Spec /\ Fairness
-----------------------------------------------------------------------------
(***************************************************************************)
(* Properties.                                                             *)
(***************************************************************************)

(* Type correctness: the table maps issued gateway ids to calls, and every *)
(* other variable stays in the set its Go type stands for.                 *)
TypeOK ==
    /\ seq \in Nat
    /\ DOMAIN pending \subseteq 1..seq
    /\ pending \in [DOMAIN pending -> Calls]
    /\ upID \in [Calls -> 0..seq]
    /\ pc \in [Calls -> CallStates]
    /\ writer \in [Calls -> 0..conn]
    /\ sent \subseteq Calls
    /\ owed \subseteq [by : Takers, call : Calls, frame : Frames]
    /\ answers \in [Calls -> Seq(Frames)]
    /\ client \in [Calls -> {"connected", "gone", "finished", "left"}]
    /\ conn \in 0..MaxConn
    /\ upstreamWriter \in 0..conn
    /\ upstreamEverUp \in BOOLEAN
    /\ upstreamReady \in BOOLEAN
    /\ sup \in SupStates
    /\ sweeping \in BOOLEAN
    /\ main \in {"running", "cancelled", "failing", "closed", "exited"}

FromTable(f) == f.kind \in TableKinds

(* Reply, reconnect, sweep, shutdown and clean-up race for the entry of a  *)
(* call, and each responds only after it has released p.mu.  Whoever takes *)
(* the entry is the only one: a call is in the table, or owed a frame by   *)
(* exactly one taker, or was sent at most one frame by a taker.            *)
TakenOnce ==
    /\ \A k, l \in DOMAIN pending : pending[k] = pending[l] => k = l
    /\ \A o, p \in owed : o.call = p.call => o = p
    /\ \A o \in owed : ~InTable(o.call)
    /\ \A c \in Calls : \A i \in DOMAIN answers[c] : FromTable(answers[c][i]) =>
          /\ ~InTable(c)
          /\ \A o \in owed : o.call # c
          /\ \A j \in DOMAIN answers[c] : FromTable(answers[c][j]) => i = j

(* The id a client chose says nothing: two sessions may use the same one.  *)
(* A result reaches the caller whose own frame the upstream executed, for  *)
(* every order of replies, duplicates included, and across reconnects.     *)
RoutedToOwner ==
    /\ \A o \in owed : o.frame.of = o.call
    /\ \A c \in Calls : \A i \in DOMAIN answers[c] : answers[c][i].of = c

(* upstream.go:109-113: in-flight requests are failed promptly on a        *)
(* disconnect, not left to the 5-minute sweep.  A call in the table that   *)
(* was, or may yet be, written to connection n has n alive, or its loss    *)
(* still to be followed by failPendingUpstreamDown: no call slips between  *)
(* the writer it loaded and the sweep of the table.                        *)
NoOrphan ==
    \A k \in DOMAIN pending :
        LET n == writer[pending[k]]
        IN  n # 0 => n = conn /\ sup \in Open \cup {"closed", "cleared"}

(* A caller that is still there is never forgotten: a call accepted from a *)
(* connected client is in the table, in the hands of a taker or of its own *)
(* failing goroutine, or answered.                                         *)
NoneForgotten ==
    \A c \in Requests :
        pc[c] # "idle" /\ client[c] = "connected" /\ answers[c] = <<>> =>
            InTable(c) \/ (\E o \in owed : o.call = c)

(* The respond of a replay sends on a channel with room for one frame, and *)
(* the replay may have stopped reading it: a second send would block the   *)
(* upstream reader, the sweeper or the supervisor for ever.                *)
ReplayChannelFree ==
    \A o \in owed : o.call \in Replays => answers[o.call] = <<>>

-----------------------------------------------------------------------------
(* What makes TakenOnce and RoutedToOwner inductive.                       *)

NotEntered(c) == pc[c] \in {"idle", "checked"}

(* A gateway id belongs to one call, and an entry is under its call's id.  *)
EntryIds == \A k \in DOMAIN pending : upID[pending[k]] = k
FreshIds == \A c, d \in Calls : upID[c] = upID[d] /\ upID[c] # 0 => c = d

(* Nothing has happened to a call before it enters the table.              *)
NothingBefore ==
    \A c \in Calls : NotEntered(c) =>
        /\ upID[c] = 0 /\ writer[c] = 0 /\ answers[c] = <<>>
        /\ \A o \in owed : o.call # c

(* Only frames of takers are owed, and a replay gets no other frames.      *)
OwedFrames ==
    /\ \A o \in owed : FromTable(o.frame)
    /\ \A c \in Replays : \A i \in DOMAIN answers[c] : FromTable(answers[c][i])

TableInv ==
    EntryIds /\ FreshIds /\ NothingBefore /\ OwedFrames /\ TakenOnce /\ RoutedToOwner

(* What makes NoOrphan inductive: p.upstreamWriter is the writer of the    *)
(* newest connection or nil.                                               *)
WriterIsNewest ==
    upstreamWriter # 0 => upstreamWriter = conn /\ sup \in Open \cup {"closed"}

ConnInv == NoOrphan /\ WriterIsNewest

(* What makes NoneForgotten inductive: a goroutine that is about to drop   *)
(* its call has told the client.                                           *)
ToldBeforeDrop ==
    \A c \in Requests :
        pc[c] = "drop" /\ client[c] = "connected" => answers[c] # <<>>

ForgottenInv == NoneForgotten /\ ToldBeforeDrop

-----------------------------------------------------------------------------
(* The table keeps the promise of Correlation: seen through this mapping,  *)
(* every step of every goroutine is a step of the abstract table or none.  *)
Verdict(c) ==
    CHOOSE k \in TableKinds :
        \/ \E o \in owed : o.call = c /\ o.frame.kind = k
        \/ \E i \in DOMAIN answers[c] : answers[c][i].kind = k

phase ==
    [c \in Calls |->
        CASE InTable(c) -> [at |-> "waiting", verdict |-> "none"]
          [] \E o \in owed : o.call = c ->
                 [at |-> "settled", verdict |-> Verdict(c)]
          [] \E i \in DOMAIN answers[c] : FromTable(answers[c][i]) ->
                 [at |-> "answered", verdict |-> Verdict(c)]
          [] OTHER -> [at |-> IF upID[c] = 0 THEN "new" ELSE "dropped",
                       verdict |-> "none"]]

Table == INSTANCE Correlation WITH Verdicts <- TableKinds

Promise == Table!Spec

(* Liveness: no caller is left hanging and the table does not leak.  An    *)
(* accepted request is answered, or its client goes away, and its entry    *)
(* leaves the table, unless the process exits first; the upstream owes     *)
(* nothing for that.                                                       *)
EventuallyAnswered ==
    \A c \in Requests :
        (upID[c] # 0) ~> \/ ~InTable(c) /\ (answers[c] # <<>> \/ client[c] # "connected")
                         \/ main = "exited"

-----------------------------------------------------------------------------
(* proxy.go:386-387 says the entry of a request whose write failed is      *)
(* dropped so that it cannot "double-respond later".                       *)
AtMostOneResponse == \A c \in Calls : Len(answers[c]) <= 1

(* It is dropped too late for that (proxy.go:384-390), but nothing else    *)
(* answers twice: a caller that got more than one frame is a request over  *)
(* stdio or SSE and got two, its own goroutine's report of the failed      *)
(* write and the one frame of whoever took its entry before the drop.      *)
TwiceOnlyIfWriteFailed ==
    \A c \in Calls : Len(answers[c]) > 1 =>
        /\ c \in Requests /\ ClientTransport # "streamable-http"
        /\ Len(answers[c]) = 2
        /\ \E i \in 1..2 : answers[c][i].kind = "writefailed" /\ FromTable(answers[c][3 - i])

(* What makes it inductive: a goroutine reports a failed write once, on    *)
(* its way to the drop; the first frame ends a Streamable HTTP exchange.   *)
ReportedOnce ==
    \A c \in Calls : \A i \in DOMAIN answers[c] : ~FromTable(answers[c][i]) =>
        /\ c \in Requests /\ pc[c] \in {"drop", "done"}
        /\ \A j \in DOMAIN answers[c] : ~FromTable(answers[c][j]) => i = j

ExchangeEnds ==
    ClientTransport = "streamable-http" =>
        \A c \in Requests : answers[c] # <<>> => client[c] # "connected" /\ Len(answers[c]) = 1

ReportInv == ReportedOnce /\ ExchangeEnds
=============================================================================
