---------------------------- MODULE StreamableHop ----------------------------
(***************************************************************************)
(* MCP Arc between Streamable HTTP on both sides: every call is an HTTP    *)
(* exchange with the client and one POST to the upstream, and the two have *)
(* to end together.  The module follows a call through                     *)
(*   - the client's exchange (StreamableHTTPClient.handlePost): a bounded  *)
(*     channel of frames, the goroutine that writes them to the wire, and  *)
(*     the cleanup that runs when the exchange ends;                       *)
(*   - the goroutine of the POST (StreamableHTTPUpstream.Write), which     *)
(*     also delivers the notifications and the result of its own call;     *)
(*   - the cancellation of the one by the end of the other;                *)
(*   - the sweeper, the supervisor and the main goroutine, which respond   *)
(*     to the calls they take one after the other.                         *)
(* Gateway ids are unique (see Proxy), so a call stands for its id.        *)
(***************************************************************************)
EXTENDS Naturals, SequencesExt

CONSTANTS
    Requests,   \* client requests, each in its own HTTP exchange
    Stalled,    \* those whose client may stop reading and stay connected
    MaxNotes,   \* bound on the notifications of one upstream exchange
    Buffer      \* capacity of respondCh

ASSUME HopAssumption ==
    /\ IsFiniteSet(Requests) /\ Stalled \subseteq Requests
    /\ MaxNotes \in Nat /\ Buffer \in Nat \ {0}

VARIABLES
    pending,    \* the calls in p.pending
    pc,         \* where the goroutine of the upstream POST is
    ctx,        \* the context of that POST
    cancels,    \* the calls registered in u.cancels
    notes,      \* number of notifications an exchange has carried
    http,       \* where handlePost is
    stream,     \* whether the channel closed of an exchange is still open
    buf,        \* respondCh
    wire,       \* history: the frames written to the client
    taken,      \* what a taker has yet to respond to, in its order
    missed,     \* history: calls whose Cancel came before they registered
    sup,        \* where the supervisor is
    main        \* where run() is

postVars == <<pc, ctx, cancels, notes>>
clientVars == <<http, stream, buf, wire>>
vars == <<pending, postVars, clientVars, taken, missed, sup, main>>

Takers == {"sweeper", "supervisor", "main"}
Verdict(t) == IF t = "sweeper" THEN "timeout" ELSE "disconnected"

Terminal == {"result", "limited", "writefailed", "timeout", "disconnected"}
Kinds == Terminal \cup {"note"}

PostStates == {"idle", "get", "load", "register", "post", "reading", "note",
               "result", "leave", "broken", "failed", "drop", "done"}
Sups == {"dial", "writer", "instance", "ready", "running", "closed", "noWriter",
         "noInstance", "failing", "stopped"}

Init ==
    /\ pending = {}
    /\ pc = [c \in Requests |-> "idle"]
    /\ ctx = [c \in Requests |-> "none"]
    /\ cancels = {}
    /\ notes = [c \in Requests |-> 0]
    /\ http = [c \in Requests |-> "none"]
    /\ stream = [c \in Requests |-> "open"]
    /\ buf = [c \in Requests |-> <<>>]
    /\ wire = [c \in Requests |-> <<>>]
    /\ taken = [t \in Takers |-> <<>>]
    /\ missed = {}
    /\ sup = "dial"
    /\ main = "running"

Goto(c, to) == pc' = [pc EXCEPT ![c] = to]

WriterSet == sup \in {"writer", "instance", "ready", "running", "closed"}
InstanceSet == sup \in {"instance", "ready", "running", "closed", "noWriter"}

-----------------------------------------------------------------------------
(* respond(f, done): put the frame in the channel when it has room, or     *)
(* fail when the exchange is over; when both are possible, either happens, *)
(* and when neither is, the caller waits.                                  *)

Send(c, k) ==
    /\ Len(buf[c]) < Buffer
    /\ buf' = [buf EXCEPT ![c] = Append(@, k)]

Refused(c) == stream[c] = "closed" /\ UNCHANGED buf

(* Cancel(id) of the live upstream: a no-op for an id it does not know.    *)
cancelUpstream(c) ==
    ctx' = IF InstanceSet /\ c \in cancels THEN [ctx EXCEPT ![c] = "cancelled"] ELSE ctx

-----------------------------------------------------------------------------
(* The client's exchange.                                                  *)

handlePost(c) ==      \* processClientMessage enters the call in the table
    /\ http[c] = "none" /\ main = "running"
    /\ http' = [http EXCEPT ![c] = "serving"]
    /\ pending' = pending \cup {c}
    /\ Goto(c, "get")
    /\ UNCHANGED <<ctx, cancels, notes, stream, buf, wire, taken, missed, sup, main>>

RateLimited(c) ==     \* or answers it at once, and there is nothing to clean up
    /\ http[c] = "none" /\ main = "running"
    /\ http' = [http EXCEPT ![c] = "serving"]
    /\ Send(c, "limited")
    /\ Goto(c, "done")
    /\ UNCHANGED <<pending, ctx, cancels, notes, stream, wire, taken, missed, sup, main>>

\* Mutant: the writing goroutine does not stop at the terminal frame.
WriteFrameOn(c) ==
    /\ stream[c] = "open" /\ buf[c] # <<>>
    /\ wire' = [wire EXCEPT ![c] = Append(@, Head(buf[c]))]
    /\ buf' = [buf EXCEPT ![c] = Tail(@)]
    /\ UNCHANGED <<pending, postVars, http, stream, taken, missed, sup, main>>

WriteFrame(c) ==      \* the writing goroutine; a terminal frame is its last
    /\ stream[c] = "open" /\ buf[c] # <<>>
    /\ wire' = [wire EXCEPT ![c] = Append(@, Head(buf[c]))]
    /\ buf' = [buf EXCEPT ![c] = Tail(@)]
    /\ stream' = IF Head(buf[c]) \in Terminal THEN [stream EXCEPT ![c] = "closed"]
                                              ELSE stream
    /\ UNCHANGED <<pending, postVars, http, taken, missed, sup, main>>

ClientGone(c) ==      \* r.Context() is done
    /\ http[c] = "serving" /\ stream[c] = "open"
    /\ stream' = [stream EXCEPT ![c] = "closed"]
    /\ UNCHANGED <<pending, postVars, http, buf, wire, taken, missed, sup, main>>

\* Mutant: the cleanup only drops the entry.
CleanupOnlyDrops(c) ==
    /\ http[c] = "serving" /\ stream[c] = "closed"
    /\ http' = [http EXCEPT ![c] = "cancelled"]
    /\ UNCHANGED <<pending, postVars, stream, buf, wire, taken, missed, sup, main>>

CleanupCancels(c) ==  \* cleanup: p.cancelUpstream(upID)
    /\ http[c] = "serving" /\ stream[c] = "closed"
    /\ http' = [http EXCEPT ![c] = "cancelled"]
    /\ cancelUpstream(c)
    /\ missed' = IF pc[c] \in {"get", "load", "register"} THEN missed \cup {c} ELSE missed
    /\ UNCHANGED <<pending, pc, cancels, notes, stream, buf, wire, taken, sup, main>>

CleanupDrops(c) ==    \* p.dropPending(upID)
    /\ http[c] = "cancelled"
    /\ http' = [http EXCEPT ![c] = "left"]
    /\ pending' = pending \ {c}
    /\ UNCHANGED <<postVars, stream, buf, wire, taken, missed, sup, main>>

-----------------------------------------------------------------------------
(* The goroutine of the upstream POST.                                     *)

(* writeUpstream; at startup it may also wait here for a writer.           *)
GetWriter(c) ==
    /\ pc[c] = "get"
    /\ Goto(c, IF WriterSet THEN "load" ELSE "failed")
    /\ UNCHANGED <<pending, ctx, cancels, notes, clientVars, taken, missed, sup, main>>

LoadCallback(c) ==    \* u.onMsg, set by Run and cleared by Close
    /\ pc[c] = "load"
    /\ Goto(c, IF sup = "running" THEN "register" ELSE "failed")
    /\ UNCHANGED <<pending, ctx, cancels, notes, clientVars, taken, missed, sup, main>>

Register(c) ==
    /\ pc[c] = "register"
    /\ cancels' = cancels \cup {c}
    /\ ctx' = [ctx EXCEPT ![c] = "live"]
    /\ Goto(c, "post")
    /\ UNCHANGED <<pending, notes, clientVars, taken, missed, sup, main>>

Post(c) ==            \* client.Do: response headers, or an error
    /\ pc[c] = "post"
    /\ pc' \in {[pc EXCEPT ![c] = to] :
                   to \in IF ctx[c] = "live" THEN {"reading", "broken"} ELSE {"broken"}}
    /\ UNCHANGED <<pending, ctx, cancels, notes, clientVars, taken, missed, sup, main>>

(* A notification in the response is tagged with the call's id, and goes   *)
(* to the call's own client if the call is still in the table.             *)
Notification(c) ==
    /\ pc[c] = "reading" /\ notes[c] < MaxNotes
    /\ notes' = [notes EXCEPT ![c] = @ + 1]
    /\ Goto(c, IF c \in pending THEN "note" ELSE "reading")
    /\ UNCHANGED <<pending, ctx, cancels, clientVars, taken, missed, sup, main>>

ForwardNote(c) ==
    /\ pc[c] = "note"
    /\ \/ Send(c, "note") /\ UNCHANGED ctx
       \/ Refused(c) /\ cancelUpstream(c)
    /\ Goto(c, "reading")
    /\ UNCHANGED <<pending, cancels, notes, http, stream, wire, taken, missed, sup, main>>

\* Mutant: the entry is read and left for the cleanup.
ResultPeeks(c) ==
    /\ pc[c] = "reading" /\ c \in pending
    /\ Goto(c, "result")
    /\ UNCHANGED <<pending, ctx, cancels, notes, clientVars, taken, missed, sup, main>>

Result(c) ==          \* takes the call from the table
    /\ pc[c] = "reading" /\ c \in pending
    /\ pending' = pending \ {c}
    /\ Goto(c, "result")
    /\ UNCHANGED <<ctx, cancels, notes, clientVars, taken, missed, sup, main>>

ForwardResult(c) ==
    /\ pc[c] = "result"
    /\ \/ Send(c, "result") /\ UNCHANGED ctx
       \/ Refused(c) /\ cancelUpstream(c)
    /\ Goto(c, "reading")
    /\ UNCHANGED <<pending, cancels, notes, http, stream, wire, taken, missed, sup, main>>

EndOfBody(c) ==       \* EOF, or a broken connection, or a cancelled context
    /\ pc[c] = "reading"
    /\ pc' \in {[pc EXCEPT ![c] = to] : to \in {"leave", "broken"}}
    /\ UNCHANGED <<pending, ctx, cancels, notes, clientVars, taken, missed, sup, main>>

Leave(c) ==           \* the deferred function of Write
    /\ pc[c] \in {"leave", "broken"}
    /\ cancels' = cancels \ {c}
    /\ ctx' = [ctx EXCEPT ![c] = "ended"]
    /\ Goto(c, IF pc[c] = "leave" THEN "done" ELSE "failed")
    /\ UNCHANGED <<pending, notes, clientVars, taken, missed, sup, main>>

TellWriteFailed(c) ==
    /\ pc[c] = "failed"
    /\ Send(c, "writefailed") \/ Refused(c)
    /\ Goto(c, "drop")
    /\ UNCHANGED <<pending, ctx, cancels, notes, http, stream, wire, taken, missed,
                   sup, main>>

DropFailed(c) ==
    /\ pc[c] = "drop"
    /\ Goto(c, "done")
    /\ pending' = pending \ {c}
    /\ UNCHANGED <<ctx, cancels, notes, clientVars, taken, missed, sup, main>>

-----------------------------------------------------------------------------
(* Taking calls from the table, and responding to them one by one.         *)

Take(t, K) ==
    /\ taken[t] = <<>>
    /\ pending' = pending \ K
    /\ \E order \in [1..Cardinality(K) -> K] :
          ToSet(order) = K /\ taken' = [taken EXCEPT ![t] = order]

\* Mutant: expired calls are deleted and their clients not told.
ReapSilently(K) ==
    /\ pending' = pending \ K
    /\ UNCHANGED <<postVars, clientVars, taken, missed, sup, main>>

reapPending(K) ==
    /\ Take("sweeper", K)
    /\ UNCHANGED <<postVars, clientVars, missed, sup, main>>

\* Mutant: the send does not watch the end of the exchange.
TellBlocking(t) ==
    /\ taken[t] # <<>>
    /\ Send(Head(taken[t]), Verdict(t))
    /\ taken' = [taken EXCEPT ![t] = Tail(@)]
    /\ UNCHANGED <<pending, postVars, http, stream, wire, missed, sup, main>>

Tell(t) ==
    /\ taken[t] # <<>>
    /\ Send(Head(taken[t]), Verdict(t)) \/ Refused(Head(taken[t]))
    /\ taken' = [taken EXCEPT ![t] = Tail(@)]
    /\ UNCHANGED <<pending, postVars, http, stream, wire, missed, sup, main>>

-----------------------------------------------------------------------------
(* The supervisor: this upstream has no connection to lose, so it is up    *)
(* from its first turn until the context is done.                          *)

Advance(from, to) ==
    /\ sup = from /\ sup' = to
    /\ UNCHANGED <<pending, pc, ctx, notes, clientVars, taken, missed, main>>

StartUpstream ==
    \/ main = "running" /\ Advance("dial", "writer") /\ UNCHANGED cancels
    \/ Advance("writer", "instance") /\ UNCHANGED cancels
    \/ Advance("instance", "ready") /\ UNCHANGED cancels
    \/ Advance("ready", "running") /\ UNCHANGED cancels       \* Run

StopUpstream ==
    /\ main # "running"
    /\ \/ Advance("dial", "stopped") /\ UNCHANGED cancels
       \/ Advance("running", "closed") /\ cancels' = {}       \* Close
       \/ Advance("closed", "noWriter") /\ UNCHANGED cancels
       \/ Advance("noWriter", "noInstance") /\ UNCHANGED cancels
       \/ taken["supervisor"] = <<>> /\ Advance("failing", "stopped") /\ UNCHANGED cancels

SupervisorFails ==
    /\ sup = "noInstance"
    /\ sup' = "failing"
    /\ Take("supervisor", pending)
    /\ UNCHANGED <<postVars, clientVars, missed, main>>

-----------------------------------------------------------------------------
(* run().                                                                  *)

Cancel ==
    /\ main = "running"
    /\ main' = "cancelled"
    /\ UNCHANGED <<pending, postVars, clientVars, taken, missed, sup>>

MainFails ==
    /\ main = "cancelled"
    /\ main' = "failing"
    /\ Take("main", pending)
    /\ UNCHANGED <<postVars, clientVars, missed, sup>>

CloseClient ==        \* client.Close() ends every exchange
    /\ main = "failing" /\ taken["main"] = <<>>
    /\ main' = "exited"
    /\ stream' = [c \in Requests |-> IF http[c] = "none" THEN stream[c] ELSE "closed"]
    /\ UNCHANGED <<pending, postVars, http, buf, wire, taken, missed, sup>>

Exited == main = "exited" /\ UNCHANGED vars
-----------------------------------------------------------------------------
ClientStep(c) ==
    \/ handlePost(c) \/ RateLimited(c) \/ WriteFrame(c) \/ ClientGone(c)
    \/ CleanupCancels(c) \/ CleanupDrops(c)

PostStep(c) ==
    \/ GetWriter(c) \/ LoadCallback(c) \/ Register(c) \/ Post(c)
    \/ Notification(c) \/ ForwardNote(c) \/ Result(c) \/ ForwardResult(c)
    \/ EndOfBody(c) \/ Leave(c) \/ TellWriteFailed(c) \/ DropFailed(c)

Next ==
    \/ /\ main # "exited"
       /\ \/ \E c \in Requests : ClientStep(c) \/ PostStep(c)
          \/ \E K \in SUBSET pending : K # {} /\ reapPending(K)
          \/ \E t \in Takers : Tell(t)
          \/ StartUpstream \/ StopUpstream \/ SupervisorFails
          \/ Cancel \/ MainFails \/ CloseClient
    \/ Exited

Spec == Init /\ [][Next]_vars

(***************************************************************************)
(* Fairness: goroutines take the steps they can; the ticker of the sweeper *)
(* keeps firing while the proxy runs; a cancelled POST comes to an end;    *)
(* once told to stop, run() and the supervisor go on; a client that has    *)
(* not stalled reads what it is sent.  Nothing is assumed of the upstream, *)
(* and no client is assumed to leave.                                      *)
(***************************************************************************)
Alive(A) == main # "exited" /\ A

OwnStep(c) ==
    \/ GetWriter(c) \/ LoadCallback(c) \/ Register(c)
    \/ ForwardNote(c) \/ ForwardResult(c) \/ Leave(c)
    \/ TellWriteFailed(c) \/ DropFailed(c)
    \/ ctx[c] = "cancelled" /\ (Post(c) \/ EndOfBody(c))

Fairness ==
    /\ \A c \in Requests :
          /\ WF_vars(Alive(OwnStep(c)))
          /\ WF_vars(Alive(CleanupCancels(c) \/ CleanupDrops(c)))
          /\ WF_vars(main = "running" /\
                     \E K \in SUBSET pending : c \in K /\ reapPending(K))
    /\ \A c \in Requests \ Stalled : WF_vars(Alive(WriteFrame(c)))
    /\ \A t \in Takers : WF_vars(Alive(Tell(t)))
    /\ WF_vars(Alive(StopUpstream \/ SupervisorFails))
    /\ WF_vars(MainFails \/ CloseClient)

FairSpec == Spec /\ Fairness
-----------------------------------------------------------------------------
TypeOK ==
    /\ pending \subseteq Requests
    /\ pc \in [Requests -> PostStates]
    /\ ctx \in [Requests -> {"none", "live", "cancelled", "ended"}]
    /\ cancels \subseteq Requests
    /\ notes \in [Requests -> 0..MaxNotes]
    /\ http \in [Requests -> {"none", "serving", "cancelled", "left"}]
    /\ stream \in [Requests -> {"open", "closed"}]
    /\ buf \in [Requests -> Seq(Kinds)] /\ \A c \in Requests : Len(buf[c]) <= Buffer
    /\ wire \in [Requests -> Seq(Kinds)]
    /\ taken \in [Takers -> Seq(Requests)]
    /\ missed \subseteq Requests
    /\ sup \in Sups /\ main \in {"running", "cancelled", "failing", "exited"}

(* A client never sees anything after the frame that answers its call:     *)
(* not the notification whose call left the table while it was on its way, *)
(* nor the error of a POST that broke after it had delivered its result.   *)
TerminalLast ==
    \A c \in Requests : \A i \in DOMAIN wire[c] :
        wire[c][i] \in Terminal => i = Len(wire[c])

(* An upstream POST is cancelled only when nobody waits for it any more:   *)
(* a slow client, or the end of another client, never costs a call.        *)
CancelOnlyAbandoned ==
    \A c \in Requests : ctx[c] = "cancelled" => stream[c] = "closed"

(* proxy.go:343-345: a client that walks away mid-call does not leave the  *)
(* upstream server at work.  Once the cleanup of an exchange is done its   *)
(* POST is not live, unless the cleanup looked for it before Write had     *)
(* registered it, or the upstream was closed in between.                   *)
AbandonedIsCancelled ==
    \A c \in Requests :
        http[c] = "left" /\ ctx[c] = "live" =>
            c \in missed \/ sup \notin {"instance", "ready", "running"}

(* Cancellation reaches the calls that were abandoned and no others.       *)
CancellationExact == CancelOnlyAbandoned /\ AbandonedIsCancelled

(* An accepted call whose exchange is open is in the table, or a taker or  *)
(* its own goroutine is about to answer it, or its answer is in the        *)
(* channel: nobody is forgotten.                                           *)
NoneForgotten ==
    \A c \in Requests :
        http[c] = "serving" /\ stream[c] = "open" =>
            \/ c \in pending \/ pc[c] = "result"
            \/ \E t \in Takers : c \in ToSet(taken[t])
            \/ \E i \in DOMAIN buf[c] : buf[c][i] \in Terminal

(* The exchanges keep the promise of Correlation: a call leaves the table  *)
(* once, by its result, a taker or its client's end, and its verdict comes *)
(* to its channel once or is lost with the exchange.  Notifications and    *)
(* the error of a failed POST pass by the table.                           *)
Verdicts == {"result", "timeout", "disconnected"}

Held(c) ==
    {k \in Verdicts : \/ pc[c] = "result" /\ k = "result"
                      \/ \E t \in Takers : c \in ToSet(taken[t]) /\ k = Verdict(t)}

Given(c) == (ToSet(buf[c]) \cup ToSet(wire[c])) \ {"note", "writefailed"}

phase ==
    [c \in Requests |->
        CASE c \in pending -> [at |-> "waiting", verdict |-> "none"]
          [] Held(c) # {} -> [at |-> "settled", verdict |-> CHOOSE k \in Held(c) : TRUE]
          [] Given(c) # {} -> [at |-> "answered", verdict |-> CHOOSE k \in Given(c) : TRUE]
          [] OTHER -> [at |-> IF http[c] = "none" THEN "new" ELSE "dropped",
                       verdict |-> "none"]]

Table == INSTANCE Correlation WITH Calls <- Requests

Promise == Table!Spec

(* Liveness.  interceptor.go:271-273: a call is answered, "so no client is *)
(* left hanging on a request that will never complete".                    *)
NoClientHangs ==
    \A c \in Requests \ Stalled :
        (http[c] = "serving") ~> (stream[c] = "closed" \/ main # "running")

(* Liveness: a stop is not held up by a channel nobody reads any more.     *)
ShutdownCompletes == (main = "cancelled") ~> (main = "exited")
=============================================================================
