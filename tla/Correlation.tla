----------------------------- MODULE Correlation -----------------------------
(***************************************************************************)
(* What the in-flight table of the proxy promises its callers, with        *)
(* nothing said of ids, connections, goroutines or locks: every call is    *)
(* accepted or refused once; an accepted call gets one verdict, or is      *)
(* dropped because its caller gave up; the verdict, once given, is never   *)
(* changed and is delivered at most once.  Proxy, StreamableHop and        *)
(* SSEGateway implement this, each under a mapping of its own (phase).     *)
(***************************************************************************)
CONSTANTS Calls, Verdicts
VARIABLE phase

New == [at |-> "new", verdict |-> "none"]
Waiting == [at |-> "waiting", verdict |-> "none"]
Dropped == [at |-> "dropped", verdict |-> "none"]
Settled(v) == [at |-> "settled", verdict |-> v]
Answered(v) == [at |-> "answered", verdict |-> v]

Init == phase = [c \in Calls |-> New]

Move(c, from, to) == phase[c] = from /\ phase' = [phase EXCEPT ![c] = to]

Accept(c) == Move(c, New, Waiting)
Refuse(c) == Move(c, New, Answered("limited"))
Drop(c) == Move(c, Waiting, Dropped)

\* One event (a reply, a lost connection, a sweep) settles a set of calls.
Settle(S, v) ==
    /\ \A c \in S : phase[c] = Waiting
    /\ phase' = [c \in Calls |-> IF c \in S THEN Settled(v) ELSE phase[c]]

Answer(c, v) == Move(c, Settled(v), Answered(v))
Lose(c, v) == Move(c, Settled(v), Dropped)

Next ==
    \/ \E c \in Calls : Accept(c) \/ Refuse(c) \/ Drop(c)
    \/ \E S \in SUBSET Calls, v \in Verdicts : Settle(S, v)
    \/ \E c \in Calls, v \in Verdicts : Answer(c, v) \/ Lose(c, v)

Spec == Init /\ [][Next]_phase
=============================================================================
