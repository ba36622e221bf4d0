\* Liveness, refinement and double answers: one request of an SSE client that may go
\* away or stop reading, an SSE upstream that may be lost and reconnected.
SPECIFICATION FairSpec
CONSTANTS
    Requests = {r1}
    Replays = {}
    ClientTransport = "sse"
    UpstreamTransport = "sse"
    MaxConn = 2
INVARIANTS
    TwiceOnlyIfWriteFailed
PROPERTIES
    EventuallyAnswered
    Promise
