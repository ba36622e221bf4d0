\* A Streamable HTTP client (disconnects, cleanup), a stdio upstream that may fail to
\* start: a request and a console replay, one reconnect, shutdown.
SPECIFICATION Spec
CONSTANTS
    Requests = {r1}
    Replays = {p1}
    ClientTransport = "streamable-http"
    UpstreamTransport = "stdio"
    MaxConn = 2
INVARIANTS
    TakenOnce
    RoutedToOwner
    NoOrphan
    NoneForgotten
