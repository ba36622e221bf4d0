\* One call, a channel of two frames, two notifications, a stop at any moment.
SPECIFICATION FairSpec
CONSTANTS
    Requests = {r1}
    Stalled = {}
    MaxNotes = 2
    Buffer = 2
INVARIANTS
    
    CancellationExact
PROPERTIES
    Promise
    
    ShutdownCompletes
