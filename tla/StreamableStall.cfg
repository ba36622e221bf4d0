\* One call whose client stops reading, and a stop.
SPECIFICATION FairSpec
CONSTANTS
    Requests = {r1}
    Stalled = {r1}
    MaxNotes = 2
    Buffer = 2
PROPERTIES
    ShutdownCompletes
