\* Two edits of the file, the poller and one console, two values of the fields that
\* need a restart.
SPECIFICATION FairSpec
CONSTANTS
    Poller = poller
    Consoles = {console}
    None = None
    Fields = {x, y}
    MaxEdits = 2
INVARIANTS
    TypeOK
    AppliedTogether
    RestartAnnounced
PROPERTIES
    EditsArrive
