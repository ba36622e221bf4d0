\* Three records through a channel of two, a database that may hang, fail or be
\* slow, and a shutdown at any moment.
SPECIFICATION FairSpec
CONSTANTS
    None = None
    Records = {r1, r2, r3}
    QueueSize = 2
INVARIANTS
    TypeOK
    StoredInOrder
    GracefulFlush
PROPERTIES
    NeverStuck
