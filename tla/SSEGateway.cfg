\* Two requests over two sessions; queues and lines of one frame; a notification.
SPECIFICATION FairSpec
CONSTANTS
    s1 = s1
    s2 = s2
    r1 = r1
    r2 = r2
    Sessions = {s1, s2}
    Requests = {r1, r2}
    Session <- MCSession
    QueueSize = 1
    LineSize = 1
    MaxNotes = 1
INVARIANTS
    NoSilentLoss
    AnswerBeatsDown
PROPERTIES
    Promise
    LinesMoveOn
CHECK_DEADLOCK FALSE
