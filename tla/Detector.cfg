\* Two calls at a time, a cache of one entry that three payloads compete for, an
\* endpoint that may fail and then answer, a clock that outlasts entries and pauses.
SPECIFICATION FairSpec
CONSTANTS
    Callers = {p1, p2}
    free = free
    named = named
    ghost = ghost
    Names <- MCNames
    FieldRules <- MCFieldRules
    Arguments <- MCArguments
    Findings <- MCFindings
    ApplyToResult = FALSE
    TTL = 1
    BrokenFor = 2
    CacheMax = 1
    MaxTime = 2
INVARIANTS
    TypeOK
    FreshFindings
    PausedAfterFailure
PROPERTIES
    MaskReturns
