\* Calls of two kinds, one of which gets a result or an error; policies by age, by
\* number, and none; one replaying console, and the hourly and a reload's pruner.
SPECIFICATION Spec
CONSTANTS
    Replayers = {console}
    Pruners = {hourly, reload}
    Params = {x, y}
    Results = {ok}
    Errors = {bad}
    Down = down
    None = None
    Policies <- MCPolicies
    QueueSize = 1
    BatchMax = 2
    MaxRecords = 2
    MaxTime = 2
SYMMETRY Symmetry
INVARIANTS
    TypeOK
    LineageHolds
    
    
