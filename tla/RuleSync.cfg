\* Three rules, two of them in config.yaml; two console requests or reloads at a time,
\* three writes, and a restart that may cut any of it short.
SPECIFICATION Spec
CONSTANTS
    Rules = {a, b, c}
    ConfigRules = {a, b}
    Editors = {e1, e2}
    MaxWrites = 3
    MaxStarts = 2
INVARIANTS
    TypeOK
    
    CurrentUnlessOverlap
    RemovedStaysRemoved
