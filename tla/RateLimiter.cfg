\* Two callers over two clients, two rates (one of them 0), a quota that a
\* reload may lower, two days.
SPECIFICATION LimiterSpec
CONSTANTS
    Clients = {c1, c2}
    Callers = {p1, p2}
    Rates = {0, 1}
    Quotas = {0, 1, 2}
    Unit = 2
    Burst = 3
    Day = 2
    MaxTime = 4
SYMMETRY Symmetry
INVARIANTS
    LimiterTypeOK
    NoOvergrant
    QuotaHolds
    LimitsInForce
