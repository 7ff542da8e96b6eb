\* Concurrent workers under any clock: a tight quota (2 admissions per 3 ms),
\* wakes, and disposition after 2 invalid outputs.
SPECIFICATION Spec
CONSTANTS
    MinWake = 1
    MaxAttempts = 2
    Period = 3
    MaxWake = 2
    MaxMillis = 4
    Keys = {k1}
    Payloads = {p1, p2}
    WakeRequests = {0, 3}
    MaxOccasionFailures = 2
    MaintenanceModes = {TRUE, FALSE}
    AttemptBound = 4
SYMMETRY MessageSymmetry
INVARIANTS
    TypeOK
    RateLimit
    WakeIsCurrentAndDue
    ReservationsAreLive
    EligibilityIsExact
    HistoryVerifies
    InboxOrder
PROPERTIES
    ImplementsLedger
    DispositionKeepsWake
