\* A route with a fallback beside Runtime::step; provider answers of every kind.
SPECIFICATION RuntimeSpec
CONSTANTS
    w1 = w1
    w2 = w2
    e1 = e1
    e2 = e2
    e3 = e3
    MinWake = 1
    MaxAttempts = 3
    Period = 2
    MaxWake = 1
    MaxMillis = 2
    Keys = {k1}
    Payloads = {p1}
    WakeRequests = {}
    MaxOccasionFailures = 1
    MaintenanceModes = {FALSE}
    AttemptBound = 3
    Workers = {w1, w2}
    Mode <- RouteAndStep
    Executors = {e1, e2}
    Route <- TwoExecutors
    Managed = {}
    Refused = {}
    MaxSessions = 1
    Contexts = {FALSE}
    Answers = {"proposal", "refusal", "malformed", "garbled", "status", "late", "keyless", "fault", "mute"}
    CrashBound = 0
INVARIANTS
    ReportsAreDurable
    RouteStaysAtOneHead
PROPERTIES
    DiagnosedOutagesPreserveOccasion
