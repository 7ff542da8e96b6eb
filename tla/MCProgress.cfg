\* A polling route: a message that may be rejected twice, a wake and a crash.
SPECIFICATION ProgressSpec
CONSTANTS
    w1 = w1
    e1 = e1
    MinWake = 1
    MaxAttempts = 2
    Period = 3
    MaxWake = 1
    MaxMillis = 12
    Keys = {k1}
    Payloads = {p1}
    WakeRequests = {0}
    MaxOccasionFailures = 2
    MaintenanceModes = {FALSE}
    AttemptBound = 8
    Workers = {w1}
    Mode <- OneRoute
    Executors = {e1}
    Route <- OneExecutor
    Managed = {}
    Refused = {}
    MaxSessions = 1
    Contexts = {FALSE}
    Answers = {"proposal", "malformed"}
    CrashBound = 1
    WakeTicks = 1
PROPERTIES
    SubjectAdvances
