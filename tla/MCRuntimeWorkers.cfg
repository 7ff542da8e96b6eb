\* A route with a fallback beside a self-state runtime: staged evidence, wakes,
\* a registry that changes between steps, and a crash.
SPECIFICATION RuntimeSpec
CONSTANTS
    w1 = w1
    w2 = w2
    e1 = e1
    e2 = e2
    e3 = e3
    MinWake = 1
    MaxAttempts = 3
    Period = 2
    MaxWake = 1
    MaxMillis = 2
    Keys = {}
    Payloads = {p1}
    WakeRequests = {0}
    MaxOccasionFailures = 1
    MaintenanceModes = {FALSE}
    AttemptBound = 3
    Workers = {w1, w2}
    Mode <- RouteAndSelf
    Executors = {e1, e2, e3}
    Route <- ThreeExecutors
    Managed = {e1}
    Refused = {e3}
    MaxSessions = 1
    Contexts = {TRUE, FALSE}
    Answers = {"proposal", "ungranted", "mute"}
    CrashBound = 1
INVARIANTS
    OrphansAreAbandoned
    EvidenceIsBound
PROPERTIES
    ReservationsAreSettledByTheirOwner
