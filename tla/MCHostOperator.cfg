\* The host alone: evidence, retries, a stop or a crash.
SPECIFICATION HostSpec
CONSTANTS
    h = h
    w = w
    e1 = e1
    MinWake = 1
    MaxAttempts = 3
    Period = 2
    MaxWake = 1
    MaxMillis = 2
    Keys = {k1}
    Payloads = {p1}
    WakeRequests = {}
    MaxOccasionFailures = 1
    MaintenanceModes = {FALSE}
    AttemptBound = 3
    Workers = {h}
    Mode <- AloneHost
    Executors = {e1}
    Route <- OneExecutor
    Managed = {}
    Refused = {}
    MaxSessions = 1
    Contexts = {FALSE}
    Answers = {"proposal", "abstention"}
    CrashBound = 1
    HostWorker = h
    Images = {}
    OperatorBound = 3
INVARIANTS
    NoInvisibleRetries
    OneAttemptPerReport
PROPERTIES
    EvidenceIsKept
