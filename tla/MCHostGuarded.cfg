\* Image messages of a subject with a self profile, which another process
\* drives too.
SPECIFICATION HostSpec
CONSTANTS
    h = h
    w = w
    e1 = e1
    MinWake = 1
    MaxAttempts = 3
    Period = 2
    MaxWake = 1
    MaxMillis = 2
    Keys = {k1}
    Payloads = {p1}
    WakeRequests = {0}
    MaxOccasionFailures = 1
    MaintenanceModes = {FALSE}
    AttemptBound = 3
    Workers = {h, w}
    Mode <- GuardedHost
    Executors = {e1}
    Route <- OneExecutor
    Managed = {}
    Refused = {}
    MaxSessions = 1
    Contexts = {FALSE}
    Answers = {"proposal"}
    CrashBound = 0
    HostWorker = h
    Images = {p1}
    OperatorBound = 1
INVARIANTS
    PacketsAreBound
