\* One subject that keeps notes and one that keeps tasks.
SPECIFICATION MemorySpec
CONSTANTS
    k1 = k1
    k2 = k2
    k3 = k3
    t1 = t1
    t2 = t2
    Workloads <- AllWorkloads
    Besides <- Contexts
    EntryBound = 3
    AttemptBound = 3
SYMMETRY Symmetry
INVARIANTS
    MemoryVerifies
    EvidenceIsReachable
    TasksAreShown
    OpenTasksFit
PROPERTIES
    SettledTasksWereShown
