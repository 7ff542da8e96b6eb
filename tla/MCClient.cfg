\* One client, and a socket behind which hosts of two databases come and go.
SPECIFICATION ClientSpec
CONSTANTS
    Sockets = {s}
    Databases = {d, e}
    Nobody = Nobody
    ClientSocket = s
    Drafts = {x, y}
    Empty = Empty
    Nothing = Nothing
    ListenBacklog = 2
    InputBound = 3
    CommitBound = 1
    JobBound = 2
    ResultBound = 2
SYMMETRY Symmetry
INVARIANTS
    RowsMatchDrafts
    PauseHolds
    EvidenceReachesItsRequest
    SendIsOwed
PROPERTIES
    DraftsAreKept
