\* Two runtimes, two commitments with room for one open, and a writer without a
\* guard that changes the profile.
SPECIFICATION SelfSpec
CONSTANTS
    Runtimes = {r1, r2}
    Ids = {a, b}
    Texts = {t}
    Profiles = {d}
    MaxOpen = 1
    MaxPermissions = 1
    Foreign <- ProfileWrite
    CommitBound = 3
SYMMETRY Symmetry
INVARIANTS
    CacheIsReplay
    GuardsAgree
    HistoryReplays
