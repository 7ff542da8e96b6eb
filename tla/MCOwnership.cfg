\* Three processes that start, fail, stop and are killed at every step.
SPECIFICATION OwnershipSpec
CONSTANTS
    Hosts = {h1, h2, h3}
    Sockets = {"s", "t"}
    Databases = {"d", "e"}
    Configs <- CommandLines
    Nobody = Nobody
    Stale = Stale
SYMMETRY Symmetry
INVARIANTS
    OwnersAreExclusive
PROPERTIES
    ImplementsEndpoint
