\* Two interleaved flows, or one through its time limits, on two nodes with
\* different clocks.
SPECIFICATION Spec
CONSTANTS
    Nodes = {"n1", "n2"}
    Keys = {"k1", "k2"}
    Skew <- MCSkew
    MaxSkew = 1
    TicksPerSecond = 3
    stateTTL = 6
    authCodeTTL = 4
    Queries <- MCQueries
    Absent = Absent
    Clients = {"A", "B"}
    URIs <- MCURIs
    Verifiers = {"v1", "v2"}
    S256 <- MCS256
    Lifetimes = {0, 4}
    MaxAuthorize = 2
    ProviderCodes = {p1, p2}
    MaxCalls = 3
    MaxReleases = 1
    Horizon <- MCHorizon
SYMMETRY Symmetry
INVARIANTS TypeOK TokensOnlyToRequester RedirectMatchesState YoungIsAccepted
PROPERTIES StaleIsRefused ExpiryOverstated
