\* Every environment with every file, and requests that wait for keys, under fairness;
\* the keys do not change.
SPECIFICATION FairSpec
CONSTANTS
    Environments <- MCEnvironments
    ConfigFiles <- MCFiles
    Nodes = {n1}
    Requests = {r1, r2}
    Credentials <- LiveCredentials
    Keys = {k1, k2, kOther, kForged}
    IssuerKeys = {k1, k2}
    NoToken = NoToken
    EmptyToken = EmptyToken
    NotAString = NotAString
    None = None
    k1 = k1
    k2 = k2
    kOther = kOther
    kForged = kForged
    MaxTime = 3
    MaxRotations = 0
INVARIANTS ProxyMatchesChain
PROPERTIES RequestsDecided
