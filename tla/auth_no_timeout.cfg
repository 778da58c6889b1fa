\* OIDC_TIMEOUT is not set.
SPECIFICATION FairSpec
CONSTANTS
    Environments <- NoTimeout
    ConfigFiles <- NoFiles
    Nodes = {n1}
    Requests = {r1}
    Credentials <- LiveCredentials
    Keys = {k1, k2, kOther, kForged}
    IssuerKeys = {k1, k2}
    NoToken = NoToken
    EmptyToken = EmptyToken
    NotAString = NotAString
    None = None
    k1 = k1
    k2 = k2
    kOther = kOther
    kForged = kForged
    MaxTime = 3
    MaxRotations = 0
PROPERTIES RequestsDecided
