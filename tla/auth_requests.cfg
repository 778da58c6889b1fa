\* Two requests on two nodes, with keys that change and a fetch that may time out.
SPECIFICATION Spec
CONSTANTS
    Environments <- OneEnvironment
    ConfigFiles <- OneFile
    Nodes = {n1, n2}
    Requests = {r1, r2}
    Credentials <- MCCredentials
    Keys = {k1, k2, kOther, kForged}
    IssuerKeys = {k1, k2}
    NoToken = NoToken
    EmptyToken = EmptyToken
    NotAString = NotAString
    None = None
    k1 = k1
    k2 = k2
    kOther = kOther
    kForged = kForged
    MaxTime = 3
    MaxRotations = 1
SYMMETRY Symmetry
INVARIANTS TypeOK NeverDowngraded AdmittedGenuine NodesAgree
PROPERTIES StalenessBounded ImplementsAccess
