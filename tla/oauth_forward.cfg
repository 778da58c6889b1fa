\* Three calls of one client, which may overlap.
SPECIFICATION Spec
CONSTANTS
    Calls = {c1, c2, c3}
    MaxTokens = 3
    NoBody = NoBody
    BadBody = BadBody
    Error = Error
INVARIANTS TypeOK RevokedIsRevoked SessionKept
\* After the last call nothing happens.
CHECK_DEADLOCK FALSE
