SPECIFICATION Spec
CONSTANTS
    Ips = {"ip1"}
    Keys = {"k1"}
    RevokeRequests = {"r1"}
    MaxTime = 7
    MaxSessions = 2
    MAX_FAILED_ATTEMPTS = 2
    LOCKOUT_DURATION = 2
    SESSION_TTL = 2
INVARIANT TriesBounded
PROPERTY SessionsEnd
CHECK_DEADLOCK FALSE
