SPECIFICATION RuntimeSpec
CONSTANTS
    a1 = a1
    a2 = a2
    a3 = a3
    s1 = s1
    s2 = s2
    s3 = s3
    s4 = s4
    r1 = r1
    r2 = r2
    none = none
    AgentIds = {a1, a2, a3}
    Defaults = {a1}
    Seeds = {s1, s2, s3, s4}
    NoSeed = none
    Requests = {r1, r2}
    arbitrum = arbitrum
    e1 = e1
    e2 = e2
    Chains = {arbitrum}
    PoolStates <- MCPoolStates
    Evaluations = {e1, e2}
    MAX_SENT = 12000
    TARGET_YIELD_BPS <- MCTargetYields
    BRIDGE_MIN_AMOUNT_USD = 5000
    INITIAL_RATE_BPS = 650
    RATE_FLOOR_BPS = 200
    RATE_CEILING_BPS = 850
    MAX_RATE_CHANGE_BPS = 200
SYMMETRY Alike
PROPERTY RestartKeepsWallets
INVARIANT SignsAsTold
INVARIANT BridgedWasSent
CHECK_DEADLOCK FALSE
