SPECIFICATION CreditSpec
CONSTANTS
    o1 = o1
    b1 = b1
    k1 = k1
    nokey = nokey
    nodid = nodid
    Oracles = {o1}
    Self = o1
    Scored = {b1}
    Keys = {k1}
    NoKey = nokey
    NoDid = nodid
    Dids = {}
    c1 = c1
    c2 = c2
    Calls = {c1}
    Evidence <- MCEvidence
    DemoFeatures <- MCDemoFeatures
    DefaultProbabilities = {200}
    MaxTime = 3
    MAX_U16 = 1
    MAX_COUNT = 3
    MAX_U64 = 1
    GivenScores = {}
    GivenConfidences = {}
    GivenPeriods = {}
    LoanAmounts = {}
    MIN_VALIDITY_SECS = 2
    MAX_VALIDITY_SECS = 2
    MIN_SCORE = 300
    MAX_SCORE = 850
    AAA_THRESHOLD = 750
    AA_THRESHOLD = 650
    A_THRESHOLD = 550
    BB_THRESHOLD = 450
    RPC_CACHE_TTL = 2
    FEATURE_CACHE_TTL = 2
    STALENESS_WINDOW = 2
    PUSH_COOLDOWN = 2
    MaxRestarts = 1
    CACHE_EXPIRY = 3
PROPERTY HistoryOutweighs
CHECK_DEADLOCK FALSE
