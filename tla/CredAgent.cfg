SPECIFICATION SystemSpec
CONSTANTS
    p1 = p1
    b1 = b1
    m1 = m1
    w1 = w1
    a1 = a1
    nokey = nokey
    Pools = {p1}
    Borrowers = {b1}
    Mints = {m1}
    CollateralMint <- OneMint
    MaxLoanId = 1
    MaxTime = 1
    MAX_U64 = 10
    Deposits = {10}
    Withdrawals = {}
    Payments = {}
    Principals = {4}
    Pledges = {6}
    Prices = {1}
    Durations = {1}
    Rates = {3}
    Scores <- EveryScore
    Counts = {}
    Intervals = {1}
    BaseRate = 5
    PriceFeedDispatched = TRUE
    DAY = 1
    GRACE_PERIOD_SECS = 0
    SECONDS_PER_YEAR = 1
    DEFAULT_PRICE_MAX_AGE_SECS = 1
    BPS_DENOMINATOR = 10
    PRECISION = 10
    PRICE_UNIT = 1
    MAX_INTEREST_RATE_BPS = 5
    MAX_UTILIZATION_BPS = 8
    MIN_COLLATERAL_RATIO_BPS = 15
    MAX_LOAN_DURATION_DAYS = 3
    MAX_INSTALLMENTS = 2
    STARTER_MAX_PRINCIPAL = 2
    STARTER_MAX_DURATION_DAYS = 1
    STARTER_MIN_RATE_BPS = 2
    Wallets = {w1}
    Admins = {a1}
    NoKey = nokey
    Candidates = {}
    GivenRoles = {"Lending"}
    GivenTiers = {2}
    Limits = {4}
    Losses = {}
    DepositLevels = {10}
    U16_RANGE = 65
    ROTATION_DELAY_SECS = 2
    CIRCUIT_BREAKER_LOSS_BPS = 1
    o1 = o1
    k1 = k1
    nodid = nodid
    Oracles = {o1}
    Keys = {k1}
    NoDid = nodid
    Dids = {d1}
    d1 = d1
    MAX_U16 = 1
    MAX_COUNT = 2
    GivenScores = {299, 449, 750, 851}
    GivenConfidences = {90, 101}
    GivenPeriods = {0, 1, 2}
    LoanAmounts = {0}
    MIN_VALIDITY_SECS = 1
    MAX_VALIDITY_SECS = 1
    MIN_SCORE = 300
    MAX_SCORE = 850
    AAA_THRESHOLD = 750
    AA_THRESHOLD = 650
    A_THRESHOLD = 550
    BB_THRESHOLD = 450
INVARIANT LendingIsCharged
PROPERTY PauseStopsLending
PROPERTY LoansRestOnScores
INVARIANT ScoreLifetime
PROPERTY RevocationIsFinal
PROPERTY PausedIsFrozen
CHECK_DEADLOCK FALSE
