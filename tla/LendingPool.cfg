SPECIFICATION Spec
CONSTANTS
    p1 = p1
    p2 = p2
    b1 = b1
    b2 = b2
    m1 = m1
    Pools = {p1}
    Borrowers = {b1}
    Mints = {m1}
    CollateralMint <- OneMint
    MaxLoanId = 2
    MaxTime = 3
    MAX_U64 = 13
    Deposits = {10}
    Withdrawals = {6}
    Payments = {4}
    Principals = {4}
    Pledges = {6}
    Prices = {1}
    Durations = {1}
    Rates = {3, 4}
    Scores <- MCScores
    Counts = {2}
    Intervals = {1}
    BaseRate = 5
    PriceFeedDispatched = TRUE
    DAY = 1
    GRACE_PERIOD_SECS = 1
    SECONDS_PER_YEAR = 1
    DEFAULT_PRICE_MAX_AGE_SECS = 1
    BPS_DENOMINATOR = 10
    PRECISION = 10
    PRICE_UNIT = 1
    MAX_INTEREST_RATE_BPS = 5
    MAX_UTILIZATION_BPS = 8
    MIN_COLLATERAL_RATIO_BPS = 15
    MAX_LOAN_DURATION_DAYS = 3
    MAX_INSTALLMENTS = 2
    STARTER_MAX_PRINCIPAL = 4
    STARTER_MAX_DURATION_DAYS = 1
    STARTER_MIN_RATE_BPS = 4
INVARIANT TypeOK
INVARIANT BooksBalance
INVARIANT CollateralHeld
INVARIANT ScheduleTracksLoan
PROPERTY ClosedInFull
PROPERTY FreshIndex
PROPERTY ImplementsLifecycle
CHECK_DEADLOCK FALSE
