SPECIFICATION DashboardSpec
CONSTANTS
    p1 = p1
    b1 = b1
    b2 = b2
    m1 = m1
    l1 = l1
    l2 = l2
    c1 = c1
    c2 = c2
    nooffer = nooffer
    Pools = {p1}
    Borrowers = {b1,b2}
    Mints = {m1}
    CollateralMint <- OneMint
    Pages = {b1}
    Loads = {l1, l2}
    Clicks = {c1,c2}
    Offers <- MCOffers
    NoOffer = nooffer
    ROUNDING = 0
    MaxLoanId = 2
    MaxTime = 2
    MAX_U64 = 9
    Deposits = {5}
    Withdrawals = {}
    Payments = {4, 6}
    Principals = {2,4}
    Pledges = {6}
    Prices = {1}
    Durations = {1}
    Rates = {3}
    Scores <- MCScores
    Counts = {1}
    Intervals = {1}
    BaseRate = 5
    PriceFeedDispatched = TRUE
    DAY = 1
    GRACE_PERIOD_SECS = 0
    SECONDS_PER_YEAR = 1
    DEFAULT_PRICE_MAX_AGE_SECS = 2
    BPS_DENOMINATOR = 10
    PRECISION = 10
    PRICE_UNIT = 1
    MAX_INTEREST_RATE_BPS = 5
    MAX_UTILIZATION_BPS = 8
    MIN_COLLATERAL_RATIO_BPS = 15
    MAX_LOAN_DURATION_DAYS = 3
    MAX_INSTALLMENTS = 2
    STARTER_MAX_PRINCIPAL = 2
    STARTER_MAX_DURATION_DAYS = 1
    STARTER_MIN_RATE_BPS = 2
INVARIANT EstimateCovered
INVARIANT ShownIsPast
INVARIANT PaymentWithinDebt
INVARIANT StartedIsReal
CONSTRAINT OnePartAtATime
SYMMETRY Alike
CHECK_DEADLOCK FALSE
