SPECIFICATION Spec
CONSTANTS
    b1 = b1
    b2 = b2
    r1 = r1
    r2 = r2
    noone = noone
    Borrowers = {b1, b2}
    Custodial = {b1}
    Requests = {r1, r2}
    NoOne = noone
    MaxLoanId = 2
    MaxCounter = 1
    GivenScores <- MCScores
    Amounts = {4000}
    Durations = {60}
    CounterOffers <- MCCounters
    Pledges = {2400}
    StarterTerms <- MCStarter
    PRICE_RATIO_BPS = 40000
    RATE_FLOOR_BPS = 200
    RATE_CEILING_BPS = 5000
    MAX_NEGOTIATION_ROUNDS = 1
    MAX_RATE_REDUCTION_BPS = 100
    MAX_DURATION_EXTENSION_DAYS = 30
    MIN_LTV_BPS = 1000
    MIN_COLLATERAL_RATIO_BPS = 15000
    BPS = 10000
SYMMETRY Alike
INVARIANT OfferWithinPolicy
INVARIANT ApprovedOnChain
INVARIANT OneExecutionPerLoan
INVARIANT HistoryBehindLoans
CHECK_DEADLOCK FALSE
