SPECIFICATION Spec
CONSTANTS
    w1 = w1
    a1 = a1
    a2 = a2
    nokey = nokey
    Wallets = {w1}
    Admins = {a1, a2}
    NoKey = nokey
    Candidates = {a1, a2, nokey}
    GivenRoles = {"Lending"}
    GivenTiers = {1, 2, 3}
    MaxTime = 5
    MAX_U64 = 3
    U16_RANGE = 65
    Limits = {2, 3}
    Amounts = {2}
    Losses = {2}
    DepositLevels = {10}
    SECONDS_PER_DAY = 2
    ROTATION_DELAY_SECS = 4
    CIRCUIT_BREAKER_LOSS_BPS = 1
    BPS = 10
SYMMETRY AdminSymmetry
INVARIANT DailySpendBounded
INVARIANT BreakerPauses
INVARIANT BreakerTrips
PROPERTY RotationDelayed
CHECK_DEADLOCK FALSE
