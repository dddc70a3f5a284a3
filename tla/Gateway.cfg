SPECIFICATION Spec
CONSTANTS
    Agents = {"lending", "collection"}
    AgentTier <- MCAgentTier
    DailyLimit <- MCDailyLimit
    Clients <- MCClients
    Calls = {"c1", "c2"}
    Principals = {1, 2}
    Losses = {1}
    Deposits = {20}
    MaxTime = 2
    MaxRestarts = 1
    MaxLosses = 2
    DAY = 2
    CIRCUIT_BREAKER_LOSS_BPS = 1000
    BPS = 10000
INVARIANT OverspendBounded
PROPERTY RecoveryInTwoSteps
PROPERTY PauseTakesEffect
CHECK_DEADLOCK FALSE
