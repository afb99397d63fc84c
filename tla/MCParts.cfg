SPECIFICATION PartsSpec
CONSTANTS
    \* OptimisticDispute and DisputeMonitor
    Address = {a1}
    Zero = z
    ChallengePeriod = 3
    Genesis = 4
    MaxProposals = 2
    AlertNum = 2
    AlertDen = 3
    PollEvery = 2
    MaxObserved = 2
    MaxTime = 9
    \* ValidatorSlasher
    Validator = {v1, v2, v3}
    Value = {4, 10}
    MinStake = {5, 10}
    MaxFunds = 38
    \* ValidatorSetManager
    Member = {e1, e2}
    EpochDelay = 2
    MaxSize = 2
    MaxClock = 5
    \* TransactionLocks
    Id = {t1, t2, t3}
    User = {u1, u2}
    Ttl = {1, 2}
    MaxLocks = 2
    \* FallbackExecutor
    Call = {k1, k2, k3}
    Route = {r1, r2}
    MaxAttempts = {2}
    Timeouts = {1, 3}
    Lag = 1
    MaxDisturbances = 1
    \* CircuitBreaker
    Provider = {p1, p2}
    FailureThreshold = 2
    ResetTimeout = 2
    HalfOpenSuccessThreshold = 2
    MaxFailures = 3
    \* EvmExecutor
    Message = {m1, m2}
    InitialGasPrice = 100
    MaxGasPrice = 115
    BumpPercentage = 10
    MaxBumps = 1
    PoolBump = 10
    \* LiquidityRebalancer
    Chain = {c1, c2}
    MaxReserve = 3
    BPS = 10
    Targets = {3, 5}
    Bounds = {1}
    MaxTotal = 7
    MaxBatch = 2
    \* MessageEscrow
    MessageId = {x1, x2, x3}
    Recipient = {y1, y2}
    Token = {n1, n2}
    EscrowAmount = {1, 2}
    \* PackedPool
    Account = {b1, b2}
    PoolLimit = 3
    ShareLimit = 7
    FeeBase = 4
    FeeRate = {0, 2, 5}
    MaxPoolInits = 1
INVARIANTS
    PartsTypeOK
    CollateralIsBacked
    FraudIsAnnounced
    ActiveListIsExact
    StakesAreBacked
    OwnersMatchLocks
    OneExecutionPerRoute
    TwiceOnlyAfterTimeout
    AheadOnlyIfDisturbed
    TotalCoversReserves
    EscrowIsBacked
    SharesAreCovered
PROPERTIES
    RotationIsTimelocked
    TransitionsAreEarned
CHECK_DEADLOCK FALSE
