CONSTANTS
    t1 = t1
    t2 = t2
    asset = asset
    Callers = {t1, t2}
    Capabilities = {asset}
    Setups <- MCSetups
    ResetTime = 1
    RetryAfter = {1}
    AcquireTimeout = 1
    Nobody = Nobody
SPECIFICATION FairSpec
INVARIANTS
    PoolSafe
PROPERTIES
    LimitsHonoured
    ShutdownDrains
