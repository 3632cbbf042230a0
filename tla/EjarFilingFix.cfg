\* A contract that was rejected, put right and filed again.
SPECIFICATION GatewaySpec
CONSTANTS
    t1 = t1
    t2 = t2
    w1 = w1
    w2 = w2
    Threads = {t1, t2}
    FailureThreshold = 2
    SuccessThreshold = 2
    MaxVersion = 2
    MaxOutages = 1
    Contracts <- Lease
    Parties <- BothSides
    Companies <- Lessor
    Representatives <- Agent
    Units <- Flat
    Portfolio <- Flat
    Terms <- OneTerm
    HasFee = TRUE
    MaxForm = 2
    MaxDrafts = 2
    MaxLapses = 0
    MaxDeaths = 0
    Receivers = {w1, w2}
    MaxEvents = 2
INVARIANT FixIsFiled
CHECK_DEADLOCK FALSE
