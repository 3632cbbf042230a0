\* Breaker and cache, the filing steps, and the webhooks: three parts without common state.
SPECIFICATION GatewaySpec
CONSTANTS
    t1 = t1
    t2 = t2
    w1 = w1
    w2 = w2
    Threads = {t1, t2}
    FailureThreshold = 2
    SuccessThreshold = 2
    MaxVersion = 2
    MaxOutages = 1
    Contracts <- Lease
    Parties <- BothSides
    Companies <- Lessor
    Representatives <- Agent
    Units <- Flat
    Portfolio <- Flat
    Terms <- OneTerm
    HasFee = TRUE
    MaxForm = 1
    MaxDrafts = 2
    MaxLapses = 1
    MaxDeaths = 1
    Receivers = {w1, w2}
    MaxEvents = 2
INVARIANTS GatewayTypeOK BreakerAgrees FiledIsComplete RememberedIsHeld OneDraftEach AppliedOnce
PROPERTIES ClosesOnEvidence CircuitRecovers RotationTakesEffect FilingEnds WebhookKeepsPromise
CHECK_DEADLOCK FALSE
