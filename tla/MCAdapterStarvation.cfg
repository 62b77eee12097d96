SPECIFICATION FairPipelineSpec
CONSTANTS
    h1 = h1
    h2 = h2
    Hints = {h1, h2}
    Networks = {n1, n2}
    Adapters = {a1}
    Running = {a1}
    Nonce <- MCUnique
    ThreatHash <- MCUnique
    ObservedAt <- MCObservedAt
    DigestRank <- MCDigestRank
    Times <- MCTimes
    MaxTime = 2
    MaxHintAge = 1
    MaxFutureSkew = 1
    BatchLimit = 1
    HostMayStepBack = FALSE
PROPERTIES
    SafeJobsNotStarved
