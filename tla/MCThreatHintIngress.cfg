SPECIFICATION IngressSpec
CONSTANTS
    h1 = h1
    h2 = h2
    n1 = n1
    n2 = n2
    Hints = {h1, h2}
    Networks = {n1, n2}
    Conns = {c1, c2}
    Canonical = {h1, h2}
    Nonce <- MCNonce
    ThreatHash <- MCThreatHash
    ObservedAt <- MCObservedAt
    ProofNetworks <- MCProofNetworks
    Times <- MCTimes
    MaxTime = 3
    MaxHintAge = 1
    MaxFutureSkew = 1
    MaxConnections = 2
    ClockMayStepBack = TRUE
SYMMETRY MCSymmetry
INVARIANTS AckIsDurable AcceptedSaidOnce JobNetworkProved PermitsBalanced NoJobLost
PROPERTIES ReplaySafe
