SPECIFICATION MCSpec
CONSTANTS
    s1 = s1
    b1 = b1
    e1 = e1
    c3 = c3
    Sessions <- MCSessions
    Committee <- MCCommittee
    ValidFrom <- MCValidFrom
    ValidUntil <- MCValidUntil
    Ballots <- MCTwoBallots
    SessionOf <- MCSessionOf
    GuardianOf <- MCGuardianOf
    NonceOf <- MCNonceOf
    IssuedAt <- MCIssuedAt
    ExpiresAt <- MCExpiresAt
    Authentic <- MCTwoBallots
    Approving = {}
    Confident = {}
    MaxClockSkew = 1
    MaxBallotLifetime = 2
    Times <- MCTimes
    MaxTime = 3
    Conns = {c1, c2, c3}
    MaxConnections = 2
    Unparsable = garbage
    Unanswerable = odd
    ClockMayStepBack = TRUE
INVARIANTS BooksAreKept
PROPERTIES RetransmissionIsKnown
SYMMETRY Symmetric
