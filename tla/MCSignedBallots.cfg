SPECIFICATION BallotsSpec
CONSTANTS
    s1 = s1
    b1 = b1
    b2 = b2
    b3 = b3
    b4 = b4
    b5 = b5
    c4 = c4
    e1 = e1
    f3 = f3
    Sessions <- MCSessions
    Committee <- MCCommittee
    ValidFrom <- MCValidFrom
    ValidUntil <- MCValidUntil
    Ballots <- MCBallots
    SessionOf <- MCSessionOf
    GuardianOf <- MCGuardianOf
    NonceOf <- MCNonceOf
    IssuedAt <- MCIssuedAt
    ExpiresAt <- MCExpiresAt
    Authentic <- MCAuthentic
    Approving <- MCApproving
    Confident <- MCApproving
    MaxClockSkew = 1
    MaxBallotLifetime = 2
    Times <- MCTimes
    MaxTime = 4
    Guardians = {1, 2, 3}
    Faulty = {3}
    Contents = {"c1", "c2"}
    Artifacts = {"a"}
    CarrierArtifacts = {"a", "b"}
    Networks = {"n1", "n2"}
    MinMembers = 3
    Full = 3
    MinConfidence = 1
    RuleConfidences = {0, 2}
    Confidences = {1, 3, 4}
    MaxSessionLife = 2
    MaxBallotLife = 2
    MaxSkew = 0
    VerifyTimes = {0, 1, 2, 3}
    SessionWindows <- MCSessionWindows
    BallotWindows <- MCBallotWindows
    MaxSessions = 2
    MaxRequests = 4
    MaxAlterations = 3
INVARIANTS OneBallotPerGuardian OutcomeStable BallotsAreGenuine DecisionIsEarned
