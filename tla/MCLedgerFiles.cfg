SPECIFICATION LedgersSpec
CONSTANTS
    k0 = k0
    k1 = k1
    k2 = k2
    m0 = m0
    m1 = m1
    f1 = f1
    m2 = m2
    m3 = m3
    Keys <- MCKeys
    Sources <- MCSources
    SourceEpoch <- MCSourceEpoch
    Bootstrap = m0
    GenesisKey = k0
    Nonces = {"a", "b", "c", "d", "e", "f", "g"}
    Transitions <- MCTransitions
    Rotations <- MCRotations
    MaxWindow = 3
    Times <- MCTimes
    MaxTime = 3
    Procs = {p1, p2}
    y1 = y1
    y2 = y2
    NoLedger = NoLedger
    Processes <- MCProcesses
    Approvals <- MCApprovals
    Generations <- MCGenerations
    IdentityOf <- MCIdentityOf
    KindsOf <- MCKindsOf
    Absent = NoLedger
    OlderLedgers <- MCOlderLedgers
SYMMETRY ProcSymmetry
INVARIANTS LedgerValidates RetiredKeysStayRetired SessionsFollowChain SchemaIsSound
PROPERTIES RecordsSurvive UntouchedUntilAgreed
