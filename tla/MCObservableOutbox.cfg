SPECIFICATION OutboxSpec
CONSTANTS
    a1 = a1
    a2 = a2
    a3 = a3
    a4 = a4
    a5 = a5
    g1 = g1
    g2 = g2
    g3 = g3
    net = net
    Approvals <- MCApprovals
    IdOrder <- MCIdOrder
    SignerOf <- MCSignerOf
    NonceOf <- MCNonceOf
    StatementOf <- MCStatementOf
    CommitmentOf <- MCCommitmentOf
    NotBefore <- MCNotBefore
    ExpiresAt <- MCExpiresAt
    Bindings <- MCBindings
    NoBinding = NoBinding
    Network <- MCNetwork
    Identity <- MCIdentity
    Epoch <- MCEpoch
    AuthorityFrom <- MCAuthorityFrom
    AuthorityUntil <- MCAuthorityUntil
    Durable <- MCDurable
    MaxPending <- MCMaxPending
    MaxRetention <- MCMaxRetention
    LeaseSeconds = {2}
    Wires = {x, y}
    Times <- MCTimes
    MaxTime = 4
    MaxClaims = 3
SYMMETRY MCSymmetry
INVARIANTS LastLeaseWins NoApprovalLost AnalysedUnderOneApproval EpochsFollowTime
