SPECIFICATION WorkSpec
CONSTANTS
    a1 = a1
    a2 = a2
    g1 = g1
    net = net
    Approvals <- MCApprovals
    IdOrder <- MCIdOrder
    SignerOf <- MCSignerOf
    NonceOf <- MCNonceOf
    StatementOf <- MCStatementOf
    CommitmentOf <- MCCommitmentOf
    NotBefore <- MCNotBefore
    ExpiresAt <- MCExpiresAt
    Bindings <- MCBindings
    NoBinding = NoBinding
    Network <- MCNetwork
    Identity <- MCIdentity
    Epoch <- MCEpoch
    AuthorityFrom <- MCEpoch
    AuthorityUntil <- MCMaxRetention
    Durable <- MCBindings
    MaxPending <- MCMaxPending
    MaxRetention <- MCMaxRetention
    LeaseSeconds = {2}
    Wires = {x}
    Times <- MCTimes
    MaxClaims = 6
    Callers = {w1, w2}
    MaxConcurrency = 1
    AnalyzerTimeout = 1
    MaxTime = 4
    MaxFailures = 1
    Hints = {"h1", "h2"}
    Envelopes <- MCEnvelopes
    ForeignResults <- MCForeignResults
    EscalationConfidence = 70
    MinConfidence = 85
    FullConfidence = 100
    MaxConfidenceBytes = 2
    MaxContentBytes = 3
INVARIANTS
    CompletedWithinLease
