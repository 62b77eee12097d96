SPECIFICATION V2Spec
CONSTANTS
  Approvals = {"r1", "r3", "r5", "r6", "r7"}
  Conns = {c1, c2}
  ProofValid = {"r1", "r3", "r5", "r6"}
  Nonces = {"n1"}
  MaxConnections = 2
  FirstTime = 2
  MaxClock = 3
  MaxStarts = 2
  Bindings = {"g1", "g2"}
  Durable = {"g1", "g2"}
  Served = "g1"
  NoBinding = "unset"
  NoReport <- MCNoReport
  LeaseSeconds = {1}
  Wires = {"w"}
  Times = {2, 3}
  MaxClaims = 1
  ConfidenceMax = 2
  U64Max = 6
  LifetimeMax = 2
  ObservablesMax = 3
  Rank <- MCRank
  Pins <- MCPins
  Content <- MCContent
  Policy <- MCPolicy
  Promotion <- MCPromotion
  Manifests <- MCManifests
  IdOrder <- MCIdOrder
  SignerOf <- MCSignerOf
  NonceOf <- MCNonceOf
  StatementOf <- MCStatementOf
  CommitmentOf <- MCCommitmentOf
  NotBefore <- MCNotBefore
  ExpiresAt <- MCExpiresAt
  Network <- MCNetwork
  Identity <- MCIdentity
  Epoch <- MCEpoch
  AuthorityFrom <- MCFrom
  AuthorityUntil <- MCUntil
  MaxPending <- MCMaxPending
  MaxRetention <- MCMaxRetention
  None = None
  ClockValues = {2, 4}
  SessionNonce = "n1"
  Reports <- MCReports
  Tampered <- MCTampered
SYMMETRY ConnSymmetry
INVARIANTS ConsumedWasVerified AcceptedOnce IntakeIsOrderly ReportIsOne
CHECK_DEADLOCK FALSE
