SPECIFICATION FilesSpec
CONSTANTS
    None = None
    Link = Link
    Blocks = {x, y}
    Limit <- MCLimit
    MaxSize = 2
    MaxInodes = 2
    MaxChanges = 2
    RootDir = RootDir
    Dir = Dir
    F1 = F1
    F2 = F2
    NoEntry = NoEntry
    A = A
    B = B
    Root = RootDir
    Directories <- MCDirectories
    Files <- MCFiles
    Names <- MCNames
    NameRank <- MCNameRank
    Chunks <- MCChunks
    NoInode = NoEntry
    Trees <- MCTrees
    MaxModelFiles = 2
    MaxModelDepth = 1
    MaxTreeEdits = 2
    Writers = {w1, w2}
    Mine = Mine
    NoFile = NoFile
    Length = 1
    MaxOwnerSteps = 1
    Payloads = {"p", "q"}
    Expected = "p"
    Challenges = {"c", "d"}
    Artifacts = {"x", "y"}
    EarliestObservation = 1
    Boundaries = {b1, b2}
    NoSocket = NoSocket
    NoChallenge = NoChallenge
    Observations <- MCObservations
    MaxRedeploys = 1
    MaxAttestations = 2
SYMMETRY FilesSymmetry
INVARIANTS ReturnedIsChecked ManifestIsSound PublishedIsDurable 
PROPERTIES NeverReplaced
CHECK_DEADLOCK FALSE
