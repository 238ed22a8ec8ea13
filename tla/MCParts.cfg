CONSTANTS
    kMaxActBlocks = 16
    kSmmlaScratchBytes = 1024
    BlockDim = 256
    TileEnvs <- MCTileEnvs
    DraftTokens = {1, 2}
    GramHash <- MCGramHash
    chain_cap_ = 4
    min_match_ = 3
    MaxStream = 8
    SEGS = 2
    BlockElems = 1
    margin_ = 1
    Problems <- MCProblems
    Processes = {p1, p2}
    Models = {"A", "A2", "B"}
    Key <- MCKey
    Payload <- MCPayload
    OddRows = {"B"}
    None = None
    MaxInits = 3
    Configs <- MCConfigs
    MaxPasses = 2
SPECIFICATION PartsSpec
INVARIANTS
    TilesExact
    PathsBitwise
    FormatsUnpack
    DraftIsLongestMatch
    CertIsArgmax
    ServesWholeShadows
    AcceptedIsWhole
    WellFormed
    BuildSucceeds
    RaceFree
    Wavefront
    PassIsRight
CHECK_DEADLOCK FALSE
