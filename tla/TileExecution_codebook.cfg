CONSTANTS
    kMaxActBlocks = 16
    kSmmlaScratchBytes = 1024
    BlockDim = 256
    TileEnvs <- MCTileEnvs
SPECIFICATION TileSpec
CHECK_DEADLOCK FALSE
INVARIANT CodebookCpuOnlyExact
