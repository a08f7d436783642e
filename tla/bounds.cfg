\* Files up to and over every limit; up to three blocks of up to four
\* characters and every limit up to more than all of them need; every setting
\* from too short to generous, over three attempts.
CONSTANTS
    MaxPages = 3
    MaxChars = 5
    MaxChunks = 4
    ChunkSize = 3
    Overlap = 1
    MaxSize = 7
    MaxBlocks = 3
    MaxLength = 4
    MaxLimit = 18
    Settings <- SmallSettings
    Slack = 1
    Workers = {w1, w2}
    MaxGen = 3
    Horizon = 9
SYMMETRY BoundsSymmetry
SPECIFICATION BoundsSpec
INVARIANTS
    NothingTruncated
    WorkIsBounded
    ContextIsCutWhole
    ChunksAreContext
    OneWorkerAtATime
CHECK_DEADLOCK FALSE
