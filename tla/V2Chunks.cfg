SPECIFICATION WireSpec
CONSTANTS
    Scripts <- MCChunkScripts
    BeatCounts = {0}
    StartBuf = 24
    MaxToken = 48
    MayCut = FALSE
CHECK_DEADLOCK FALSE
INVARIANTS
    AllFramesArrive
