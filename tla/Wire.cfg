SPECIFICATION WireSpec
CONSTANTS
    Scripts <- MCScripts
    BeatCounts <- MCBeatCounts
    StartBuf = 24
    MaxToken = 48
    MayCut = TRUE
\* The scanner stops with the stream, or when nothing receives from its channel.
CHECK_DEADLOCK FALSE
INVARIANTS
    WireTypeOK
    TokenIsFrame
    OwnFramesWritten
    DecodedAsSent
    ArrivedIsEmitted
    StopsOnlyMidHead
    TooLongNeeds
    AckIdExact
PROPERTIES
    ImplementsScanner
