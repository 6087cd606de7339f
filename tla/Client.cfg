SPECIFICATION Spec
CONSTANTS
    SubsIDs = {i1}
    Modes = {"auto", "client-individual"}
    HbOpts <- MCHbOpts
    BrokerHbOpts <- MCBrokerHbOpts
    SendHeaders <- MCSendHeaders
    UpCap = 2
    DownCap = 1
    AckChCap = 1
    MaxCalls = 3
    MaxOther = 3
    Other = Other
    Empty = Empty
    Nil = Nil
\* The program may stop calling, and everybody may wait for everybody.
CHECK_DEADLOCK FALSE
INVARIANTS
    ClientTypeOK
    HeartbeatAgreement
    DropIsExplained
    UnknownOnlyWhileSubscribing

    
