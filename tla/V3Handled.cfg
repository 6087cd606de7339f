SPECIFICATION ReadingSpec
CONSTANTS
    Sessions = {s1, s2}
    Dests = {d1}
    SubsIDs = {i1}
    TxIDs = {}
    Empty = Empty
    Nil = Nil
    ClientSends = {"SUBSCRIBE", "SEND"}
    MaxFrames = 1
    MaxSubs = 1
    AckMod = 2
    BrokerSendMsec = 0
    BrokerRecvMsec = 0
    HbHeaders = {}
    LibraryClients = TRUE
    AskedModes = {"auto"}
\* The clients may stop sending, and the process may end.
CHECK_DEADLOCK FALSE
PROPERTIES
    FramesAreHandled
