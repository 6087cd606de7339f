SPECIFICATION ServerSpec
CONSTANTS
    Sessions = {s1, s2}
    Dests = {d1}
    SubsIDs = {i1}
    TxIDs = {}
    Empty = Empty
    Nil = Nil
    ClientSends = {"CONNECT", "INVALID", "UNDECODABLE", "UNSCANNABLE", "NACK", "DISCONNECT"}
    MaxFrames = 3
    MaxSubs = 1
    AckMod = 2
    BrokerSendMsec = 2
    BrokerRecvMsec = 2
    HbHeaders <- MCHbHeaders
    LibraryClients = TRUE
    AskedModes = {"auto"}
    TransportOpts = {"", "TCP", "Websocket"}
\* The process ends.
SYMMETRY Symmetry
CHECK_DEADLOCK FALSE
INVARIANTS
    ServerTypeOK
    FarewellIsLast
    JobsKeepFloor
    GracefulReturn
