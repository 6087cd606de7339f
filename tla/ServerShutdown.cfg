SPECIFICATION ServerSpec
CONSTANTS
    Sessions = {s1, s2}
    Dests = {d1}
    SubsIDs = {i1}
    TxIDs = {}
    Empty = Empty
    Nil = Nil
    ClientSends = {"SUBSCRIBE", "UNSUBSCRIBE", "SEND", "ACK", "DISCONNECT"}
    MaxFrames = 2
    MaxSubs = 2
    AckMod = 2
    BrokerSendMsec = 0
    BrokerRecvMsec = 0
    HbHeaders = {}
    LibraryClients = TRUE
    AskedModes = {"client-individual"}
    TransportOpts = {"TCP"}
\* The process ends.
CHECK_DEADLOCK FALSE
PROPERTIES
    HandlerFinishes
    ShutdownCompletes
