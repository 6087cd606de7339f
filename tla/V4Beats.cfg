SPECIFICATION Spec
CONSTANTS
    Sessions = {s1}
    Dests = {d1}
    SubsIDs = {i1}
    TxIDs = {}
    Empty = Empty
    Nil = Nil
    ClientSends = {"CONNECT"}
    MaxFrames = 2
    MaxSubs = 0
    AckMod = 2
    BrokerSendMsec = 2
    BrokerRecvMsec = 2
    HbHeaders <- MCHbHeaders
    LibraryClients = TRUE
    AskedModes = {"auto"}
\* The clients may stop sending.
CHECK_DEADLOCK FALSE
INVARIANTS
    HeartbeatsSpaced
