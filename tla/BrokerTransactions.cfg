SPECIFICATION Spec
CONSTANTS
    Sessions = {s1, s2}
    Dests = {d1}
    SubsIDs = {i1}
    TxIDs = {t1}
    Empty = Empty
    Nil = Nil
    ClientSends = {"SUBSCRIBE", "SEND", "BEGIN", "COMMIT", "ABORT"}
    MaxFrames = 3
    MaxSubs = 1
    AckMod = 2
    BrokerSendMsec = 0
    BrokerRecvMsec = 0
    HbHeaders = {}
    LibraryClients = TRUE
    AskedModes = {"auto"}
SYMMETRY Symmetry
CONSTRAINT MCFiveFrames
\* The clients may stop sending, and the process may end.
CHECK_DEADLOCK FALSE
INVARIANTS
    SenderOrder
    TxSilentUntilCommit
PROPERTIES
    TxBufferSteps
