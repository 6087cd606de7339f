SPECIFICATION Spec
CONSTANTS
    Sessions = {s1, s2}
    Dests = {d1, d2}
    SubsIDs = {i1, i2}
    TxIDs = {}
    Empty = Empty
    Nil = Nil
    ClientSends = {"SUBSCRIBE", "UNSUBSCRIBE", "SEND", "ACK"}
    MaxFrames = 2
    MaxSubs = 4
    AckMod = 2
    BrokerSendMsec = 0
    BrokerRecvMsec = 0
    HbHeaders = {}
    LibraryClients = FALSE
    AskedModes = {"auto"}
SYMMETRY Symmetry
\* The clients may stop sending, and the process may end.
CHECK_DEADLOCK FALSE
INVARIANTS
    TypeOK
    AckSequence
    PublishOrder
    PendingAreWritten
    DeliveredToItsDest
    LockOfOneSender
PROPERTIES
    ImplementsTopicStream
