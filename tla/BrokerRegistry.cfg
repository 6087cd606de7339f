SPECIFICATION Spec
CONSTANTS
    Sessions = {s1, s2}
    Dests = {d1, d2}
    SubsIDs = {i1, i2, i3}
    TxIDs = {}
    Empty = Empty
    Nil = Nil
    ClientSends = {"SUBSCRIBE", "UNSUBSCRIBE", "DISCONNECT"}
    MaxFrames = 3
    MaxSubs = 3
    AckMod = 2
    BrokerSendMsec = 0
    BrokerRecvMsec = 0
    HbHeaders = {}
    LibraryClients = TRUE
    AskedModes = {"auto"}
SYMMETRY Symmetry
\* The clients may stop sending, and the process may end.
CHECK_DEADLOCK FALSE
INVARIANTS
    RoutableOwned
    NoNilSet
    SoleSubscriberIsSafe
