SPECIFICATION Spec
CONSTANTS
    Aliases = {t1, t2}
    Dests = {d1}
    MaxLines = 7
    MaxConns = 2
    MaxMsgs = 2
    None = None
SYMMETRY Symmetry
\* The user may stop, and the program may exit.
CHECK_DEADLOCK FALSE
INVARIANTS
    CurrentTxKnown
    OpenIsReachable
    TxFramesOrdered
    ReadExactUnlessRacing
