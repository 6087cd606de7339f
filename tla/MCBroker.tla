------------------------------ MODULE MCBroker ------------------------------
(***************************************************************************)
(* Instances of the broker for TLC.                                        *)
(***************************************************************************)
EXTENDS BrokerStreams, TLC

\* Sessions, destinations, subscription IDs and transaction IDs are interchangeable.
Symmetry ==
    Permutations(Sessions) \cup Permutations(Dests)
        \cup Permutations(SubsIDs) \cup Permutations(TxIDs)

\* Five frames of both clients together: BEGIN, SEND and COMMIT or ABORT of one, SUBSCRIBE
\* and SEND of the other, or fewer of the one and more of the other.
MCFiveFrames == \A s, t \in Sessions : s # t => arg[s].no + arg[t].no =< 5

\* Heart-beat headers below, at and above the broker's own intervals, and 0.
MCHbHeaders == {<<0, 1>>, <<1, 0>>, <<1, 3>>, <<3, 1>>}
=============================================================================
