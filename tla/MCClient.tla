------------------------------ MODULE MCClient ------------------------------
(***************************************************************************)
(* An instance of a client and its session for TLC.                        *)
(***************************************************************************)
EXTENDS ClientBroker

\* The client is faster than the broker one way and slower the other.
MCHbOpts == {<<1, 3>>}

MCBrokerHbOpts == {<<2, 2>>}

\* A SEND with no headers of the caller's, with a subscription header that names nothing
\* the client knows, with an empty ack header and with another ack id.
MCSendHeaders == {<<Nil, Nil>>, <<Other, Nil>>, <<Nil, Empty>>, <<Nil, Other>>}
=============================================================================
