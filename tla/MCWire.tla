------------------------------- MODULE MCWire -------------------------------
(***************************************************************************)
(* Instances of a connection for TLC.                                      *)
(***************************************************************************)
EXTENDS FrameScanner

Symbols == {"a", "\\", "n", "c", ":", "LF", "CR"}

\* All texts of up to two symbols, and of three of those that escape() makes or replaces.
Texts ==
    UNION {[1 .. n -> Symbols] : n \in 0 .. 2} \cup [1 .. 3 -> {"\\", "n", "c", "LF"}]

A == <<"a">>

Bodies == {<<>>, <<"a", "NUL">>, <<"LF", "NUL">>, <<"CR">>}

\* Every kind of frame with its optional headers.
Kinds ==
    {ConnectFrame(c, A, login, hb) : c \in {"CONNECT", "STOMP"}, login \in {<<>>, A}, hb \in {<<>>, A}}
    \cup {SendFrame(A, <<>>, WithTx(tx)) : tx \in {<<>>, A}}
    \cup {SubscribeFrame(A, A, mode) : mode \in {A}}
    \cup {AckFrame(A, tx) : tx \in {<<>>, A}}
    \cup {OneHeader(c, "transaction", A) : c \in {"BEGIN", "COMMIT", "ABORT"}}
    \cup {OneHeader("UNSUBSCRIBE", "id", A), OneHeader("DISCONNECT", "receipt", A)}
    \cup {ConnectedFrame(A), ErrorFrame(A, A), OneHeader("RECEIPT", "receipt-id", A)}
    \cup UNION {MessageFrames(A, A, 1, tx, SendFrame(A, A, <<>>).headers, A) : tx \in {<<>>, A}}

Long(n) == [i \in 1 .. n |-> "a"]

\* A custom header whose key is any text.
Custom(key) == [k \in {key} |-> A]

\* A destination of any text; custom headers; every kind; bodies; frames one after the
\* other, among them a body that needs a larger buffer and one that never fits.
MCScripts ==
    {<<SendFrame(t, <<>>, <<>>)>> : t \in Texts}
    \cup {<<SendFrame(A, A, Header(k, A))>> : k \in {"Ack", "ack", "Destination", "x"}}
    \cup {<<SendFrame(A, A, Custom(k))>> : k \in {<<":">>, <<"\\", "a">>, <<"\\", "n">>}}
    \cup {<<f>> : f \in Kinds}
    \cup {<<SendFrame(A, b, <<>>), SendFrame(t, b, <<>>)>> : b \in Bodies, t \in {A, <<"\\", "n">>}}
    \cup {<<SendFrame(A, Long(8), <<>>), OneHeader("BEGIN", "transaction", A),
            OneHeader("COMMIT", "transaction", A)>>}
    \cup {<<SendFrame(A, Long(n), <<>>), OneHeader("BEGIN", "transaction", A)>> : n \in {32, 34}}

\* Two frames, as in the stream of TestFrameScanner.
MCChunkScripts == {<<OneHeader("BEGIN", "transaction", A), OneHeader("ABORT", "transaction", A)>>}

\* No heartbeats, one, or more than the scanner's largest buffer.
MCBeatCounts == {0, 1, 49}
=============================================================================
