------------------------------- MODULE Codec -------------------------------
(***************************************************************************)
(* serializer.go, frame.go and the ack ids of subscribe.go: frames and     *)
(* their form on the wire.  A text is a sequence of symbols: the           *)
(* characters that the code tells apart ("LF", "CR", "NUL", ":", "\\",     *)
(* "n", "c"), others like "a", and commands, names of headers and numbers, *)
(* which are one symbol each.  The headers map texts to texts.             *)
(***************************************************************************)
EXTENDS Integers, SequencesExt

\* The key that a name is, and those of a set of names.
Key(name) == <<name>>

Keys(names) == {Key(name) : name \in names}

\* sort.Strings puts these keys in this order.
KeyOrder ==
    LET upper == <<"Ack", "Destination">>
        lower == <<"accept-version", "ack", "content-length", "content-type", "destination",
                   "heart-beat", "host", "id", "login", "message", "message-id", "passcode",
                   "receipt", "receipt-id", "server", "session", "subscription",
                   "transaction", "version", "x">>
        keyed(names) == [k \in DOMAIN names |-> Key(names[k])]
    IN <<<<":">>>> \o keyed(upper) \o <<<<"\\", "a">>, <<"\\", "n">>>> \o keyed(lower)

\* strings.ToLower
Lower(t) ==
    LET lower(c) == CASE c = "Ack" -> "ack" [] c = "Destination" -> "destination" [] OTHER -> c
    IN [i \in DOMAIN t |-> lower(t[i])]

\* A map literal with one key, and f filled up from g: TLC's :> and @@, which the provers
\* do not know.
Header(name, text) == [k \in {Key(name)} |-> text]

f ++ g == [k \in DOMAIN f \cup DOMAIN g |-> IF k \in DOMAIN f THEN f[k] ELSE g[k]]

NewFrame(cmd, hdrs, body) == [command |-> cmd, headers |-> hdrs, body |-> body]

\* strconv.Itoa and Atoi of the numbers that occur.
MaxNumber == 50

Itoa(n) == <<ToString(n)>>

IsNumber(t) == \E n \in 0 .. MaxNumber : t = Itoa(n)

Atoi(t) == CHOOSE n \in 0 .. MaxNumber : t = Itoa(n)

----------------------------------------------------------------------------
\* strings.ReplaceAll of one symbol, and of two symbols by one.
Replace(t, c, by) ==
    FlattenSeq([i \in DOMAIN t |-> IF t[i] = c THEN by ELSE <<t[i]>>])

ReplacePair(t, c, d, by) ==
    LET from[i \in 1 .. Len(t) + 2] ==
            IF i > Len(t) THEN <<>>
            ELSE IF i < Len(t) /\ t[i] = c /\ t[i + 1] = d THEN <<by>> \o from[i + 2]
            ELSE <<t[i]>> \o from[i + 1]
    IN from[1]

\* strings.Split
Split(t, c) ==
    LET at == SelectSeq([i \in DOMAIN t |-> i], LAMBDA i : t[i] = c)
        cut == <<0>> \o at \o <<Len(t) + 1>>
    IN [k \in 1 .. Len(at) + 1 |-> SubSeq(t, cut[k] + 1, cut[k + 1] - 1)]

Escape(t) ==
    Replace(Replace(Replace(t, "\\", <<"\\", "\\">>), "LF", <<"\\", "n">>), ":", <<"\\", "c">>)

Unescape(t) ==
    ReplacePair(ReplacePair(ReplacePair(t, "\\", "\\", "\\"), "\\", "n", "LF"), "\\", "c", ":")

Serialize(f) ==
    LET keys == SelectSeq(KeyOrder, LAMBDA k : k \in DOMAIN f.headers)
        line(k) == Escape(k) \o <<":">> \o Escape(f.headers[k]) \o <<"LF">>
    IN <<f.command, "LF">> \o FlattenSeq([i \in DOMAIN keys |-> line(keys[i])])
        \o <<"LF">> \o f.body \o <<"NUL">>

\* What deserialize() ends with when it does not fill a frame.
DecodeError == NewFrame("error", <<>>, <<>>)
DecodePanic == NewFrame("panic", <<>>, <<>>)

(***************************************************************************)
(* deserialize(): the frame is what is before the NUL that only line feeds *)
(* follow.  Its carriage returns are removed, and the body is then cut     *)
(* with the length the frame had before that: out of range.                *)
(***************************************************************************)
Deserialize[buf \in Seq(STRING)] ==
    LET end == SelectLastInSeq(buf, LAMBDA c : c # "LF")
        s == SelectSeq(SubSeq(buf, 1, end - 1), LAMBDA c : c # "CR")
        blank == SelectInSeq([i \in 1 .. Len(s) - 1 |-> <<s[i], s[i + 1]>>],
                             LAMBDA p : p = <<"LF", "LF">>)
        lines == Split(SubSeq(s, 1, blank - 1), "LF")
        hdrs == [k \in 1 .. Len(lines) - 1 |-> Split(lines[k + 1], ":")]
        keys == {Unescape(hdrs[k][1]) : k \in DOMAIN hdrs}
        last(key) == SelectLastInSeq(hdrs, LAMBDA h : Unescape(h[1]) = key)
    IN IF end = 0 \/ blank = 0 THEN DecodeError
       ELSE IF buf[end] # "NUL" \/ \E k \in DOMAIN hdrs : Len(hdrs[k]) # 2 THEN DecodeError
       ELSE IF Len(s) # end - 1 THEN DecodePanic
       ELSE NewFrame(IF lines[1] = <<>> THEN "" ELSE lines[1][1],
                     [key \in keys |-> Unescape(hdrs[last(key)][2])],
                     SubSeq(s, blank + 2, Len(s)))

----------------------------------------------------------------------------
\* validationMap, serverCmdSet and clientCmdSet.
ServerCmds == {"CONNECTED", "MESSAGE", "RECEIPT", "ERROR"}

ClientCmds ==
    {"CONNECT", "STOMP", "SEND", "SUBSCRIBE", "UNSUBSCRIBE", "ACK", "NACK", "BEGIN",
     "COMMIT", "ABORT", "DISCONNECT"}

Required(cmd) ==
    CASE cmd \in {"CONNECT", "STOMP"} -> {"host", "accept-version"}
      [] cmd = "CONNECTED" -> {"version"}
      [] cmd = "SEND" -> {"destination"}
      [] cmd = "SUBSCRIBE" -> {"destination", "id"}
      [] cmd \in {"UNSUBSCRIBE", "ACK", "NACK"} -> {"id"}
      [] cmd \in {"BEGIN", "COMMIT", "ABORT"} -> {"transaction"}
      [] cmd = "MESSAGE" -> {"destination", "message-id", "subscription"}
      [] cmd = "RECEIPT" -> {"receipt-id"}
      [] OTHER -> {}

\* Mutant: the ack mode of a subscription is forgotten.
OptionalNoAck(cmd) ==
    CASE cmd \in {"CONNECT", "STOMP"} -> {"login", "passcode", "heart-beat"}
      [] cmd = "CONNECTED" -> {"session", "server", "heart-beat"}
      [] cmd \in {"SEND", "ACK", "NACK"} -> {"transaction"}
      [] cmd = "DISCONNECT" -> {"receipt"}
      [] OTHER -> {}

Optional(cmd) ==
    CASE cmd \in {"CONNECT", "STOMP"} -> {"login", "passcode", "heart-beat"}
      [] cmd = "CONNECTED" -> {"session", "server", "heart-beat"}
      [] cmd \in {"SEND", "ACK", "NACK"} -> {"transaction"}
      [] cmd \in {"SUBSCRIBE", "MESSAGE"} -> {"ack"}
      [] cmd = "DISCONNECT" -> {"receipt"}
      [] cmd = "ERROR" -> {"message"}
      [] OTHER -> {}

CustomHeadersAllowed(cmd) == cmd \in {"MESSAGE", "ERROR", "SEND"}

\* checkValidEscapes(): every "\" is paired with what may follow it.
CheckValidEscapes(t) ==
    LET ok[i \in 1 .. Len(t) + 2] ==
            IF i > Len(t) THEN TRUE
            ELSE IF t[i] # "\\" THEN ok[i + 1]
            ELSE i < Len(t) /\ t[i + 1] \in {"n", "r", "c", "\\"} /\ ok[i + 2]
    IN ok[1]

ValidateHeaders(f) ==
    /\ \A k \in DOMAIN f.headers :
          /\ k \in Keys(Required(f.command) \cup Optional(f.command))
                \/ CustomHeadersAllowed(f.command)
          /\ CheckValidEscapes(k) /\ CheckValidEscapes(f.headers[k])
    /\ Keys(Required(f.command)) \subseteq DOMAIN f.headers

\* Validate(ServerFrame) and Validate(ClientFrame)
Validate(f, source) ==
    /\ f.command \in (IF source = "server" THEN ServerCmds ELSE ClientCmds)
    /\ ValidateHeaders(f)

----------------------------------------------------------------------------
\* The frames of the client (client.go).
ConnectFrame(cmd, host, login, hb) ==
    NewFrame(cmd,
        Header("accept-version", Itoa(1)) ++ Header("host", host)
            ++ (IF login = <<>> THEN <<>> ELSE Header("login", login) ++ Header("passcode", login))
            ++ (IF hb = <<>> THEN <<>> ELSE Header("heart-beat", hb)),
        <<>>)

\* Send(): the custom headers replace the ones of the method.
SendFrame(dest, body, custom) ==
    NewFrame("SEND",
        custom ++ Header("destination", dest) ++ Header("content-type", <<"a">>)
            ++ Header("content-length", Itoa(Len(body))),
        body)

SubscribeFrame(dest, id, mode) ==
    NewFrame("SUBSCRIBE", Header("id", id) ++ Header("destination", dest) ++ Header("ack", mode), <<>>)

WithTx(txID) == IF txID = <<>> THEN <<>> ELSE Header("transaction", txID)

AckFrame(id, txID) == NewFrame("ACK", Header("id", id) ++ WithTx(txID), <<>>)

\* BEGIN, COMMIT, ABORT, UNSUBSCRIBE, DISCONNECT and RECEIPT have one header.
OneHeader(cmd, key, val) == NewFrame(cmd, Header(key, val), <<>>)

\* The frames of the broker (broker.go).
ConnectedFrame(hb) ==
    NewFrame("CONNECTED",
        Header("version", Itoa(1)) ++ Header("session", <<"a">>) ++ Header("server", <<"a">>)
            ++ Header("heart-beat", hb),
        <<>>)

ErrorFrame(msg, body) ==
    NewFrame("ERROR",
        Header("message", msg) ++ Header("content-type", <<"a">>)
            ++ Header("content-length", Itoa(Len(body))),
        body)

FmtAckNum(dest, subsID, ackNum) == dest \o <<":">> \o subsID \o <<":">> \o Itoa(ackNum)

\* scanAckNum(): the parts, or how it fails.
ScanAckNum(t) ==
    LET parts == Split(t, ":") IN
    IF Len(parts) < 3 THEN <<"panic">>
    ELSE IF ~IsNumber(parts[3]) THEN <<"error">>
    ELSE <<parts[1], parts[2], Atoi(parts[3])>>

\* Mutant: the keys of the SEND are not turned to lower case.
MessageFramesAsIs(dest, subsID, ackNum, txID, headers, body) ==
    {NewFrame("MESSAGE",
        headers ++ Header("destination", dest) ++ Header("message-id", <<"a">>)
            ++ Header("subscription", subsID) ++ Header("ack", FmtAckNum(dest, subsID, ackNum))
            ++ WithTx(txID),
        body)}

\* sendMessage(): the headers of the SEND, in lower case and in any order, over those
\* of the MESSAGE.
MessageFrames(dest, subsID, ackNum, txID, headers, body) ==
    LET lower == {Lower(k) : k \in DOMAIN headers}
        orders == {o \in [lower -> DOMAIN headers] : \A l \in lower : Lower(o[l]) = l}
    IN {NewFrame("MESSAGE",
            [l \in lower |-> headers[o[l]]]
                ++ Header("destination", dest) ++ Header("message-id", <<"a">>)
                ++ Header("subscription", subsID) ++ Header("ack", FmtAckNum(dest, subsID, ackNum))
                ++ WithTx(txID),
            body) : o \in orders}
=============================================================================
