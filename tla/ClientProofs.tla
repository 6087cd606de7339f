---------------------------- MODULE ClientProofs ----------------------------
(***************************************************************************)
(* Proofs about a ClientHandler and its session, for any number of calls,  *)
(* subscriptions and messages and any capacity of the connection.          *)
(***************************************************************************)
EXTENDS ClientBroker, SequenceTheorems, TLAPS

Hb == Nat \X Nat

UpFrame ==
    [cmd : {"SUBSCRIBE", "UNSUBSCRIBE", "SENDIN"}, id : SubsIDs, hdr : {Nil}]
    \cup [cmd : {"SEND", "SENDTX"}, id : SubsIDs, hdr : SendHeaders]
    \cup [cmd : {"ACK"}, id : Text, hdr : {Nil}]
    \cup [cmd : {"CONNECT", "BEGIN", "COMMIT", "ABORT", "DISCONNECT"}, id : {Nil},
          hdr : Hb \cup {Nil}]

MsgFrame == [cmd : {"MESSAGE"}, id : SubsIDs, hdr : Text \X Text]

DownFrame ==
    MsgFrame
    \cup [cmd : {"CONNECTED"}, id : {Nil}, hdr : Hb]
    \cup [cmd : {"RECEIPT", "ERROR"}, id : {Nil}, hdr : {Nil}]

\* ClientTypeOK with the frames, one part for each that takes steps.
LinkTypeOK ==
    /\ up \in Seq(UpFrame) /\ down \in Seq(DownFrame)
    /\ Len(up) <= UpCap /\ Len(down) <= DownCap

CallTypeOK ==
    /\ subsMap \in [SubsIDs -> Modes \cup {Nil}]
    /\ storing \in SubsIDs \cup {Nil}
    /\ tx \in {"none", "open", "closed"}

ReaderTypeOK ==
    /\ held \in MsgFrame \cup {Nil} /\ odd \in BOOLEAN /\ ackCh \in 0 .. AckChCap
    /\ rd \in {"off", "idle", "lookup", "ack", "chan", "bye", "done"}
    /\ (held # Nil) <=> rd \in {"lookup", "ack", "chan"}
    /\ cHb \in Hb /\ sessionID \in BOOLEAN

SessTypeOK ==
    /\ bpc \in {"idle", "write", "send", "hung", "ended"}
    /\ bpc = "send" => NextOut(TRUE)
    /\ after \in {"idle", "close", "end"}
    /\ bout \in Seq(DownFrame)
    /\ routed \subseteq SubsIDs /\ displaced \subseteq SubsIDs /\ pubs \subseteq SubsIDs
    /\ btx = Nil \/ btx \in Seq(SubsIDs \X SendHeaders)
    /\ bHb \in Hb

EndsTypeOK == LinkTypeOK /\ CallTypeOK /\ ReaderTypeOK /\ SessTypeOK

----------------------------------------------------------------------------
\* Known to the client: Subscribe() has stored i, or is about to.
Known(i) == subsMap[i] # Nil \/ storing = i

\* The broker knows no other subscription, and no MESSAGE is written for another one.
KnownOK ==
    /\ \A f \in Range(up) : f.cmd = "SUBSCRIBE" => Known(f.id)
    /\ \A i \in routed \cup pubs : Known(i)
    /\ \A f \in Range(down) : f.cmd = "MESSAGE" => Known(f.id)
    /\ bpc = "send" => Known(Head(bout).id)
    /\ held # Nil => Known(held.id)

NoConnected == \A f \in Range(down) \cup Range(bout) : f.cmd # "CONNECTED"

\* CONNECT is the first frame of all.
ConnectOK ==
    /\ \A k \in 1 .. Len(up) : up[k].cmd = "CONNECT" =>
          /\ k = 1 /\ up[k].hdr = IF cHb = <<0, 0>> THEN Nil ELSE cHb
          /\ ~sessionID /\ ~bJob /\ NoConnected
    /\ rd = "off" => up = <<>> /\ ~sessionID /\ ~bJob /\ NoConnected

\* There is one CONNECTED for it.
OnceOK ==
    /\ \A j, k \in 1 .. Len(down) :
          down[j].cmd = "CONNECTED" /\ down[k].cmd = "CONNECTED" => j = k
    /\ \A f \in Range(bout) : f.cmd = "CONNECTED" =>
          Len(bout) = 1 /\ \A g \in Range(down) : g.cmd # "CONNECTED"

\* What the client makes of CONNECTED agrees with what the session made of CONNECT.
AnswerOK ==
    \A f \in Range(down) \cup Range(bout) : f.cmd = "CONNECTED" =>
        /\ ~sessionID /\ f.hdr = bHb
        /\ \/ cHb = <<0, 0>> /\ ~bJob
           \/ /\ Negotiate(cHb[1], bHb[2]) = bHb[2]
              /\ Negotiate(cHb[2], bHb[1]) = bHb[1]

HandshakeOK == ConnectOK /\ OnceOK /\ AnswerOK

\* BEGIN comes before the other frames of the transaction, COMMIT or ABORT after them.
TxCmds == {"SENDTX", "COMMIT", "ABORT"}

TxOK ==
    /\ tx = "none" => btx = Nil /\ \A f \in Range(up) : f.cmd \notin TxCmds \cup {"BEGIN"}
    /\ \A k \in 1 .. Len(up) : up[k].cmd = "BEGIN" =>
          btx = Nil /\ \A j \in 1 .. k - 1 : up[j].cmd \notin TxCmds \cup {"BEGIN"}
    /\ \A k \in 1 .. Len(up) : up[k].cmd \in TxCmds =>
          btx # Nil \/ \E j \in 1 .. k - 1 : up[j].cmd = "BEGIN"
    /\ \A k \in 1 .. Len(up) : up[k].cmd \in {"COMMIT", "ABORT"} =>
          tx = "closed" /\ \A j \in k + 1 .. Len(up) : up[j].cmd \notin TxCmds \cup {"BEGIN"}
    /\ tx = "open" /\ bconn = "open" => btx # Nil \/ \E f \in Range(up) : f.cmd = "BEGIN"

\* Once there is a reason to end, nothing is taken any more.
EndsOK ==
    /\ why # "" =>
          /\ bpc = "ended" \/ (bpc = "write" /\ after = "end")
          /\ \A f \in Range(bout) : f.cmd = "ERROR"
    /\ \A f \in Range(down) \cup Range(bout) : f.cmd = "ERROR" => why = "login"
    /\ rd = "bye" => why = "login"

\* Nothing has happened that takes a subscription from the registry or changes an ack id.
Ordinary == left = {} /\ ~byeSent /\ displaced = {} /\ ~odd

\* Then the broker has every subscription that an ACK may be sent for.
CauseOK ==
    /\ \A f \in Range(up) : f.cmd = "UNSUBSCRIBE" => left # {}
    /\ \A f \in Range(up) : f.cmd = "DISCONNECT" => byeSent \/ why = "login"
    /\ Ordinary =>
          /\ pubs \subseteq routed
          /\ bpc = "send" => Head(bout).id \in routed
          /\ \A f \in Range(down) : f.cmd = "MESSAGE" => f.id \in routed
          /\ \A f \in Range(up) : f.cmd = "ACK" => f.id \in routed
          /\ held # Nil => held.id \in routed

DropOK == EndsOK /\ CauseOK /\ DropIsExplained

HandshakeInv == HandshakeOK /\ HeartbeatAgreement

CInv == EndsTypeOK /\ KnownOK /\ HandshakeInv /\ TxOK /\ DropOK

----------------------------------------------------------------------------
\* Frames that are added to a direction of the connection, taken from it, or lost.
LEMMA AppendRange ==
    ASSUME NEW S, NEW s \in Seq(S), NEW e \in S
    PROVE  /\ Append(s, e) \in Seq(S) /\ Len(Append(s, e)) = Len(s) + 1 /\ Len(s) \in Nat
           /\ \A i \in 1 .. Len(s) : Append(s, e)[i] = s[i]
           /\ Append(s, e)[Len(s) + 1] = e
           /\ Range(Append(s, e)) = Range(s) \cup {e}
<1>1. /\ Append(s, e) \in Seq(S) /\ Len(Append(s, e)) = Len(s) + 1 /\ Len(s) \in Nat
      /\ \A i \in 1 .. Len(s) : Append(s, e)[i] = s[i]
      /\ Append(s, e)[Len(s) + 1] = e
    BY AppendProperties, LenProperties
<1>2. PICK r \in Seq(S) : r = Append(s, e)
    BY <1>1
<1>3. Range(r) = {r[i] : i \in 1 .. Len(r)} /\ Range(s) = {s[i] : i \in 1 .. Len(s)}
    BY RangeEquality
<1>4. 1 .. Len(r) = 1 .. Len(s) \cup {Len(s) + 1}
    BY <1>1, <1>2
<1>5. Range(r) = Range(s) \cup {e}
    BY <1>1, <1>2, <1>3, <1>4
<1> QED
    BY <1>1, <1>2, <1>5

LEMMA TailRange ==
    ASSUME NEW S, NEW s \in Seq(S), s # <<>>
    PROVE  /\ Tail(s) \in Seq(S) /\ Len(Tail(s)) = Len(s) - 1 /\ Len(s) \in Nat \ {0}
           /\ \A i \in 1 .. Len(s) - 1 : Tail(s)[i] = s[i + 1]
           /\ Head(s) = s[1] /\ Head(s) \in S /\ Head(s) \in Range(s)
           /\ Range(Tail(s)) \subseteq Range(s)
<1>1. /\ Tail(s) \in Seq(S) /\ Len(Tail(s)) = Len(s) - 1 /\ Len(s) \in Nat \ {0}
      /\ \A i \in 1 .. Len(Tail(s)) : Tail(s)[i] = s[i + 1]
      /\ Head(s) \in S
    BY HeadTailProperties, LenProperties, EmptySeq
<1>2. PICK r \in Seq(S) : r = Tail(s)
    BY <1>1
<1>3. Range(r) = {r[i] : i \in 1 .. Len(r)} /\ Range(s) = {s[i] : i \in 1 .. Len(s)}
    BY RangeEquality
<1>4. Head(s) = s[1]
    BY <1>1
<1>5. Head(s) \in Range(s)
    BY <1>1, <1>3, <1>4
<1>6. \A i \in 1 .. Len(r) : r[i] = s[i + 1] /\ i + 1 \in 1 .. Len(s)
    BY <1>1, <1>2
<1>7. Range(r) \subseteq Range(s)
    BY <1>3, <1>6
<1> QED
    BY <1>1, <1>2, <1>4, <1>5, <1>7

LEMMA FrontRange ==
    ASSUME NEW S, NEW s \in Seq(S), NEW k \in 0 .. Len(s)
    PROVE  /\ SubSeq(s, 1, k) \in Seq(S) /\ Len(SubSeq(s, 1, k)) = k /\ Len(s) \in Nat
           /\ \A i \in 1 .. k : SubSeq(s, 1, k)[i] = s[i]
           /\ Range(SubSeq(s, 1, k)) \subseteq Range(s)
<1>1. Len(s) \in Nat
    BY LenProperties
<1>2. k \in Int /\ 1 \in Int /\ \A i \in 1 .. k : s[i] \in S
    BY <1>1, ElementOfSeq
<1>3. /\ SubSeq(s, 1, k) \in Seq(S)
      /\ Len(SubSeq(s, 1, k)) = IF 1 <= k THEN k - 1 + 1 ELSE 0
      /\ \A i \in 1 .. k - 1 + 1 : SubSeq(s, 1, k)[i] = s[1 + i - 1]
    BY <1>2, SubSeqProperties
<1>4. PICK r \in Seq(S) : r = SubSeq(s, 1, k)
    BY <1>3
<1>5. Len(r) = k /\ \A i \in 1 .. k : r[i] = s[i] /\ i \in 1 .. Len(s)
    BY <1>1, <1>2, <1>3, <1>4
<1>6. Range(r) = {r[i] : i \in 1 .. Len(r)} /\ Range(s) = {s[i] : i \in 1 .. Len(s)}
    BY RangeEquality
<1>7. Range(r) \subseteq Range(s)
    BY <1>5, <1>6
<1> QED
    BY <1>1, <1>4, <1>5, <1>7

\* The elements of a sequence.
LEMMA InRange ==
    ASSUME NEW S, NEW s \in Seq(S)
    PROVE  /\ \A i \in 1 .. Len(s) : s[i] \in Range(s)
           /\ \A f \in Range(s) : f \in S /\ \E i \in 1 .. Len(s) : f = s[i]
<1>1. Range(s) = {s[i] : i \in 1 .. Len(s)}
    BY RangeEquality
<1>2. \A i \in 1 .. Len(s) : s[i] \in S
    BY ElementOfSeq
<1> QED
    BY <1>1, <1>2

----------------------------------------------------------------------------
\* Where the frames to the broker come from.
Origin(f) ==
    \/ /\ f.cmd = "CONNECT" /\ rd = "off" /\ tx' = tx
       /\ f.hdr = (IF cHb = <<0, 0>> THEN Nil ELSE cHb)
    \/ f.cmd \in {"SEND", "SENDIN"} /\ tx' = tx
    \/ f.cmd = "SUBSCRIBE" /\ storing' = f.id /\ tx' = tx
    \/ f.cmd = "UNSUBSCRIBE" /\ left' # {} /\ tx' = tx
    \/ f.cmd = "BEGIN" /\ tx = "none" /\ tx' = "open"
    \/ f.cmd = "SENDTX" /\ tx = "open" /\ tx' = "open"
    \/ f.cmd \in {"COMMIT", "ABORT"} /\ tx = "open" /\ tx' = "closed"
    \/ f.cmd = "DISCONNECT" /\ (byeSent' \/ rd = "bye") /\ tx' = tx
    \/ f.cmd = "ACK" /\ rd = "ack" /\ (odd' \/ f.id = held.id) /\ tx' = tx

Adds(f) == up' = Append(up, f) /\ Len(up) < UpCap /\ bconn = "open"

UserStep == (UserCall \/ StoreSubscription \/ ReaderStep \/ MapFault) /\ UNCHANGED <<sessVars, otherVars>>

BrokerStep == (SessionStep \/ DenyConnect) /\ UNCHANGED <<userVars, readerVars, otherVars>>

OtherStep == Others /\ UNCHANGED <<userVars, readerVars>>

LEMMA Steps ==
    ASSUME [Next]_vars
    PROVE  UserStep \/ BrokerStep \/ OtherStep \/ UNCHANGED vars
    BY DEF Next, UserStep, BrokerStep, OtherStep

LEMMA FrameFields ==
    ASSUME NEW cmd, NEW id, NEW hdr
    PROVE  /\ Frame(cmd, id, hdr).cmd = cmd /\ Frame(cmd, id, hdr).id = id
           /\ Frame(cmd, id, hdr).hdr = hdr
    BY DEF Frame

\* A step of the client adds at most one frame.
LEMMA UserFrames ==
    ASSUME EndsTypeOK, UserStep
    PROVE  up' = up \/ \E f \in UpFrame : Adds(f) /\ Origin(f)
<1> USE FrameFields DEF Adds, Origin, WriteSucceeds, WriteFails, Call
<1>1. /\ rd = "ack" => held.hdr[2] \in Text
      /\ cHb \in Hb
    BY DEF EndsTypeOK, ReaderTypeOK, MsgFrame
<1>2. ASSUME NEW i \in SubsIDs, NEW cmd \in {"SUBSCRIBE", "UNSUBSCRIBE", "SENDIN"}
      PROVE  Frame(cmd, i, Nil) \in UpFrame
    BY DEF Frame, UpFrame
<1>20. ASSUME NEW i \in SubsIDs, NEW cmd \in {"SEND", "SENDTX"}, NEW h \in SendHeaders
      PROVE  Frame(cmd, i, h) \in UpFrame
    BY DEF Frame, UpFrame
<1>21. ASSUME NEW i \in Text
      PROVE  Frame("ACK", i, Nil) \in UpFrame
    BY DEF Frame, UpFrame
<1>3. ASSUME NEW cmd \in {"CONNECT", "BEGIN", "COMMIT", "ABORT", "DISCONNECT"},
             NEW hb \in Hb \cup {Nil}
      PROVE  Frame(cmd, Nil, hb) \in UpFrame
    BY DEF Frame, UpFrame
<1>4. CASE Connect
  <2> DEFINE hb == IF cHb = <<0, 0>> THEN Nil ELSE cHb
  <2>1. hb \in Hb \cup {Nil}
    BY <1>1
  <2>2. rd = "off" /\ tx' = tx /\ WriteSucceeds(Frame("CONNECT", Nil, hb))
    BY <1>4 DEF Connect, userVars, callVars
  <2>3. Frame("CONNECT", Nil, hb) \in UpFrame
    BY <1>3, <2>1
  <2> QED
    BY <2>2, <2>3
<1>5. ASSUME NEW i \in SubsIDs, Subscribe(i) \/ Unsubscribe(i) \/ Send(i) \/ TxSend(i)
      PROVE  up' = up \/ \E f \in UpFrame : Adds(f) /\ Origin(f)
  <2>1. CASE Subscribe(i)
    BY <1>2, <1>5, <2>1 DEF Subscribe
  <2>2. CASE Unsubscribe(i)
    BY <1>2, <1>5, <2>2 DEF Unsubscribe
  <2>3. CASE Send(i)
    <3>1. ASSUME NEW h \in SendHeaders, Call("SEND", i, h, UNCHANGED callVars)
          PROVE  up' = up \/ \E f \in UpFrame : Adds(f) /\ Origin(f)
        BY <1>20, <1>5, <3>1 DEF callVars
    <3>2. CASE Call("SENDIN", i, Nil, UNCHANGED callVars)
        BY <1>2, <1>5, <3>2 DEF callVars
    <3> QED
        BY <2>3, <3>1, <3>2 DEF Send
  <2>4. CASE TxSend(i)
    <3>1. ASSUME NEW h \in SendHeaders, tx = "open", Call("SENDTX", i, h, UNCHANGED callVars)
          PROVE  up' = up \/ \E f \in UpFrame : Adds(f) /\ Origin(f)
        BY <1>20, <1>5, <3>1 DEF callVars
    <3> QED
        BY <2>4, <3>1 DEF TxSend
  <2> QED
    BY <1>5, <2>1, <2>2, <2>3, <2>4
<1>6. CASE BeginTransaction
    BY <1>3, <1>6 DEF BeginTransaction
<1>7. CASE Disconnect
    BY <1>3, <1>7 DEF Disconnect
<1>8. ASSUME NEW cmd \in {"COMMIT", "ABORT"}, EndTransaction(cmd)
      PROVE  up' = up \/ \E f \in UpFrame : Adds(f) /\ Origin(f)
    BY <1>3, <1>8 DEF EndTransaction
<1>9. CASE SendAck
  <2>1. odd' \/ held.hdr[2] = held.id
    BY <1>9, Zenon DEF SendAck
  <2>2. rd = "ack" /\ tx' = tx
    BY <1>9 DEF SendAck, userVars, callVars
  <2>3. Frame("ACK", held.hdr[2], Nil) \in UpFrame
    BY <1>1, <1>21, <2>2
  <2>4. Origin(Frame("ACK", held.hdr[2], Nil))
    BY <2>1, <2>2
  <2>5. WriteSucceeds(Frame("ACK", held.hdr[2], Nil)) \/ up' = up
    BY <1>9 DEF SendAck
  <2> QED
    BY <2>3, <2>4, <2>5
<1>10. CASE DisconnectOnError
    BY <1>3, <1>10 DEF DisconnectOnError, userVars, callVars
<1>11. CASE \/ StoreSubscription \/ MapFault
            \/ ReadConnected \/ ReadMessage \/ LookUpSubscription \/ PushAck
            \/ ReadReceipt \/ ReadError \/ ReadEnd
    BY <1>11 DEF StoreSubscription, MapFault, ReadConnected, ReadMessage, LookUpSubscription,
                 PushAck, ReadReceipt, ReadError, ReadEnd, linkVars
<1> QED
    BY <1>4, <1>5, <1>6, <1>7, <1>8, <1>9, <1>10, <1>11 DEF UserStep, UserCall, ReaderStep

LEMMA CallTypes ==
    ASSUME EndsTypeOK, UserStep
    PROVE  CallTypeOK'
<1> USE DEF CallTypeOK
<1>1. CallTypeOK
    BY DEF EndsTypeOK
<1>2. CASE Connect
    BY <1>1, <1>2 DEF Connect, userVars, callVars
<1>3. ASSUME NEW i \in SubsIDs, Subscribe(i) \/ Unsubscribe(i) \/ Send(i) \/ TxSend(i)
      PROVE  CallTypeOK'
    BY <1>1, <1>3 DEF Subscribe, Unsubscribe, Send, TxSend, Call, callVars
<1>4. CASE BeginTransaction \/ Disconnect
    BY <1>1, <1>4 DEF BeginTransaction, Disconnect, Call, callVars
<1>5. ASSUME NEW cmd \in {"COMMIT", "ABORT"}, EndTransaction(cmd)
      PROVE  CallTypeOK'
    BY <1>1, <1>5 DEF EndTransaction, Call, callVars
<1>6. CASE StoreSubscription
    BY <1>1, <1>6 DEF StoreSubscription
<1>7. CASE ReaderStep \/ MapFault
    BY <1>1, <1>7 DEF ReaderStep, ReadConnected, ReadMessage, LookUpSubscription, SendAck, PushAck,
        ReadReceipt, ReadError, DisconnectOnError, ReadEnd, MapFault, userVars, callVars
<1> QED
    BY <1>2, <1>3, <1>4, <1>5, <1>6, <1>7 DEF UserStep, UserCall

\* What Negotiate and BrokerNegotiate give, and that they agree.
LEMMA Negotiated ==
    ASSUME NEW ours \in Nat, NEW theirs \in Nat
    PROVE  /\ Negotiate(ours, theirs) \in Nat
           /\ BrokerNegotiate(ours, theirs) \in Nat
           /\ BrokerNegotiate(ours, theirs) = Negotiate(ours, theirs)
           /\ Negotiate(theirs, Negotiate(ours, theirs)) = Negotiate(ours, theirs)
           /\ Negotiate(0, theirs) = 0 /\ Negotiate(ours, 0) = 0
    BY DEF Negotiate, BrokerNegotiate

\* The frame at the head of what the broker has sent.
LEMMA HeadDown ==
    ASSUME EndsTypeOK, down # <<>>
    PROVE  /\ Head(down) \in DownFrame /\ Head(down) \in Range(down) /\ Head(down) = down[1]
           /\ Tail(down) \in Seq(DownFrame) /\ Len(Tail(down)) = Len(down) - 1
           /\ Len(down) \in Nat \ {0}
           /\ \A i \in 1 .. Len(down) - 1 : Tail(down)[i] = down[i + 1]
           /\ Range(Tail(down)) \subseteq Range(down)
    BY TailRange DEF EndsTypeOK, LinkTypeOK

LEMMA HeadUp ==
    ASSUME EndsTypeOK, up # <<>>
    PROVE  /\ Head(up) \in UpFrame /\ Head(up) \in Range(up) /\ Head(up) = up[1]
           /\ Tail(up) \in Seq(UpFrame) /\ Len(Tail(up)) = Len(up) - 1
           /\ Len(up) \in Nat \ {0}
           /\ \A i \in 1 .. Len(up) - 1 : Tail(up)[i] = up[i + 1]
           /\ Range(Tail(up)) \subseteq Range(up)
    BY TailRange DEF EndsTypeOK, LinkTypeOK

LEMMA HeadOut ==
    ASSUME EndsTypeOK, bout # <<>>
    PROVE  /\ Head(bout) \in DownFrame /\ Head(bout) \in Range(bout)
           /\ Tail(bout) \in Seq(DownFrame) /\ Len(Tail(bout)) = Len(bout) - 1
           /\ Len(bout) \in Nat \ {0}
           /\ Range(Tail(bout)) \subseteq Range(bout)
    BY TailRange DEF EndsTypeOK, SessTypeOK

LEMMA DownFrameFacts ==
    ASSUME NEW f \in DownFrame
    PROVE  /\ f.cmd = "MESSAGE" => f.id \in SubsIDs
           /\ f.cmd = "MESSAGE" => f \in MsgFrame
           /\ f.cmd = "CONNECTED" => f.hdr \in Hb
           /\ f.cmd \in {"MESSAGE", "CONNECTED", "RECEIPT", "ERROR"}
    BY DEF DownFrame, MsgFrame

LEMMA UpFrameFacts ==
    ASSUME NEW f \in UpFrame
    PROVE  /\ f.cmd \in {"SUBSCRIBE", "UNSUBSCRIBE", "SEND", "SENDTX"} => f.id \in SubsIDs
           /\ f.cmd \in {"SEND", "SENDTX"} => f.hdr \in SendHeaders
           /\ f.cmd = "CONNECT" => f.hdr \in Hb \cup {Nil}
    BY DEF UpFrame

LEMMA NilFacts ==
    /\ Nil \notin SubsIDs /\ Nil \notin Modes /\ Nil \notin Hb
    /\ Nil \notin Seq(SubsIDs \X SendHeaders) /\ Nil \notin MsgFrame
    BY ClientAssumption DEF Hb, MsgFrame, Text

LEMMA ReaderTypes ==
    ASSUME EndsTypeOK, UserStep
    PROVE  ReaderTypeOK'
<1> USE DEF ReaderTypeOK
<1>1. ReaderTypeOK
    BY DEF EndsTypeOK
<1>2. CASE Connect
    BY <1>1, <1>2 DEF Connect
<1>3. CASE (UserCall /\ ~Connect) \/ StoreSubscription \/ MapFault
    BY <1>1, <1>3 DEF UserCall, BeginTransaction, Disconnect, Subscribe, Unsubscribe, Send, TxSend,
        EndTransaction, Call, StoreSubscription, MapFault, readerVars
<1>4. CASE ReadConnected
  <2>1. down # <<>> /\ Head(down).cmd = "CONNECTED"
    BY <1>4 DEF ReadConnected, Reads
  <2>2. Head(down).hdr \in Nat \X Nat
    BY <2>1, HeadDown, DownFrameFacts DEF Hb
  <2>3. /\ cHb[1] \in Nat /\ cHb[2] \in Nat
        /\ Head(down).hdr[1] \in Nat /\ Head(down).hdr[2] \in Nat
    BY <1>1, <2>2 DEF Hb
  <2>4. cHb' \in Hb
    BY <1>4, <2>3, Negotiated DEF ReadConnected, Hb
  <2> QED
    BY <1>1, <1>4, <2>4 DEF ReadConnected
<1>5. CASE ReadMessage
  <2>1. down # <<>> /\ Head(down).cmd = "MESSAGE"
    BY <1>5 DEF ReadMessage, Reads
  <2>2. Head(down) \in MsgFrame
    BY <2>1, HeadDown, DownFrameFacts
  <2>3. CASE Head(down).hdr[2] = Empty
    BY <1>1, <1>5, <2>3 DEF ReadMessage, Reads
  <2>4. CASE Head(down).hdr[2] # Empty
    <3>1. held' \in MsgFrame /\ held' # Nil /\ rd' = "lookup"
        BY <1>5, <2>2, <2>4, NilFacts DEF ReadMessage
    <3> QED
        BY <1>1, <1>5, <3>1 DEF ReadMessage
  <2> QED
    BY <2>3, <2>4
<1>6. CASE LookUpSubscription
  <2> DEFINE mode == ModeOf(held.hdr[1])
  <2>1. /\ mode = Nil => rd' = "idle" /\ held' = Nil
        /\ mode # Nil =>
              rd' = (IF mode = "client-individual" THEN "ack" ELSE "chan") /\ held' = held
    BY <1>6 DEF LookUpSubscription
  <2> HIDE DEF mode
  <2>4. UNCHANGED <<odd, ackCh, sessionID, cHb>> /\ rd = "lookup"
    BY <1>6 DEF LookUpSubscription
  <2>2. CASE mode = Nil
    <3>1. rd' = "idle" /\ held' = Nil
        BY <2>1, <2>2
    <3> QED
        BY <1>1, <2>4, <3>1
  <2>3. CASE mode # Nil
    <3>1. rd' \in {"ack", "chan"} /\ held' = held
        BY <2>1, <2>3
    <3> QED
        BY <1>1, <2>4, <3>1
  <2> QED
    BY <2>2, <2>3
<1>7. CASE SendAck
  <2>1. odd' \in BOOLEAN
    BY <1>1, <1>7, Zenon DEF SendAck
  <2> QED
    BY <1>1, <1>7, <2>1 DEF SendAck
<1>8. CASE PushAck
  <2>1. ackCh' \in 0 .. AckChCap
    BY <1>1, <1>8, ClientAssumption DEF PushAck
  <2> QED
    BY <1>1, <1>8, <2>1 DEF PushAck
<1>9. CASE ReadReceipt \/ ReadError \/ ReadEnd
    BY <1>1, <1>9 DEF ReadReceipt, ReadError, ReadEnd, Reads, ReaderEnds
<1>10. CASE DisconnectOnError
    BY <1>1, <1>10 DEF DisconnectOnError, ReaderEnds
<1> QED
    BY <1>2, <1>3, <1>4, <1>5, <1>6, <1>7, <1>8, <1>9, <1>10 DEF UserStep, ReaderStep

\* A step of the client takes at most one frame of the broker.
LEMMA UserTakes ==
    ASSUME UserStep
    PROVE  down' = down \/ (down # <<>> /\ rd = "idle" /\ down' = Tail(down))
<1>1. CASE UserCall \/ StoreSubscription \/ MapFault
    BY <1>1 DEF UserCall, Connect, BeginTransaction, Disconnect, Subscribe, Unsubscribe, Send,
        TxSend, EndTransaction, Call, StoreSubscription, MapFault, linkVars
<1>2. CASE ReaderStep
    BY <1>2 DEF ReaderStep, ReadConnected, ReadMessage, LookUpSubscription, SendAck, PushAck,
        ReadReceipt, ReadError, DisconnectOnError, ReadEnd, Reads, linkVars
<1> QED
    BY <1>1, <1>2 DEF UserStep

\* The frames that the session takes.
BrokerTakes ==
    TakeConnect \/ DenyConnect \/ TakeSubscribe \/ TakeUnsubscribe \/ TakeSend \/ TakeSendIn
    \/ TakeAck \/ TakeBegin \/ TakeSendTx \/ TakeCommit \/ TakeAbort \/ TakeDisconnect

LEMMA TakesHead ==
    ASSUME BrokerTakes
    PROVE  /\ bpc = "idle" /\ up # <<>> /\ up' = Tail(up)
           /\ UNCHANGED <<down, cconn, bconn, alive>>
    BY DEF BrokerTakes, TakeConnect, DenyConnect, TakeSubscribe, TakeUnsubscribe, TakeSend,
        TakeSendIn, TakeAck, TakeBegin, TakeSendTx, TakeCommit, TakeAbort, TakeInTx,
        TakeDisconnect, Takes

\* A frame that is taken may be answered, but no subscription is locked for it.
LEMMA TakesSend ==
    ASSUME BrokerTakes
    PROVE  bpc' # "send"
<1>1. bpc = "idle"
    BY TakesHead
<1>2. CASE TakeConnect \/ DenyConnect \/ TakeSubscribe \/ TakeUnsubscribe \/ TakeSend \/ TakeSendIn
    BY <1>1, <1>2 DEF TakeConnect, DenyConnect, TakeSubscribe, TakeUnsubscribe, TakeSend,
        TakeSendIn, Continues, Drop, Reply
<1>3. CASE TakeAck \/ TakeBegin \/ TakeSendTx \/ TakeCommit \/ TakeAbort \/ TakeDisconnect
    BY <1>1, <1>3 DEF TakeAck, TakeBegin, TakeSendTx, TakeCommit, TakeAbort, TakeInTx,
        TakeDisconnect, Continues, Drop, Reply
<1> QED
    BY <1>2, <1>3 DEF BrokerTakes

\* A frame is written or not, the range of publish() finds the subscription, or the
\* handler returns, and what was written may be lost.
LEMMA BrokerFrames ==
    ASSUME EndsTypeOK, BrokerStep, ~BrokerTakes
    PROVE  /\ up' = up
           /\ UNCHANGED <<why, routed, displaced, btx, bHb>>
           /\ bconn' = "open" => bconn = "open"
           /\ \/ /\ bpc \in {"write", "send"} /\ bout # <<>>
                 /\ Head(bout).cmd = "MESSAGE" => bpc = "send"
                 /\ down' = Append(down, Head(bout)) /\ Len(down) < DownCap
                 /\ bout' = Tail(bout) /\ bpc' = "write" /\ after' = after /\ bJob' = bJob
              \/ /\ bpc \in {"write", "send"} /\ bout # <<>> /\ bout' = Tail(bout)
                 /\ down' = down /\ bJob' = bJob
                 /\ bpc' = "write" \/ (bpc' = "hung" /\ Head(bout).cmd = "MESSAGE")
                 /\ after' = after \/ after' = "end"
              \/ /\ bpc = "write" /\ bout # <<>>
                 /\ Head(bout).cmd = "MESSAGE" /\ Head(bout).id \in routed
                 /\ bpc' = "send" /\ UNCHANGED <<bout, after, down, bJob>>
              \/ /\ bpc = "idle" \/ (bpc = "write" /\ bout = <<>>)
                 /\ bpc' = "ended" \/ (bpc' = "idle" /\ after # "end")
                 /\ bpc = "idle" => bpc' = "ended"
                 /\ bout' = bout /\ after' \in {after, "idle"} /\ bJob' \in {bJob, FALSE}
                 /\ down' = down \/ \E k \in 0 .. Len(down) : down' = SubSeq(down, 1, k)
<1> USE DEF NextOut, regVars
<1>1. CASE Write
    BY <1>1 DEF Write, BrokerWriteSucceeds, BrokerWriteFails
<1>2. CASE PublishRange \/ PublishElsewhere
    BY <1>2 DEF PublishRange, PublishElsewhere, linkVars
<1>5. CASE SendMessage
    BY <1>5 DEF SendMessage, BrokerWriteSucceeds, BrokerWriteFails, EndsTypeOK, SessTypeOK
<1>3. CASE Finish
    BY <1>3 DEF Finish, CloseConn, linkVars
<1>4. CASE EndOfStream
    BY <1>4 DEF EndOfStream, CloseConn
<1> QED
    BY <1>1, <1>2, <1>3, <1>4, <1>5 DEF BrokerStep, SessionStep, BrokerTakes

\* The steps of the others.
Locks(i) == i \in routed /\ pubs' = pubs \cup {i} /\ UNCHANGED <<down, sessVars>>

Writes(i) ==
    /\ i \in pubs /\ pubs' = pubs \ {i}
    /\ \/ down' = down
       \/ \E h \in SendHeaders : down' = Append(down, Message(i, h)) /\ Len(down) < DownCap
    /\ UNCHANGED sessVars

Displaces(i) ==
    /\ routed' = routed \ {i} /\ displaced' = displaced \cup {i}
    /\ UNCHANGED <<down, bpc, bout, btx, bJob, pubs>>

Buffers(i) ==
    /\ btx # Nil /\ \E h \in SendHeaders : btx' = Append(btx, <<i, h>>)
    /\ UNCHANGED <<down, bpc, bout, routed, displaced, bJob, pubs>>

Dies ==
    /\ bpc' = "ended" /\ bout' = <<>> /\ bJob' = FALSE /\ pubs' = {} /\ bconn' = "closed"
    /\ \E k \in 0 .. Len(down) : down' = SubSeq(down, 1, k)
    /\ UNCHANGED <<routed, displaced, btx>>

LEMMA OtherFrames ==
    ASSUME OtherStep
    PROVE  /\ UNCHANGED <<up, userVars, readerVars, why, after, bHb>>
           /\ bconn' = "open" => bconn = "open"
           /\ \/ \E i \in SubsIDs : Locks(i) \/ Writes(i) \/ Displaces(i) \/ Buffers(i)
              \/ Dies
<1>1. ASSUME NEW i \in SubsIDs, OtherLock(i)
      PROVE  UNCHANGED <<up, bconn, why, after, bHb>> /\ Locks(i)
    BY <1>1 DEF OtherLock, linkVars, sessVars, Locks
<1>2. ASSUME NEW i \in SubsIDs, OtherWrite(i)
      PROVE  UNCHANGED <<up, bconn, why, after, bHb>> /\ Writes(i)
    BY <1>2 DEF OtherWrite, BrokerWriteSucceeds, BrokerWriteFails, sessVars, Writes
<1>3. ASSUME NEW i \in SubsIDs, OtherDisplaces(i)
      PROVE  UNCHANGED <<up, bconn, why, after, bHb>> /\ Displaces(i)
    BY <1>3 DEF OtherDisplaces, linkVars, otherVars, Displaces
<1>4. ASSUME NEW i \in SubsIDs, OtherBuffers(i)
      PROVE  UNCHANGED <<up, bconn, why, after, bHb>> /\ Buffers(i)
    BY <1>4 DEF OtherBuffers, linkVars, regVars, Buffers
<1>5. CASE BrokerDies
    BY <1>5 DEF OtherStep, BrokerDies, CloseConn, regVars, Dies
<1> QED
    BY <1>1, <1>2, <1>3, <1>4, <1>5 DEF OtherStep, Others

LEMMA MessageIsFrame ==
    ASSUME NEW i \in SubsIDs, NEW h \in SendHeaders
    PROVE  /\ Message(i, h) \in DownFrame
           /\ Message(i, h).cmd = "MESSAGE" /\ Message(i, h).id = i
<1>1. h \in (Text \cup {Nil}) \X (Text \cup {Nil}) /\ i \in Text
    BY ClientAssumption DEF Text
<1>2. Message(i, h) \in MsgFrame
    BY <1>1 DEF Message, Frame, MsgFrame
<1>3. Message(i, h).cmd = "MESSAGE" /\ Message(i, h).id = i
    BY DEF Message, Frame
<1> QED
    BY <1>2, <1>3 DEF DownFrame

LEMMA LinkTypes ==
    ASSUME EndsTypeOK, [Next]_vars
    PROVE  LinkTypeOK'
<1> USE DEF LinkTypeOK
<1>1. LinkTypeOK /\ UpCap \in Nat /\ DownCap \in Nat
    BY ClientAssumption DEF EndsTypeOK
<1>2. Len(up) \in Nat /\ Len(down) \in Nat
    BY <1>1, LenProperties
<1>3. ASSUME NEW f \in UpFrame, up' = Append(up, f), Len(up) < UpCap
      PROVE  up' \in Seq(UpFrame) /\ Len(up') <= UpCap
    BY <1>1, <1>2, <1>3, AppendRange
<1>4. ASSUME NEW f \in DownFrame, down' = Append(down, f), Len(down) < DownCap
      PROVE  down' \in Seq(DownFrame) /\ Len(down') <= DownCap
    BY <1>1, <1>2, <1>4, AppendRange
<1>5. ASSUME up # <<>>, up' = Tail(up)
      PROVE  up' \in Seq(UpFrame) /\ Len(up') <= UpCap
    BY <1>1, <1>5, HeadUp
<1>6. ASSUME down # <<>>, down' = Tail(down)
      PROVE  down' \in Seq(DownFrame) /\ Len(down') <= DownCap
    BY <1>1, <1>6, HeadDown
<1>7. ASSUME NEW k \in 0 .. Len(down), down' = SubSeq(down, 1, k)
      PROVE  down' \in Seq(DownFrame) /\ Len(down') <= DownCap
    BY <1>1, <1>2, <1>7, FrontRange
<1>8. CASE UserStep
  <2>1. up' \in Seq(UpFrame) /\ Len(up') <= UpCap
    BY <1>1, <1>3, <1>8, UserFrames DEF Adds
  <2>2. down' \in Seq(DownFrame) /\ Len(down') <= DownCap
    BY <1>1, <1>6, <1>8, UserTakes
  <2> QED
    BY <2>1, <2>2
<1>9. CASE BrokerTakes
    BY <1>1, <1>5, <1>9, TakesHead
<1>10. CASE BrokerStep /\ ~BrokerTakes
    BY <1>1, <1>4, <1>7, <1>10, BrokerFrames, HeadOut
<1>11. CASE OtherStep
  <2>1. ASSUME NEW i \in SubsIDs, Locks(i) \/ Writes(i) \/ Displaces(i) \/ Buffers(i)
        PROVE  down' \in Seq(DownFrame) /\ Len(down') <= DownCap
    BY <1>1, <1>4, <2>1, MessageIsFrame DEF Locks, Writes, Displaces, Buffers
  <2>2. Dies => down' \in Seq(DownFrame) /\ Len(down') <= DownCap
    BY <1>7 DEF Dies
  <2> QED
    BY <1>1, <1>11, <2>1, <2>2, OtherFrames
<1>12. CASE UNCHANGED vars
    BY <1>1, <1>12 DEF vars, clientVars, linkVars
<1> QED
    BY <1>8, <1>9, <1>10, <1>11, <1>12, Steps

LEMMA SessTypes ==
    ASSUME EndsTypeOK, BrokerStep
    PROVE  SessTypeOK'
<1> USE DEF SessTypeOK, NextOut
<1>1. SessTypeOK /\ pubs' = pubs
    BY DEF EndsTypeOK, BrokerStep, otherVars
<1>2. CASE ~BrokerTakes
    BY <1>1, <1>2, BrokerFrames, HeadOut
<1>3. ASSUME up # <<>>, Head(up).cmd \in {"SUBSCRIBE", "UNSUBSCRIBE", "SEND", "SENDTX"}
      PROVE  /\ Head(up).id \in SubsIDs
             /\ Head(up).cmd \in {"SEND", "SENDTX"} => Head(up).hdr \in SendHeaders
    BY <1>3, HeadUp, UpFrameFacts
<1>4. <<>> \in Seq(DownFrame) /\ <<>> \in Seq(SubsIDs \X SendHeaders)
    BY EmptySeq
<1>5. ASSUME NEW f \in DownFrame
      PROVE  <<f>> \in Seq(DownFrame)
    OBVIOUS
<1>17. BrokerTakes => bpc = "idle"
    BY TakesHead
<1>6. CASE TakeConnect
  <2>1. up # <<>> /\ Head(up).hdr \in Hb \cup {Nil}
    BY <1>6, HeadUp, UpFrameFacts DEF TakeConnect, Takes
  <2>2. bHb' \in Hb
    <3>1. CASE Head(up).hdr = Nil
        BY <1>1, <1>6, <3>1 DEF TakeConnect
    <3>2. CASE Head(up).hdr # Nil
      <4>1. /\ bHb[1] \in Nat /\ bHb[2] \in Nat
            /\ Head(up).hdr[1] \in Nat /\ Head(up).hdr[2] \in Nat
        BY <1>1, <2>1, <3>2 DEF Hb
      <4>2. bHb' = <<BrokerNegotiate(bHb[1], Head(up).hdr[2]), BrokerNegotiate(bHb[2], Head(up).hdr[1])>>
        BY <1>6, <3>2 DEF TakeConnect
      <4>3. /\ BrokerNegotiate(bHb[1], Head(up).hdr[2]) \in Nat
            /\ BrokerNegotiate(bHb[2], Head(up).hdr[1]) \in Nat
        BY <4>1, Negotiated
      <4> QED
        BY <4>2, <4>3 DEF Hb
    <3> QED
        BY <3>1, <3>2
  <2>3. Frame("CONNECTED", Nil, bHb') \in DownFrame
    BY <2>2 DEF Frame, DownFrame
  <2> QED
    BY <1>1, <1>5, <1>6, <2>2, <2>3 DEF TakeConnect, Reply, regVars
<1>7. CASE DenyConnect
  <2>1. Frame("ERROR", Nil, Nil) \in DownFrame
    BY DEF Frame, DownFrame
  <2> QED
    BY <1>1, <1>5, <1>7, <2>1 DEF DenyConnect, Reply, regVars
<1>8. CASE TakeSubscribe
  <2>1. Head(up).id \in SubsIDs /\ bpc = "idle"
    BY <1>3, <1>8 DEF TakeSubscribe, Takes
  <2>2. PICK same \in SUBSET routed : /\ routed' = (routed \ same) \cup {Head(up).id}
                                      /\ displaced' = displaced \cup same
    BY <1>8 DEF TakeSubscribe
  <2>3. routed' \subseteq SubsIDs /\ displaced' \subseteq SubsIDs
    BY <1>1, <2>1, <2>2
  <2> QED
    BY <1>1, <1>8, <2>1, <2>3 DEF TakeSubscribe, Continues
<1>9. CASE TakeUnsubscribe
    BY <1>1, <1>4, <1>9 DEF TakeUnsubscribe, Takes, Continues, Drop, Reply
<1>10. CASE TakeSend
  <2>1. Message(Head(up).id, Head(up).hdr) \in DownFrame
    BY <1>3, <1>10, MessageIsFrame DEF TakeSend, Takes
  <2> QED
    BY <1>1, <1>5, <1>10, <2>1 DEF TakeSend, Reply, regVars
<1>18. CASE TakeSendIn
    BY <1>1, <1>4, <1>18 DEF TakeSendIn, Takes, Continues, Drop, Reply, regVars
<1>11. CASE TakeAck
    BY <1>1, <1>4, <1>11 DEF TakeAck, Takes, Continues, Drop, Reply, regVars
<1>12. CASE TakeBegin
    BY <1>1, <1>4, <1>12 DEF TakeBegin, Takes, Continues, Drop, Reply, regVars
<1>13. CASE TakeSendTx
  <2>1. <<Head(up).id, Head(up).hdr>> \in SubsIDs \X SendHeaders
    BY <1>3, <1>13 DEF TakeSendTx, TakeInTx, Takes
  <2>2. btx # Nil => Append(btx, <<Head(up).id, Head(up).hdr>>) \in Seq(SubsIDs \X SendHeaders)
    BY <1>1, <2>1
  <2>3. btx' = Nil \/ btx' \in Seq(SubsIDs \X SendHeaders)
    BY <1>13, <2>2 DEF TakeSendTx, TakeInTx
  <2> QED
    BY <1>1, <1>4, <1>13, <2>3
    DEF TakeSendTx, TakeInTx, Takes, Continues, Drop, Reply, regVars
<1>14. CASE TakeCommit
  <2>1. CASE btx = Nil
    BY <1>1, <1>4, <1>14, <2>1 DEF TakeCommit, TakeInTx, Drop, Reply, regVars
  <2>2. CASE btx # Nil
    <3>1. /\ btx \in Seq(SubsIDs \X SendHeaders)
          /\ DOMAIN btx = 1 .. Len(btx) /\ Len(btx) \in Nat
        BY <1>1, <2>2, LenProperties
    <3>2. \A k \in 1 .. Len(btx) : btx[k][1] \in SubsIDs /\ btx[k][2] \in SendHeaders
        BY <3>1, ElementOfSeq
    <3>5. \A k \in 1 .. Len(btx) : Message(btx[k][1], btx[k][2]) \in DownFrame
        BY <3>2, MessageIsFrame
    <3>3. [k \in DOMAIN btx |-> Message(btx[k][1], btx[k][2])] \in [1 .. Len(btx) -> DownFrame]
        BY <3>1, <3>5
    <3>4. [k \in DOMAIN btx |-> Message(btx[k][1], btx[k][2])] \in Seq(DownFrame)
        BY <3>1, <3>3, SeqDef
    <3> QED
        BY <1>1, <1>14, <2>2, <3>4 DEF TakeCommit, TakeInTx, Reply, regVars
  <2> QED
    BY <2>1, <2>2
<1>15. CASE TakeAbort
    BY <1>1, <1>4, <1>15 DEF TakeAbort, TakeInTx, Takes, Continues, Drop, Reply, regVars
<1>16. CASE TakeDisconnect
  <2>1. Frame("RECEIPT", Nil, Nil) \in DownFrame
    BY DEF Frame, DownFrame
  <2> QED
    BY <1>1, <1>5, <1>16, <2>1 DEF TakeDisconnect, Reply
<1> QED
    BY <1>2, <1>6, <1>7, <1>8, <1>9, <1>10, <1>11, <1>12, <1>13, <1>14, <1>15, <1>16, <1>18
    DEF BrokerTakes

LEMMA OtherTypes ==
    ASSUME EndsTypeOK, OtherStep
    PROVE  SessTypeOK'
<1> USE DEF SessTypeOK, NextOut
<1>1. SessTypeOK
    BY DEF EndsTypeOK
<1>2. after' = after /\ bHb' = bHb
    BY OtherFrames
<1>3. ASSUME NEW i \in SubsIDs, Locks(i) \/ Writes(i)
      PROVE  SessTypeOK'
    BY <1>1, <1>3 DEF Locks, Writes, sessVars, regVars
<1>4. ASSUME NEW i \in SubsIDs, Displaces(i)
      PROVE  SessTypeOK'
  <2>1. routed' \subseteq SubsIDs /\ displaced' \subseteq SubsIDs
    BY <1>1, <1>4 DEF Displaces
  <2> QED
    BY <1>1, <1>2, <1>4, <2>1 DEF Displaces
<1>5. ASSUME NEW i \in SubsIDs, Buffers(i)
      PROVE  SessTypeOK'
  <2>1. PICK h \in SendHeaders : btx' = Append(btx, <<i, h>>)
    BY <1>5 DEF Buffers
  <2>2. btx \in Seq(SubsIDs \X SendHeaders) /\ <<i, h>> \in SubsIDs \X SendHeaders
    BY <1>1, <1>5 DEF Buffers
  <2>3. btx' \in Seq(SubsIDs \X SendHeaders)
    BY <2>1, <2>2
  <2> QED
    BY <1>1, <1>2, <1>5, <2>3 DEF Buffers
<1>6. CASE Dies
  <2>1. <<>> \in Seq(DownFrame)
    BY EmptySeq
  <2> QED
    BY <1>1, <1>2, <1>6, <2>1 DEF Dies
<1> QED
    BY <1>3, <1>4, <1>5, <1>6, OtherFrames

LEMMA TypeStep ==
    ASSUME EndsTypeOK, [Next]_vars
    PROVE  EndsTypeOK'
<1>1. CASE UserStep
  <2>1. SessTypeOK'
    BY <1>1 DEF EndsTypeOK, SessTypeOK, NextOut, UserStep, sessVars, regVars, otherVars
  <2> QED
    BY <1>1, <2>1, LinkTypes, CallTypes, ReaderTypes DEF EndsTypeOK
<1>2. CASE BrokerStep
  <2>1. CallTypeOK' /\ ReaderTypeOK'
    BY <1>2 DEF EndsTypeOK, CallTypeOK, ReaderTypeOK, BrokerStep, userVars, callVars, readerVars
  <2> QED
    BY <1>2, <2>1, LinkTypes, SessTypes DEF EndsTypeOK
<1>3. CASE OtherStep
  <2>1. CallTypeOK' /\ ReaderTypeOK'
    BY <1>3 DEF EndsTypeOK, CallTypeOK, ReaderTypeOK, OtherStep, userVars, callVars, readerVars
  <2> QED
    BY <1>3, <2>1, OtherTypes, LinkTypes DEF EndsTypeOK
<1>4. CASE UNCHANGED vars
  <2>1. CallTypeOK' /\ ReaderTypeOK' /\ SessTypeOK'
    BY <1>4 DEF EndsTypeOK, CallTypeOK, ReaderTypeOK, SessTypeOK, NextOut, vars, clientVars,
        userVars, callVars, readerVars, sessVars, regVars, otherVars
  <2> QED
    BY <2>1, LinkTypes DEF EndsTypeOK
<1> QED
    BY <1>1, <1>2, <1>3, <1>4, Steps

----------------------------------------------------------------------------
\* What a step of the client can make of the IDs it knows and holds.
LEMMA UserIDs ==
    ASSUME EndsTypeOK, UserStep
    PROVE  /\ \A i \in SubsIDs : Known(i) => Known(i)'
           /\ \/ held' = held \/ held' = Nil
              \/ \E f \in Range(down) : f.cmd = "MESSAGE" /\ held' = f
           /\ left \subseteq left' /\ (byeSent => byeSent') /\ (odd => odd')
           /\ rd' = "bye" => rd = "bye" \/ \E f \in Range(down) : f.cmd = "ERROR"
           /\ rd' # "off" \/ rd = "off"
<1> USE NilFacts DEF Known
<1>1. CallTypeOK
    BY DEF EndsTypeOK
<1>2. CASE Connect
    BY <1>2 DEF Connect, userVars, callVars
<1>3. ASSUME NEW i \in SubsIDs, Subscribe(i) \/ Unsubscribe(i) \/ Send(i) \/ TxSend(i)
      PROVE  /\ \A j \in SubsIDs : Known(j) => Known(j)'
             /\ held' = held /\ left \subseteq left' /\ (byeSent => byeSent') /\ rd' = rd
             /\ odd' = odd
    BY <1>3 DEF Subscribe, Unsubscribe, Send, TxSend, Call, callVars, readerVars
<1>4. ASSUME \/ BeginTransaction \/ Disconnect
             \/ \E cmd \in {"COMMIT", "ABORT"} : EndTransaction(cmd)
      PROVE  /\ \A j \in SubsIDs : Known(j) => Known(j)'
             /\ held' = held /\ left \subseteq left' /\ (byeSent => byeSent') /\ rd' = rd
             /\ odd' = odd
    BY <1>4 DEF BeginTransaction, Disconnect, EndTransaction, Call, callVars, readerVars
<1>5. CASE StoreSubscription
  <2>1. PICK m \in Modes : subsMap' = [subsMap EXCEPT ![storing] = m]
    BY <1>5 DEF StoreSubscription
  <2>2. \A i \in SubsIDs : subsMap'[i] = IF i = storing THEN m ELSE subsMap[i]
    BY <1>1, <2>1 DEF CallTypeOK
  <2>3. m # Nil
    OBVIOUS
  <2>4. \A i \in SubsIDs : Known(i) => Known(i)'
    BY <2>2, <2>3
  <2> QED
    BY <1>5, <2>4 DEF StoreSubscription, readerVars
<1>6. CASE MapFault
    BY <1>6 DEF MapFault, userVars, callVars, readerVars
<1>7. CASE ReadMessage \/ ReadError
  <2>1. down # <<>> /\ Head(down) \in Range(down)
    BY <1>7, HeadDown DEF ReadMessage, ReadError, Reads
  <2> QED
    BY <1>7, <2>1 DEF ReadMessage, ReadError, Reads, userVars, callVars
<1>8. CASE ReadConnected \/ ReadReceipt \/ ReadEnd \/ DisconnectOnError
    BY <1>8 DEF ReadConnected, ReadReceipt, ReadEnd, DisconnectOnError, ReaderEnds, userVars,
        callVars
<1>9. CASE LookUpSubscription \/ PushAck
    BY <1>9 DEF LookUpSubscription, PushAck, userVars, callVars
<1>10. CASE SendAck
  <2>1. odd => odd'
    BY <1>10, Zenon DEF SendAck
  <2>2. held' = Nil /\ rd' = "idle" /\ UNCHANGED userVars
    BY <1>10 DEF SendAck
  <2> QED
    BY <2>1, <2>2 DEF userVars, callVars
<1> QED
    BY <1>2, <1>3, <1>4, <1>5, <1>6, <1>7, <1>8, <1>9, <1>10 DEF UserStep, UserCall, ReaderStep

\* The subscriptions after a step of the session.
LEMMA BrokerRoutes ==
    ASSUME EndsTypeOK, BrokerStep
    PROVE  /\ \A i \in routed' : i \in routed \/ \E f \in Range(up) : f.cmd = "SUBSCRIBE" /\ f.id = i
           /\ pubs' = pubs /\ displaced \subseteq displaced' /\ UNCHANGED <<userVars, readerVars>>
           /\ \/ routed \subseteq routed' \cup displaced'
              \/ /\ bpc = "idle"
                 /\ \E f \in Range(up) : f.cmd \in {"UNSUBSCRIBE", "DISCONNECT"}
<1>1. pubs' = pubs /\ UNCHANGED <<userVars, readerVars>>
    BY DEF BrokerStep, otherVars
<1>2. CASE ~BrokerTakes
    BY <1>1, <1>2, BrokerFrames
<1>3. CASE BrokerTakes
  <2>1. up # <<>> /\ Head(up) \in Range(up) /\ bpc = "idle"
    BY <1>3, TakesHead, HeadUp
  <2>2. CASE TakeSubscribe \/ TakeUnsubscribe
    BY <1>1, <2>1, <2>2 DEF TakeSubscribe, TakeUnsubscribe, Takes
  <2>4. CASE TakeDisconnect
    <3>1. routed' \subseteq routed
        BY <2>4 DEF TakeDisconnect
    <3> QED
        BY <1>1, <2>1, <2>4, <3>1 DEF TakeDisconnect, Takes
  <2>3. CASE ~(TakeSubscribe \/ TakeUnsubscribe \/ TakeDisconnect)
    BY <1>1, <1>3, <2>3 DEF BrokerTakes, TakeConnect, DenyConnect, TakeSend, TakeSendIn, TakeAck,
        TakeBegin, TakeSendTx, TakeCommit, TakeAbort, TakeInTx, regVars
  <2> QED
    BY <2>2, <2>3, <2>4
<1> QED
    BY <1>2, <1>3

\* What is written, lost or taken of the frames to the client.
LEMMA DownFrom ==
    ASSUME EndsTypeOK, [Next]_vars
    PROVE  \A f \in Range(down') :
              \/ f \in Range(down)
              \/ /\ f \in Range(bout) /\ BrokerStep /\ ~BrokerTakes
                 /\ f.cmd = "MESSAGE" => bpc = "send" /\ f = Head(bout)
              \/ \E i \in pubs, h \in SendHeaders : f = Message(i, h)
<1>1. down \in Seq(DownFrame) /\ pubs \subseteq SubsIDs
    BY DEF EndsTypeOK, LinkTypeOK, SessTypeOK
<1>2. ASSUME NEW f \in DownFrame, down' = Append(down, f)
      PROVE  Range(down') = Range(down) \cup {f}
    BY <1>1, <1>2, AppendRange
<1>3. CASE UserStep
    BY <1>3, UserTakes, HeadDown
<1>4. CASE BrokerTakes
    BY <1>4, TakesHead
<1>5. CASE BrokerStep /\ ~BrokerTakes
  <2>1. CASE /\ bout # <<>> /\ down' = Append(down, Head(bout))
             /\ Head(bout).cmd = "MESSAGE" => bpc = "send"
    BY <1>2, <1>5, <2>1, HeadOut
  <2>2. CASE down' = down
    BY <2>2
  <2>3. ASSUME NEW k \in 0 .. Len(down), down' = SubSeq(down, 1, k)
        PROVE  Range(down') \subseteq Range(down)
    BY <1>1, <2>3, FrontRange
  <2> QED
    BY <1>5, <2>1, <2>2, <2>3, BrokerFrames
<1>6. CASE OtherStep
  <2>1. ASSUME NEW i \in SubsIDs, Locks(i) \/ Displaces(i) \/ Buffers(i)
        PROVE  down' = down
    BY <2>1 DEF Locks, Displaces, Buffers
  <2>2. ASSUME NEW i \in SubsIDs, Writes(i)
        PROVE  \/ down' = down
               \/ /\ i \in pubs
                  /\ \E h \in SendHeaders : Range(down') = Range(down) \cup {Message(i, h)}
    BY <1>2, <2>2, MessageIsFrame DEF Writes
  <2>3. Dies => Range(down') \subseteq Range(down)
    BY <1>1, FrontRange DEF Dies
  <2> QED
    BY <1>6, <2>1, <2>2, <2>3, OtherFrames
<1>7. CASE UNCHANGED vars
    BY <1>7 DEF vars, clientVars, linkVars
<1> QED
    BY <1>3, <1>4, <1>5, <1>6, <1>7, Steps

LEMMA UpFrom ==
    ASSUME EndsTypeOK, [Next]_vars
    PROVE  \A f \in Range(up') : f \in Range(up) \/ (UserStep /\ Origin(f))
<1>1. up \in Seq(UpFrame)
    BY DEF EndsTypeOK, LinkTypeOK
<1>2. CASE UserStep
  <2>1. ASSUME NEW f \in UpFrame, Adds(f)
        PROVE  Range(up') = Range(up) \cup {f}
    BY <1>1, <2>1, AppendRange DEF Adds
  <2> QED
    BY <1>2, <2>1, UserFrames
<1>3. CASE BrokerTakes
    BY <1>3, TakesHead, HeadUp
<1>4. CASE BrokerStep /\ ~BrokerTakes
    BY <1>4, BrokerFrames
<1>5. CASE OtherStep
    BY <1>5, OtherFrames
<1>6. CASE UNCHANGED vars
    BY <1>6 DEF vars, clientVars, linkVars
<1> QED
    BY <1>2, <1>3, <1>4, <1>5, <1>6, Steps

LEMMA KnownStep ==
    ASSUME EndsTypeOK, KnownOK, [Next]_vars
    PROVE  KnownOK'
<1>1. \A i \in SubsIDs : Known(i) => Known(i)'
  <2>1. CASE UserStep
    BY <2>1, UserIDs
  <2>2. CASE BrokerStep
    BY <2>2, BrokerRoutes DEF Known, userVars, callVars
  <2>3. CASE OtherStep
    BY <2>3, OtherFrames DEF Known, userVars, callVars
  <2>4. CASE UNCHANGED vars
    BY <2>4 DEF Known, vars, clientVars, userVars, callVars
  <2> QED
    BY <2>1, <2>2, <2>3, <2>4, Steps
<1>2. /\ up \in Seq(UpFrame) /\ down \in Seq(DownFrame) /\ bout \in Seq(DownFrame)
      /\ routed \subseteq SubsIDs /\ pubs \subseteq SubsIDs
      /\ held # Nil => held.id \in SubsIDs
    BY DEF EndsTypeOK, LinkTypeOK, SessTypeOK, ReaderTypeOK, MsgFrame
<1>3. /\ \A f \in Range(up) : f.cmd = "SUBSCRIBE" => f.id \in SubsIDs
      /\ \A f \in Range(down) : f.cmd = "MESSAGE" => f.id \in SubsIDs
    BY <1>2, InRange, UpFrameFacts, DownFrameFacts
<1>4. \A f \in Range(up') : f.cmd = "SUBSCRIBE" => Known(f.id)'
  <2> SUFFICES ASSUME NEW f \in Range(up'), f.cmd = "SUBSCRIBE"
               PROVE  Known(f.id)'
    OBVIOUS
  <2>1. CASE f \in Range(up)
    BY <1>1, <1>3, <2>1 DEF KnownOK
  <2>2. CASE Origin(f)
    BY <2>2 DEF Origin, Known
  <2> QED
    BY <2>1, <2>2, UpFrom
<1>5. \A i \in routed' \cup pubs' : i \in SubsIDs /\ Known(i)
  <2>1. CASE UserStep \/ UNCHANGED vars
    BY <1>2, <2>1 DEF KnownOK, UserStep, vars, sessVars, regVars, otherVars
  <2>2. CASE BrokerStep
    BY <1>2, <1>3, <2>2, BrokerRoutes DEF KnownOK
  <2>3. CASE OtherStep
    <3>1. ASSUME NEW i \in SubsIDs, Locks(i) \/ Writes(i) \/ Displaces(i) \/ Buffers(i)
          PROVE  \A j \in routed' \cup pubs' : j \in SubsIDs /\ Known(j)
        BY <1>2, <3>1 DEF KnownOK, sessVars, regVars, Locks, Writes, Displaces, Buffers
    <3>2. Dies => \A j \in routed' \cup pubs' : j \in SubsIDs /\ Known(j)
        BY <1>2 DEF KnownOK, Dies
    <3> QED
        BY <2>3, <3>1, <3>2, OtherFrames
  <2> QED
    BY <2>1, <2>2, <2>3, Steps
<1>11. bpc = "send" => Head(bout).id \in SubsIDs /\ Known(Head(bout).id)
    BY HeadOut, DownFrameFacts DEF KnownOK, EndsTypeOK, SessTypeOK, NextOut
<1>6. \A f \in Range(down') : f.cmd = "MESSAGE" => f.id \in SubsIDs /\ Known(f.id)
    BY <1>2, <1>3, <1>11, DownFrom, MessageIsFrame DEF KnownOK
<1>12. bpc' = "send" => Head(bout').id \in SubsIDs /\ Known(Head(bout').id)
  <2>1. CASE UserStep \/ UNCHANGED vars
    BY <1>11, <2>1 DEF UserStep, vars, sessVars
  <2>2. CASE BrokerStep /\ BrokerTakes
    <3>1. bpc' # "send"
        BY <2>2, TakesSend
    <3> QED
        BY <3>1
  <2>3. CASE BrokerStep /\ ~BrokerTakes
    <3>1. bpc' = "send" => bout' = bout /\ Head(bout).id \in routed
        BY <2>3, BrokerFrames
    <3> QED
        BY <1>2, <3>1 DEF KnownOK
  <2>4. CASE OtherStep
    <3>1. bpc' = "send" => bpc = "send" /\ bout' = bout
        BY <2>4, OtherFrames DEF sessVars, Locks, Writes, Displaces, Buffers, Dies
    <3> QED
        BY <1>11, <3>1
  <2> QED
    BY <2>1, <2>2, <2>3, <2>4, Steps
<1>7. held' # Nil => held'.id \in SubsIDs /\ Known(held'.id)
  <2>1. CASE UserStep
    BY <1>2, <1>3, <2>1, UserIDs DEF KnownOK
  <2>2. CASE BrokerStep
    BY <1>2, <2>2, BrokerRoutes DEF KnownOK, readerVars
  <2>3. CASE OtherStep
    BY <1>2, <2>3, OtherFrames DEF KnownOK, readerVars
  <2>4. CASE UNCHANGED vars
    BY <1>2, <2>4 DEF KnownOK, vars, clientVars, readerVars
  <2> QED
    BY <1>2, <2>1, <2>2, <2>3, <2>4, Steps DEF KnownOK
<1>8. \A i \in routed' \cup pubs' : Known(i)'
    BY <1>1, <1>5
<1>9. \A f \in Range(down') : f.cmd = "MESSAGE" => Known(f.id)'
    BY <1>1, <1>6
<1>10. held' # Nil => Known(held.id)'
  <2>1. ASSUME held' # Nil
        PROVE  Known(held.id)'
    <3>1. PICK i \in SubsIDs : i = held'.id /\ Known(i)
        BY <1>7, <2>1
    <3>2. Known(i)'
        BY <1>1, <3>1
    <3> QED
        BY <3>1, <3>2 DEF Known
  <2> QED
    BY <2>1
<1>13. bpc' = "send" => Known(Head(bout).id)'
  <2>1. ASSUME bpc' = "send"
        PROVE  Known(Head(bout).id)'
    <3>1. PICK i \in SubsIDs : i = Head(bout').id /\ Known(i)
        BY <1>12, <2>1
    <3>2. Known(i)'
        BY <1>1, <3>1
    <3> QED
        BY <3>1, <3>2 DEF Known
  <2> QED
    BY <2>1
<1> QED
    BY <1>4, <1>8, <1>9, <1>10, <1>13 DEF KnownOK

----------------------------------------------------------------------------
\* The transaction of the client takes its steps in one order.
LEMMA UserTx ==
    ASSUME EndsTypeOK, UserStep
    PROVE  \/ tx' = tx
           \/ /\ tx = "none" /\ tx' = "open"
              /\ bconn = "closed" \/ Adds(Frame("BEGIN", Nil, Nil))
           \/ tx = "open" /\ tx' = "closed"
<1>1. CASE Connect
    BY <1>1 DEF Connect, userVars, callVars
<1>2. ASSUME NEW i \in SubsIDs, Subscribe(i) \/ Unsubscribe(i) \/ Send(i) \/ TxSend(i)
      PROVE  tx' = tx
    BY <1>2 DEF Subscribe, Unsubscribe, Send, TxSend, Call, callVars
<1>3. CASE BeginTransaction
    BY <1>3 DEF BeginTransaction, Call, WriteSucceeds, Adds, callVars
<1>4. CASE Disconnect
    BY <1>4 DEF Disconnect, Call, callVars
<1>5. ASSUME NEW cmd \in {"COMMIT", "ABORT"}, EndTransaction(cmd)
      PROVE  tx' = tx \/ (tx = "open" /\ tx' = "closed")
    BY <1>5 DEF EndTransaction, Call, callVars
<1>6. CASE StoreSubscription \/ ReaderStep \/ MapFault
    BY <1>6 DEF StoreSubscription, MapFault, ReaderStep, ReadConnected, ReadMessage,
        LookUpSubscription, SendAck, PushAck, ReadReceipt, ReadError, DisconnectOnError, ReadEnd,
        userVars, callVars
<1> QED
    BY <1>1, <1>2, <1>3, <1>4, <1>5, <1>6 DEF UserStep, UserCall

\* The transaction of the broker.
LEMMA TakesTx ==
    ASSUME EndsTypeOK, BrokerTakes
    PROVE  /\ btx = Nil /\ Head(up).cmd = "BEGIN" => btx' # Nil
           /\ btx = Nil /\ btx' # Nil => Head(up).cmd = "BEGIN"
           /\ btx # Nil /\ btx' = Nil => Head(up).cmd = "ABORT"
<1>1. btx = Nil \/ btx \in Seq(SubsIDs \X SendHeaders)
    BY DEF EndsTypeOK, SessTypeOK
<1>2. <<>> \in Seq(SubsIDs \X SendHeaders) /\ Nil \notin Seq(SubsIDs \X SendHeaders)
    BY EmptySeq, NilFacts
<1>3. CASE TakeBegin
    BY <1>2, <1>3 DEF TakeBegin, Takes
<1>4. CASE TakeSendTx
  <2>1. /\ up # <<>> /\ Head(up).cmd = "SENDTX"
        /\ <<Head(up).id, Head(up).hdr>> \in SubsIDs \X SendHeaders
    BY <1>4, HeadUp, UpFrameFacts DEF TakeSendTx, TakeInTx, Takes
  <2>2. btx # Nil => Append(btx, <<Head(up).id, Head(up).hdr>>) \in Seq(SubsIDs \X SendHeaders)
    BY <1>1, <2>1
  <2> QED
    BY <1>2, <1>4, <2>1, <2>2 DEF TakeSendTx, TakeInTx
<1>5. CASE TakeCommit \/ TakeAbort
    BY <1>5 DEF TakeCommit, TakeAbort, TakeInTx, Takes
<1>6. CASE TakeConnect \/ DenyConnect \/ TakeSubscribe \/ TakeUnsubscribe \/ TakeSend
            \/ TakeSendIn \/ TakeAck \/ TakeDisconnect
    BY <1>6 DEF TakeConnect, DenyConnect, TakeSubscribe, TakeUnsubscribe, TakeSend, TakeSendIn,
        TakeAck, TakeDisconnect, Takes
<1> QED
    BY <1>3, <1>4, <1>5, <1>6 DEF BrokerTakes

\* A frame is taken.
LEMMA TxTake ==
    ASSUME EndsTypeOK, TxOK, BrokerTakes, tx' = tx
    PROVE  TxOK'
<1>1. /\ up # <<>> /\ Len(up) \in Nat \ {0} /\ Len(up') = Len(up) - 1
      /\ \A i \in 1 .. Len(up') : up'[i] = up[i + 1] /\ i + 1 \in 1 .. Len(up)
      /\ Head(up) = up[1] /\ 1 \in 1 .. Len(up)
      /\ Range(up') \subseteq Range(up) /\ Head(up) \in Range(up)
      /\ up \in Seq(UpFrame) /\ up' \in Seq(UpFrame)
      /\ bconn' = bconn
  <2>1. up # <<>> /\ up' = Tail(up) /\ bconn' = bconn
    BY TakesHead
  <2>2. /\ Len(up) \in Nat \ {0} /\ Len(up') = Len(up) - 1
        /\ \A i \in 1 .. Len(up) - 1 : up'[i] = up[i + 1]
        /\ Head(up) = up[1] /\ Head(up) \in Range(up) /\ Range(up') \subseteq Range(up)
        /\ up \in Seq(UpFrame) /\ up' \in Seq(UpFrame)
    BY <2>1, HeadUp DEF EndsTypeOK, LinkTypeOK
  <2>3. /\ \A i \in 1 .. Len(up') : up'[i] = up[i + 1] /\ i + 1 \in 1 .. Len(up)
        /\ 1 \in 1 .. Len(up)
    BY <2>2
  <2> QED
    BY <2>1, <2>2, <2>3
<1>2. tx' = "none" => btx' = Nil /\ \A f \in Range(up') : f.cmd \notin TxCmds \cup {"BEGIN"}
    BY <1>1, TakesTx DEF TxOK
<1>3. ASSUME NEW k \in 1 .. Len(up'), up'[k].cmd = "BEGIN"
      PROVE  btx' = Nil /\ \A j \in 1 .. k - 1 : up'[j].cmd \notin TxCmds \cup {"BEGIN"}
  <2>1. k + 1 \in 1 .. Len(up) /\ up[k + 1].cmd = "BEGIN"
    BY <1>1, <1>3
  <2>2. btx = Nil /\ \A j \in 1 .. k : up[j].cmd \notin TxCmds \cup {"BEGIN"}
    BY <2>1 DEF TxOK
  <2>3. Head(up).cmd # "BEGIN"
    BY <1>1, <2>2
  <2>4. \A j \in 1 .. k - 1 : up'[j] = up[j + 1] /\ j + 1 \in 1 .. k
    BY <1>1
  <2> QED
    BY <2>2, <2>3, <2>4, TakesTx
<1>4. ASSUME NEW k \in 1 .. Len(up'), up'[k].cmd \in TxCmds
      PROVE  btx' # Nil \/ \E j \in 1 .. k - 1 : up'[j].cmd = "BEGIN"
  <2>1. k + 1 \in 1 .. Len(up) /\ up[k + 1].cmd \in TxCmds
    BY <1>1, <1>4
  <2>2. CASE btx # Nil
    <3>1. Head(up).cmd # "ABORT"
        BY <1>1, <2>1 DEF TxOK
    <3> QED
        BY <2>2, <3>1, TakesTx
  <2>3. CASE btx = Nil
    <3>1. PICK j \in 1 .. k : up[j].cmd = "BEGIN"
        BY <2>1, <2>3 DEF TxOK
    <3>2. CASE j = 1
        BY <1>1, <2>3, <3>1, <3>2, TakesTx
    <3>3. CASE j # 1
      <4>1. j - 1 \in 1 .. k - 1 /\ up'[j - 1] = up[j]
        BY <1>1, <3>1, <3>3
      <4> QED
        BY <3>1, <4>1
    <3> QED
        BY <3>2, <3>3
  <2> QED
    BY <2>2, <2>3
<1>5. ASSUME NEW k \in 1 .. Len(up'), up'[k].cmd \in {"COMMIT", "ABORT"}
      PROVE  /\ tx' = "closed"
             /\ \A j \in k + 1 .. Len(up') : up'[j].cmd \notin TxCmds \cup {"BEGIN"}
  <2>1. k + 1 \in 1 .. Len(up) /\ up[k + 1].cmd \in {"COMMIT", "ABORT"}
    BY <1>1, <1>5
  <2>2. tx = "closed" /\ \A j \in k + 2 .. Len(up) : up[j].cmd \notin TxCmds \cup {"BEGIN"}
    BY <2>1 DEF TxOK
  <2>3. \A j \in k + 1 .. Len(up') : up'[j] = up[j + 1] /\ j + 1 \in k + 2 .. Len(up)
    BY <1>1
  <2> QED
    BY <2>2, <2>3
<1>6. ASSUME tx' = "open", bconn' = "open"
      PROVE  btx' # Nil \/ \E f \in Range(up') : f.cmd = "BEGIN"
  <2>1. CASE btx # Nil
    <3>1. Head(up).cmd # "ABORT"
        BY <1>1, <1>6 DEF TxOK
    <3> QED
        BY <2>1, <3>1, TakesTx
  <2>2. CASE btx = Nil
    <3>1. PICK f \in Range(up) : f.cmd = "BEGIN"
        BY <1>1, <1>6, <2>2 DEF TxOK
    <3>2. PICK j \in 1 .. Len(up) : f = up[j]
        BY <1>1, InRange
    <3>3. CASE j = 1
        BY <1>1, <2>2, <3>1, <3>2, <3>3, TakesTx
    <3>4. CASE j # 1
      <4>1. j - 1 \in 1 .. Len(up') /\ up'[j - 1] = f
        BY <1>1, <3>2, <3>4
      <4>2. f \in Range(up')
        BY <1>1, <4>1, InRange
      <4> QED
        BY <3>1, <4>2
    <3> QED
        BY <3>3, <3>4
  <2> QED
    BY <2>1, <2>2
<1> QED
    BY <1>2, <1>3, <1>4, <1>5, <1>6 DEF TxOK

\* A frame is added.
LEMMA TxAdd ==
    ASSUME EndsTypeOK, TxOK, UserStep, NEW f \in UpFrame, Adds(f), Origin(f)
    PROVE  TxOK'
<1>1. /\ up \in Seq(UpFrame) /\ up' \in Seq(UpFrame) /\ Len(up) \in Nat /\ Len(up') = Len(up) + 1
      /\ \A i \in 1 .. Len(up) : up'[i] = up[i]
      /\ up'[Len(up) + 1] = f
      /\ Range(up') = Range(up) \cup {f}
    BY AppendRange DEF EndsTypeOK, LinkTypeOK, Adds
<1>2. /\ btx' = btx /\ bconn = "open" /\ tx \in {"none", "open", "closed"}
    BY DEF UserStep, sessVars, Adds, EndsTypeOK, CallTypeOK
<1>3. /\ tx' = "none" => tx = "none" /\ f.cmd \notin TxCmds \cup {"BEGIN"}
      /\ f.cmd = "BEGIN" => tx = "none"
      /\ f.cmd \in TxCmds => tx = "open"
      /\ f.cmd \in {"COMMIT", "ABORT"} => tx' = "closed"
      /\ tx = "closed" => tx' = "closed" /\ f.cmd \notin TxCmds \cup {"BEGIN"}
      /\ tx' = "open" => tx = "open" \/ f.cmd = "BEGIN"
    BY DEF Origin, TxCmds
<1>4. tx' = "none" => btx' = Nil /\ \A g \in Range(up') : g.cmd \notin TxCmds \cup {"BEGIN"}
    BY <1>1, <1>2, <1>3 DEF TxOK
<1>5. \A j \in 1 .. Len(up) : up[j] \in Range(up)
    BY <1>1, InRange
<1>6. ASSUME NEW k \in 1 .. Len(up')
      PROVE  k \in 1 .. Len(up) \/ k = Len(up) + 1
    BY <1>1
<1>7. ASSUME NEW k \in 1 .. Len(up'), up'[k].cmd = "BEGIN"
      PROVE  btx' = Nil /\ \A j \in 1 .. k - 1 : up'[j].cmd \notin TxCmds \cup {"BEGIN"}
  <2>1. CASE k \in 1 .. Len(up)
    BY <1>1, <1>2, <1>7, <2>1 DEF TxOK
  <2>2. CASE k = Len(up) + 1
    <3>1. tx = "none"
        BY <1>1, <1>3, <1>7, <2>2
    <3>2. btx = Nil /\ \A j \in 1 .. Len(up) : up[j].cmd \notin TxCmds \cup {"BEGIN"}
        BY <1>5, <3>1 DEF TxOK
    <3> QED
        BY <1>1, <1>2, <2>2, <3>2
  <2> QED
    BY <1>6, <2>1, <2>2
<1>8. ASSUME NEW k \in 1 .. Len(up'), up'[k].cmd \in TxCmds
      PROVE  btx' # Nil \/ \E j \in 1 .. k - 1 : up'[j].cmd = "BEGIN"
  <2>1. CASE k \in 1 .. Len(up)
    <3>1. btx # Nil \/ \E j \in 1 .. k - 1 : up[j].cmd = "BEGIN"
        BY <1>1, <1>8, <2>1 DEF TxOK
    <3>2. \A j \in 1 .. k - 1 : up'[j] = up[j]
        BY <1>1, <2>1
    <3> QED
        BY <1>2, <3>1, <3>2
  <2>2. CASE k = Len(up) + 1
    <3>1. tx = "open"
        BY <1>1, <1>3, <1>8, <2>2
    <3>2. CASE btx # Nil
        BY <1>2, <3>2
    <3>3. CASE btx = Nil
      <4>1. PICK g \in Range(up) : g.cmd = "BEGIN"
        BY <1>2, <3>1, <3>3 DEF TxOK
      <4>2. PICK j \in 1 .. Len(up) : g = up[j]
        BY <1>1, InRange
      <4>3. j \in 1 .. k - 1 /\ up'[j].cmd = "BEGIN"
        BY <1>1, <2>2, <4>1, <4>2
      <4> QED
        BY <4>3
    <3> QED
        BY <3>2, <3>3
  <2> QED
    BY <1>6, <2>1, <2>2
<1>9. ASSUME NEW k \in 1 .. Len(up'), up'[k].cmd \in {"COMMIT", "ABORT"}
      PROVE  /\ tx' = "closed"
             /\ \A j \in k + 1 .. Len(up') : up'[j].cmd \notin TxCmds \cup {"BEGIN"}
  <2>1. CASE k \in 1 .. Len(up)
    <3>1. tx = "closed" /\ \A j \in k + 1 .. Len(up) : up[j].cmd \notin TxCmds \cup {"BEGIN"}
        BY <1>1, <1>9, <2>1 DEF TxOK
    <3>2. ASSUME NEW j \in k + 1 .. Len(up')
          PROVE  up'[j].cmd \notin TxCmds \cup {"BEGIN"}
      <4>1. CASE j = Len(up) + 1
        BY <1>1, <1>3, <3>1, <4>1
      <4>2. CASE j \in k + 1 .. Len(up)
        BY <1>1, <2>1, <3>1, <4>2
      <4> QED
        BY <1>1, <2>1, <4>1, <4>2
    <3> QED
        BY <1>3, <3>1, <3>2
  <2>2. CASE k = Len(up) + 1
    BY <1>1, <1>3, <1>9, <2>2
  <2> QED
    BY <1>6, <2>1, <2>2
<1>10. ASSUME tx' = "open", bconn' = "open"
       PROVE  btx' # Nil \/ \E g \in Range(up') : g.cmd = "BEGIN"
    BY <1>1, <1>2, <1>3, <1>10 DEF TxOK
<1> QED
    BY <1>4, <1>7, <1>8, <1>9, <1>10 DEF TxOK

LEMMA TxStep ==
    ASSUME EndsTypeOK, TxOK, [Next]_vars
    PROVE  TxOK'
<1>1. ASSUME up' = up, btx' = btx, tx' = tx, bconn' = "open" => bconn = "open"
      PROVE  TxOK'
    BY <1>1 DEF TxOK
<1>2. CASE UserStep
  <2>1. ASSUME NEW f \in UpFrame, Adds(f), Origin(f)
        PROVE  TxOK'
    BY <1>2, <2>1, TxAdd
  <2>2. CASE up' = up
    <3>1. btx' = btx /\ bconn' = bconn
        BY <1>2 DEF UserStep, sessVars, UserCall, Connect, BeginTransaction, Disconnect, Subscribe,
            Unsubscribe, Send, TxSend, EndTransaction, Call, StoreSubscription, MapFault, ReaderStep,
            ReadConnected, ReadMessage, LookUpSubscription, SendAck, PushAck, ReadReceipt,
            ReadError, DisconnectOnError, ReadEnd, linkVars
    <3>2. CASE tx' = tx
        BY <1>1, <2>2, <3>1, <3>2
    <3>3. CASE tx = "none" /\ tx' = "open"
      <4>1. ~Adds(Frame("BEGIN", Nil, Nil))
        <5>1. Frame("BEGIN", Nil, Nil) \in UpFrame /\ up \in Seq(UpFrame)
            BY DEF Frame, UpFrame, EndsTypeOK, LinkTypeOK
        <5>2. Len(Append(up, Frame("BEGIN", Nil, Nil))) = Len(up) + 1 /\ Len(up) \in Nat
            BY <5>1, AppendRange
        <5> QED
            BY <2>2, <5>2 DEF Adds
      <4>2. bconn' # "open"
        BY <1>2, <3>1, <3>3, <4>1, UserTx
      <4> QED
        BY <2>2, <3>1, <3>3, <4>2 DEF TxOK
    <3>4. CASE tx = "open" /\ tx' = "closed"
        BY <2>2, <3>1, <3>4 DEF TxOK
    <3> QED
        BY <1>2, <3>2, <3>3, <3>4, UserTx
  <2> QED
    BY <1>2, <2>1, <2>2, UserFrames
<1>3. CASE BrokerStep /\ BrokerTakes
    BY <1>3, TxTake DEF BrokerStep, userVars, callVars
<1>4. CASE BrokerStep /\ ~BrokerTakes
  <2>1. up' = up /\ btx' = btx /\ tx' = tx /\ (bconn' = "open" => bconn = "open")
    BY <1>4, BrokerFrames DEF BrokerStep, userVars, callVars
  <2> QED
    BY <1>1, <2>1
<1>5. CASE OtherStep
  <2>1. up' = up /\ tx' = tx /\ (bconn' = "open" => bconn = "open")
    BY <1>5, OtherFrames DEF userVars, callVars
  <2>2. CASE btx' = btx
    BY <1>1, <2>1, <2>2
  <2>3. ASSUME NEW i \in SubsIDs, Buffers(i)
        PROVE  TxOK'
    <3>1. PICK h \in SendHeaders : btx' = Append(btx, <<i, h>>)
        BY <2>3 DEF Buffers
    <3>2. btx \in Seq(SubsIDs \X SendHeaders) /\ btx # Nil
        BY <2>3 DEF Buffers, EndsTypeOK, SessTypeOK
    <3>3. btx' \in Seq(SubsIDs \X SendHeaders)
        BY <3>1, <3>2
    <3>4. btx' # Nil
        BY <3>3, NilFacts
    <3>5. ~\E k \in 1 .. Len(up) : up[k].cmd = "BEGIN"
        BY <3>2 DEF TxOK
    <3> QED
        BY <2>1, <3>2, <3>4, <3>5 DEF TxOK
  <2>4. ASSUME NEW i \in SubsIDs, Locks(i) \/ Writes(i) \/ Displaces(i)
        PROVE  btx' = btx
    BY <2>4 DEF Locks, Writes, Displaces, sessVars
  <2>5. Dies => btx' = btx
    BY DEF Dies
  <2> QED
    BY <1>5, <2>2, <2>3, <2>4, <2>5, OtherFrames
<1>6. CASE UNCHANGED vars
    BY <1>1, <1>6 DEF vars, clientVars, linkVars, userVars, callVars, sessVars
<1> QED
    BY <1>2, <1>3, <1>4, <1>5, <1>6, Steps

----------------------------------------------------------------------------
\* why changes when a frame is refused, and then only this once.
LEMMA WhyStep ==
    ASSUME EndsTypeOK, EndsOK, [Next]_vars
    PROVE  why' = why \/ (why = "" /\ bpc = "idle" /\ BrokerStep /\ BrokerTakes)
<1>1. CASE UserStep \/ UNCHANGED vars
    BY <1>1 DEF UserStep, vars, sessVars
<1>2. CASE BrokerStep /\ BrokerTakes
    BY <1>2, TakesHead DEF EndsOK
<1>3. CASE BrokerStep /\ ~BrokerTakes
    BY <1>3, BrokerFrames
<1>4. CASE OtherStep
    BY <1>4, OtherFrames
<1> QED
    BY <1>1, <1>2, <1>3, <1>4, Steps

LEMMA SmallRanges ==
    Range(<<>>) = {} /\ \A f : Range(<<f>>) = {f}
<1>1. Range(<<>>) = {}
    BY DEF Range
<1>2. ASSUME NEW f
      PROVE  Range(<<f>>) = {f}
  <2>1. DOMAIN <<f>> = {1} /\ <<f>>[1] = f
    OBVIOUS
  <2> QED
    BY <2>1 DEF Range
<1> QED
    BY <1>1, <1>2

\* The frames of a session that has taken one.
LEMMA TakesOut ==
    ASSUME EndsTypeOK, BrokerStep, BrokerTakes
    PROVE  /\ \/ why' = why /\ \A f \in Range(bout') : f.cmd # "ERROR" \/ f \in Range(bout)
              \/ /\ why' = "login" /\ bpc' = "write" /\ after' = "end"
                 /\ \A f \in Range(bout') : f.cmd = "ERROR"
              \/ bout' = <<>> /\ bpc' = "write" /\ after' = "end"
           /\ \/ TakeConnect
              \/ /\ bHb' = bHb /\ bJob' = bJob
                 /\ bout' = bout \/ \A f \in Range(bout') : f.cmd # "CONNECTED"
<1> USE FrameFields DEF Reply, Drop, Continues
<1>1. \A f : Range(<<f>>) = {f}
    BY SmallRanges
<1>2. Range(<<>>) = {}
    BY SmallRanges
<1>3. CASE TakeConnect
    BY <1>1, <1>3 DEF TakeConnect
<1>4. CASE DenyConnect
    BY <1>1, <1>4 DEF DenyConnect
<1>5. CASE TakeSubscribe \/ TakeUnsubscribe \/ TakeSendIn \/ TakeAck \/ TakeBegin
    BY <1>2, <1>5 DEF TakeSubscribe, TakeUnsubscribe, TakeSendIn, TakeAck, TakeBegin
<1>6. CASE TakeSend
    BY <1>1, <1>6 DEF TakeSend, Message
<1>7. CASE TakeSendTx \/ TakeAbort
    BY <1>2, <1>7 DEF TakeSendTx, TakeAbort, TakeInTx
<1>8. CASE TakeCommit
  <2>1. CASE btx = Nil
    BY <1>2, <1>8, <2>1 DEF TakeCommit, TakeInTx
  <2>2. CASE btx # Nil
    <3>1. bout' = [k \in DOMAIN btx |-> Message(btx[k][1], btx[k][2])]
        BY <1>8, <2>2 DEF TakeCommit, TakeInTx
    <3>3. \A k \in DOMAIN bout' : bout'[k].cmd = "MESSAGE"
        BY <3>1 DEF Message, Frame
    <3>2. \A f \in Range(bout') : f.cmd = "MESSAGE"
        BY <3>3 DEF Range
    <3> QED
        BY <1>8, <2>2, <3>2 DEF TakeCommit, TakeInTx
  <2> QED
    BY <2>1, <2>2
<1>9. CASE TakeDisconnect
    BY <1>1, <1>9 DEF TakeDisconnect
<1> QED
    BY <1>3, <1>4, <1>5, <1>6, <1>7, <1>8, <1>9 DEF BrokerTakes

\* What the session refuses.
LEMMA Refuses ==
    ASSUME EndsTypeOK, TxOK, DropOK, BrokerTakes, why' # why
    PROVE  why' \in {"login", "SENDIN", "UNSUBSCRIBE"} \/ (why' = "ACK" /\ ~Ordinary)
<1>1. /\ up # <<>> /\ Head(up) \in Range(up) /\ Head(up) = up[1] /\ 1 \in 1 .. Len(up)
      /\ bpc = "idle"
    BY TakesHead, HeadUp
<1>2. why = ""
    BY <1>1 DEF DropOK, EndsOK
<1>3. CASE TakeUnsubscribe \/ TakeSendIn \/ DenyConnect
    BY <1>3 DEF TakeUnsubscribe, TakeSendIn, DenyConnect, Drop, Reply
<1>4. CASE TakeAck
  <2>1. why' = "ACK" /\ Head(up).cmd = "ACK" /\ Head(up).id \notin routed
    BY <1>4 DEF TakeAck, Takes, Drop, Reply
  <2> QED
    BY <1>1, <2>1 DEF DropOK, CauseOK
<1>5. CASE TakeBegin
    BY <1>1, <1>5 DEF TakeBegin, Takes, TxOK
<1>6. CASE TakeSendTx \/ TakeCommit \/ TakeAbort
  <2>1. Head(up).cmd \in TxCmds /\ btx = Nil
    BY <1>6 DEF TakeSendTx, TakeCommit, TakeAbort, TakeInTx, Takes, TxCmds
  <2> QED
    BY <1>1, <2>1 DEF TxOK
<1>7. CASE TakeConnect \/ TakeSubscribe \/ TakeSend \/ TakeDisconnect
    BY <1>7 DEF TakeConnect, TakeSubscribe, TakeSend, TakeDisconnect
<1> QED
    BY <1>3, <1>4, <1>5, <1>6, <1>7 DEF BrokerTakes

LEMMA DropUser ==
    ASSUME EndsTypeOK, [Next]_vars
    PROVE  /\ left \subseteq left' /\ (byeSent => byeSent')
           /\ (odd => odd') /\ displaced \subseteq displaced'
           /\ rd' = "bye" => rd = "bye" \/ \E f \in Range(down) : f.cmd = "ERROR"
           /\ \/ held' = held \/ held' = Nil
              \/ \E f \in Range(down) : f.cmd = "MESSAGE" /\ held' = f
<1>1. CASE UserStep
    BY <1>1, UserIDs DEF UserStep, sessVars, regVars
<1>2. CASE BrokerStep
    BY <1>2, BrokerRoutes DEF userVars, callVars, readerVars
<1>3. CASE OtherStep
  <2>1. UNCHANGED <<left, byeSent, odd, rd, held>>
    BY <1>3 DEF OtherStep, userVars, callVars, readerVars
  <2>2. displaced \subseteq displaced'
    BY <1>3, OtherFrames DEF Locks, Writes, Displaces, Buffers, Dies, sessVars, regVars
  <2> QED
    BY <2>1, <2>2
<1>4. CASE UNCHANGED vars
    BY <1>4 DEF vars, clientVars, userVars, callVars, readerVars, sessVars, regVars
<1> QED
    BY <1>1, <1>2, <1>3, <1>4, Steps

LEMMA EndsStep ==
    ASSUME EndsTypeOK, EndsOK, [Next]_vars
    PROVE  EndsOK'
<1> USE DEF EndsOK
<1>1. rd' = "bye" => why = "login"
    BY DropUser
<1>2. Range(<<>>) = {}
    BY SmallRanges
<1>3. CASE BrokerStep /\ BrokerTakes
  <2>1. why = "" /\ down' = down
    BY <1>3, TakesHead
  <2> QED
    BY <1>1, <1>2, <1>3, <2>1, TakesOut
<1>4. CASE BrokerStep /\ ~BrokerTakes
  <2>1. why' = why
    BY <1>4, BrokerFrames
  <2>2. Range(bout') \subseteq Range(bout)
    BY <1>4, BrokerFrames, HeadOut
  <2>3. \A f \in Range(down') \cup Range(bout') : f.cmd = "ERROR" => why' = "login"
    <3>1. \A i \in pubs, h \in SendHeaders : Message(i, h).cmd = "MESSAGE"
        BY DEF Message, Frame
    <3> QED
        BY <2>1, <2>2, <3>1, DownFrom
  <2>4. ASSUME why' # ""
        PROVE  bpc' = "ended" \/ (bpc' = "write" /\ after' = "end")
    <3>1. /\ bpc = "ended" \/ (bpc = "write" /\ after = "end")
          /\ \A f \in Range(bout) : f.cmd = "ERROR"
        BY <2>1, <2>4
    <3>2. bout # <<>> => Head(bout).cmd = "ERROR"
        BY <3>1, HeadOut
    <3>3. bpc # "send"
        BY <3>1
    <3> QED
        BY <1>4, <3>1, <3>2, <3>3, BrokerFrames
  <2> QED
    BY <1>1, <2>1, <2>2, <2>3, <2>4
<1>5. CASE ~BrokerStep
  <2>1. why' = why /\ ((UNCHANGED <<bpc, bout, after>>) \/ (bpc' = "ended" /\ bout' = <<>>))
    <3>1. CASE UserStep \/ UNCHANGED vars
        BY <3>1 DEF UserStep, vars, sessVars
    <3>2. CASE OtherStep
        BY <3>2, OtherFrames DEF Locks, Writes, Displaces, Buffers, Dies, sessVars
    <3> QED
        BY <1>5, <3>1, <3>2, Steps
  <2>2. \A i \in pubs, h \in SendHeaders : Message(i, h).cmd = "MESSAGE"
    BY DEF Message, Frame
  <2>3. Range(bout') \subseteq Range(bout)
    BY <1>2, <2>1
  <2> QED
    BY <1>1, <1>5, <2>1, <2>2, <2>3, DownFrom
<1> QED
    BY <1>3, <1>4, <1>5

LEMMA CauseStep ==
    ASSUME EndsTypeOK, EndsOK, CauseOK, [Next]_vars
    PROVE  CauseOK'
<1>1. \A f \in Range(up') : f.cmd = "UNSUBSCRIBE" => left' # {}
    BY UpFrom, DropUser DEF CauseOK, Origin
<1>2. \A f \in Range(up') : f.cmd = "DISCONNECT" => byeSent' \/ why' = "login"
  <2> SUFFICES ASSUME NEW f \in Range(up'), f.cmd = "DISCONNECT", ~byeSent'
               PROVE  why' = "login"
    OBVIOUS
  <2>1. why = "login"
    <3>1. CASE f \in Range(up)
        BY <3>1, DropUser DEF CauseOK
    <3>2. CASE Origin(f)
        BY <3>2 DEF Origin, EndsOK
    <3> QED
        BY <3>1, <3>2, UpFrom
  <2> QED
    BY <2>1, WhyStep
<1>3. ASSUME Ordinary'
      PROVE  /\ pubs' \subseteq routed'
             /\ bpc' = "send" => Head(bout').id \in routed'
             /\ \A f \in Range(down') : f.cmd = "MESSAGE" => f.id \in routed'
             /\ \A f \in Range(up') : f.cmd = "ACK" => f.id \in routed'
             /\ held' # Nil => held'.id \in routed'
  <2>1. Ordinary /\ displaced' = {} /\ ~odd'
    BY <1>3, DropUser DEF Ordinary
  <2>2. /\ pubs \subseteq routed
        /\ bpc = "send" => Head(bout).id \in routed
        /\ \A f \in Range(down) : f.cmd = "MESSAGE" => f.id \in routed
        /\ \A f \in Range(up) : f.cmd = "ACK" => f.id \in routed
        /\ held # Nil => held.id \in routed
    BY <2>1 DEF CauseOK
  <2>3. routed \subseteq routed' /\ pubs' \subseteq pubs \cup routed
    <3>1. CASE UserStep \/ UNCHANGED vars
        BY <3>1 DEF UserStep, vars, sessVars, regVars, otherVars
    <3>2. CASE BrokerStep
      <4>1. ~\E f \in Range(up) : f.cmd = "UNSUBSCRIBE"
        BY <2>1 DEF CauseOK, Ordinary
      <4>2. bpc = "idle" => ~\E f \in Range(up) : f.cmd = "DISCONNECT"
        BY <2>1 DEF CauseOK, EndsOK, Ordinary
      <4> QED
        BY <2>1, <3>2, <4>1, <4>2, BrokerRoutes
    <3>3. CASE OtherStep
      <4>1. ASSUME NEW i \in SubsIDs, Displaces(i)
            PROVE  FALSE
        BY <2>1, <4>1 DEF Displaces
      <4>2. ASSUME NEW i \in SubsIDs, Locks(i) \/ Writes(i) \/ Buffers(i)
            PROVE  routed' = routed /\ pubs' \subseteq pubs \cup routed
        BY <4>2 DEF Locks, Writes, Buffers, sessVars, regVars
      <4>3. Dies => routed' = routed /\ pubs' \subseteq pubs \cup routed
        BY DEF Dies
      <4> QED
        BY <3>3, <4>1, <4>2, <4>3, OtherFrames
    <3> QED
        BY <3>1, <3>2, <3>3, Steps
  <2>8. bpc' = "send" => Head(bout').id \in routed
    <3>1. CASE UserStep \/ UNCHANGED vars
        BY <2>2, <3>1 DEF UserStep, vars, sessVars
    <3>2. CASE BrokerStep
        BY <3>2, TakesSend, BrokerFrames
    <3>3. CASE OtherStep
        BY <2>2, <3>3, OtherFrames DEF Locks, Writes, Displaces, Buffers, Dies, sessVars
    <3> QED
        BY <3>1, <3>2, <3>3, Steps
  <2>4. \A i \in pubs, h \in SendHeaders : Message(i, h).id = i
    BY DEF Message, Frame
  <2>5. \A f \in Range(down') : f.cmd = "MESSAGE" => f.id \in routed
    BY <2>2, <2>4, DownFrom
  <2>6. \A f \in Range(up') : f.cmd = "ACK" => f.id \in routed
    <3>1. \A f : Origin(f) /\ f.cmd = "ACK" => f.id = held.id /\ rd = "ack"
        BY <2>1 DEF Origin
    <3>2. rd = "ack" => held # Nil
        BY DEF EndsTypeOK, ReaderTypeOK
    <3> QED
        BY <2>2, <3>1, <3>2, UpFrom
  <2>7. held' # Nil => held'.id \in routed
    BY <2>2, DropUser
  <2> QED
    BY <2>2, <2>3, <2>5, <2>6, <2>7, <2>8
<1> QED
    BY <1>1, <1>2, <1>3 DEF CauseOK

LEMMA DropStep ==
    ASSUME EndsTypeOK, TxOK, DropOK, [Next]_vars
    PROVE  DropOK'
<1>1. EndsOK /\ CauseOK /\ DropIsExplained
    BY DEF DropOK
<1>2. DropIsExplained'
  <2>1. CASE why' = why
    BY <1>1, <2>1, DropUser DEF DropIsExplained
  <2>2. CASE why' # why
    BY <1>1, <2>2, WhyStep, Refuses, DropUser DEF DropIsExplained, Ordinary
  <2> QED
    BY <2>1, <2>2
<1> QED
    BY <1>1, <1>2, EndsStep, CauseStep DEF DropOK

----------------------------------------------------------------------------
\* What the handshake depends on changes in ReadConnected only.
LEMMA UserHandshake ==
    ASSUME UserStep, ~ReadConnected
    PROVE  /\ sessionID' = sessionID /\ cHb' = cHb /\ (~cJob => ~cJob')
           /\ rd' = "off" => rd = "off" /\ up' = up /\ down' = down
<1>1. CASE Connect
    BY <1>1 DEF Connect
<1>2. ASSUME NEW i \in SubsIDs, Subscribe(i) \/ Unsubscribe(i) \/ Send(i) \/ TxSend(i)
      PROVE  readerVars' = readerVars /\ rd # "off"
    BY <1>2 DEF Subscribe, Unsubscribe, Send, TxSend, Call
<1>3. ASSUME \/ BeginTransaction \/ Disconnect
             \/ \E cmd \in {"COMMIT", "ABORT"} : EndTransaction(cmd)
      PROVE  readerVars' = readerVars /\ rd # "off"
    BY <1>3 DEF BeginTransaction, Disconnect, EndTransaction, Call
<1>4. CASE StoreSubscription \/ MapFault
    BY <1>4 DEF StoreSubscription, MapFault, readerVars, linkVars
<1>5. CASE ReaderStep
    BY <1>5 DEF ReaderStep, ReadMessage, LookUpSubscription, SendAck, PushAck, ReadReceipt,
        ReadError, DisconnectOnError, ReadEnd, Reads, ReaderEnds
<1> QED
    BY <1>1, <1>2, <1>3, <1>4, <1>5 DEF UserStep, UserCall, readerVars

\* One frame fewer on the way to the client.
LEMMA OnceTail ==
    ASSUME EndsTypeOK, OnceOK, down # <<>>, down' = Tail(down), bout' = bout
    PROVE  /\ OnceOK'
           /\ Head(down).cmd = "CONNECTED" => NoConnected'
<1>1. /\ Range(down') \subseteq Range(down) /\ Len(down') = Len(down) - 1
      /\ Len(down) \in Nat \ {0} /\ Head(down) = down[1] /\ Head(down) \in Range(down)
      /\ \A i \in 1 .. Len(down) - 1 : down'[i] = down[i + 1]
    BY HeadDown
<1>2. \A i \in 1 .. Len(down') :
          down'[i] = down[i + 1] /\ i + 1 \in 2 .. Len(down) /\ i + 1 \in 1 .. Len(down)
    BY <1>1
<1>3. \A j, k \in 1 .. Len(down') :
          down'[j].cmd = "CONNECTED" /\ down'[k].cmd = "CONNECTED" => j = k
  <2> SUFFICES ASSUME NEW j \in 1 .. Len(down'), NEW k \in 1 .. Len(down'),
                      down'[j].cmd = "CONNECTED", down'[k].cmd = "CONNECTED"
               PROVE  j = k
    OBVIOUS
  <2>1. j + 1 = k + 1
    BY <1>2 DEF OnceOK
  <2> QED
    BY <1>1, <2>1
<1>4. OnceOK'
    BY <1>1, <1>3 DEF OnceOK
<1>5. ASSUME Head(down).cmd = "CONNECTED"
      PROVE  NoConnected'
  <2>1. \A f \in Range(down') : \E i \in 1 .. Len(down') : f = down'[i]
    <3>1. down' \in Seq(DownFrame)
        BY HeadDown
    <3>2. PICK d \in Seq(DownFrame) : d = down'
        BY <3>1
    <3>3. \A f \in Range(d) : \E i \in 1 .. Len(d) : f = d[i]
        BY InRange
    <3> QED
        BY <3>2, <3>3
  <2>2. \A i \in 2 .. Len(down) : down[i].cmd # "CONNECTED"
    <3>1. down[1].cmd = "CONNECTED" /\ 1 \in 1 .. Len(down)
        BY <1>1, <1>5
    <3>2. \A i \in 2 .. Len(down) : i \in 1 .. Len(down) /\ i # 1
        BY <1>1
    <3> QED
        BY <3>1, <3>2 DEF OnceOK
  <2>3. \A f \in Range(down') : f.cmd # "CONNECTED"
    BY <1>2, <2>1, <2>2
  <2>4. \A f \in Range(bout) : f.cmd # "CONNECTED"
    BY <1>1, <1>5 DEF OnceOK
  <2> QED
    BY <2>3, <2>4 DEF NoConnected
<1> QED
    BY <1>4, <1>5

LEMMA HandshakeUser ==
    ASSUME EndsTypeOK, HandshakeInv, UserStep
    PROVE  HandshakeInv'
<1>1. bout' = bout /\ bHb' = bHb /\ bJob' = bJob
    BY DEF UserStep, sessVars
<1>2. ConnectOK /\ OnceOK /\ AnswerOK /\ HeartbeatAgreement
    BY DEF HandshakeInv, HandshakeOK
<1>3. OnceOK' /\ Range(down') \subseteq Range(down)
  <2>1. CASE down' = down
    BY <1>1, <1>2, <2>1 DEF OnceOK
  <2>2. CASE down # <<>> /\ down' = Tail(down)
    BY <1>1, <1>2, <2>2, OnceTail, HeadDown
  <2> QED
    BY <2>1, <2>2, UserTakes
<1>4. CASE ReadConnected
  <2>1. /\ down # <<>> /\ Head(down).cmd = "CONNECTED" /\ down' = Tail(down)
        /\ up' = up /\ rd' = rd /\ rd = "idle"
        /\ cHb' = <<Negotiate(cHb[1], Head(down).hdr[2]), Negotiate(cHb[2], Head(down).hdr[1])>>
        /\ cJob' = (cHb'[1] # 0)
    BY <1>4 DEF ReadConnected, Reads
  <2>2. Head(down) \in Range(down)
    BY <2>1, HeadDown
  <2>3. NoConnected'
    BY <1>1, <1>2, <2>1, OnceTail
  <2>4. \A k \in 1 .. Len(up) : up[k].cmd # "CONNECT"
    BY <1>2, <2>1, <2>2 DEF ConnectOK, NoConnected
  <2>5. ConnectOK' /\ AnswerOK'
    BY <2>1, <2>3, <2>4 DEF ConnectOK, AnswerOK, NoConnected
  <2>6. HeartbeatAgreement'
    <3>1. /\ Head(down).hdr = bHb
          /\ \/ cHb = <<0, 0>> /\ ~bJob
             \/ /\ Negotiate(cHb[1], bHb[2]) = bHb[2]
                /\ Negotiate(cHb[2], bHb[1]) = bHb[1]
        BY <1>2, <2>1, <2>2 DEF AnswerOK
    <3>2. CASE cHb = <<0, 0>> /\ ~bJob
      <4>1. bHb[1] \in Nat /\ bHb[2] \in Nat
        BY DEF EndsTypeOK, SessTypeOK, Hb
      <4>2. cHb' = <<0, 0>>
        BY <2>1, <3>1, <3>2, <4>1, Negotiated
      <4>3. ~cJob'
        <5>1. cHb'[1] = 0
            BY <4>2
        <5>2. ~(cHb'[1] # 0)
            BY <5>1
        <5>3. cJob' = FALSE
            BY <2>1, <5>2, Zenon
        <5> QED
            BY <5>3
      <4>4. ~bJob'
        BY <1>1, <3>2
      <4> QED
        BY <4>2, <4>3, <4>4 DEF HeartbeatAgreement
    <3>3. CASE Negotiate(cHb[1], bHb[2]) = bHb[2] /\ Negotiate(cHb[2], bHb[1]) = bHb[1]
        BY <1>1, <2>1, <3>1, <3>3 DEF HeartbeatAgreement
    <3> QED
        BY <3>1, <3>2, <3>3
  <2> QED
    BY <1>3, <2>5, <2>6 DEF HandshakeInv, HandshakeOK
<1>5. CASE ~ReadConnected
  <2>1. /\ sessionID' = sessionID /\ cHb' = cHb /\ (~cJob => ~cJob')
        /\ rd' = "off" => rd = "off" /\ up' = up /\ down' = down
    BY <1>5, UserHandshake
  <2>2. NoConnected => NoConnected'
    BY <1>1, <1>3 DEF NoConnected
  <2>3. AnswerOK' /\ HeartbeatAgreement'
    <3>1. AnswerOK'
        BY <1>1, <1>2, <1>3, <2>1 DEF AnswerOK
    <3>2. HeartbeatAgreement'
        BY <1>1, <1>2, <2>1 DEF HeartbeatAgreement
    <3> QED
        BY <3>1, <3>2
  <2>4. rd' = "off" => up' = <<>> /\ ~sessionID' /\ ~bJob' /\ NoConnected'
    BY <1>1, <1>2, <2>1, <2>2 DEF ConnectOK
  <2>5. ASSUME NEW k \in 1 .. Len(up'), up'[k].cmd = "CONNECT"
        PROVE  /\ k = 1 /\ up'[k].hdr = IF cHb' = <<0, 0>> THEN Nil ELSE cHb'
               /\ ~sessionID' /\ ~bJob' /\ NoConnected'
    <3>1. CASE k \in 1 .. Len(up) /\ up'[k] = up[k]
        BY <1>1, <1>2, <2>1, <2>2, <2>5, <3>1 DEF ConnectOK
    <3>2. CASE k = Len(up) + 1 /\ Origin(up'[k])
      <4>1. rd = "off" /\ up'[k].hdr = IF cHb = <<0, 0>> THEN Nil ELSE cHb
        BY <2>5, <3>2 DEF Origin
      <4>2. up = <<>> /\ ~sessionID /\ ~bJob /\ NoConnected
        BY <1>2, <4>1 DEF ConnectOK
      <4>3. k = 1
        BY <3>2, <4>2
      <4> QED
        BY <1>1, <2>1, <2>2, <4>1, <4>2, <4>3
    <3>3. up \in Seq(UpFrame) /\ Len(up) \in Nat
        BY LenProperties DEF EndsTypeOK, LinkTypeOK
    <3>4. ASSUME NEW f \in UpFrame, Adds(f), Origin(f)
          PROVE  (k \in 1 .. Len(up) /\ up'[k] = up[k]) \/ (k = Len(up) + 1 /\ Origin(up'[k]))
      <4>1. /\ Len(up') = Len(up) + 1 /\ up'[Len(up) + 1] = f
            /\ \A i \in 1 .. Len(up) : up'[i] = up[i]
        BY <3>3, <3>4, AppendRange DEF Adds
      <4>2. k \in 1 .. Len(up) \/ k = Len(up) + 1
        BY <3>3, <4>1
      <4> QED
        BY <3>4, <4>1, <4>2
    <3> QED
        BY <3>1, <3>2, <3>4, UserFrames
  <2> QED
    BY <1>3, <2>3, <2>4, <2>5 DEF HandshakeInv, HandshakeOK, ConnectOK
<1> QED
    BY <1>4, <1>5

\* One frame more on the way to the client.
LEMMA OnceAppend ==
    ASSUME EndsTypeOK, OnceOK, NEW f \in DownFrame, down' = Append(down, f),
           f.cmd = "CONNECTED" => \A g \in Range(down) : g.cmd # "CONNECTED"
    PROVE  /\ \A j, k \in 1 .. Len(down') :
                 down'[j].cmd = "CONNECTED" /\ down'[k].cmd = "CONNECTED" => j = k
           /\ Range(down') = Range(down) \cup {f}
<1>1. /\ Len(down') = Len(down) + 1 /\ Len(down) \in Nat
      /\ \A i \in 1 .. Len(down) : down'[i] = down[i]
      /\ down'[Len(down) + 1] = f
      /\ Range(down') = Range(down) \cup {f}
    BY AppendRange DEF EndsTypeOK, LinkTypeOK
<1>2. \A i \in 1 .. Len(down) : down[i] \in Range(down)
    BY InRange DEF EndsTypeOK, LinkTypeOK
<1> SUFFICES ASSUME NEW j \in 1 .. Len(down'), NEW k \in 1 .. Len(down'),
                    down'[j].cmd = "CONNECTED", down'[k].cmd = "CONNECTED"
             PROVE  j = k
    BY <1>1
<1>3. j \in 1 .. Len(down) \/ j = Len(down) + 1
    BY <1>1
<1>4. k \in 1 .. Len(down) \/ k = Len(down) + 1
    BY <1>1
<1>5. CASE f.cmd = "CONNECTED"
  <2>1. \A i \in 1 .. Len(down) : down'[i].cmd # "CONNECTED"
    BY <1>1, <1>2, <1>5
  <2> QED
    BY <1>3, <1>4, <2>1
<1>6. CASE f.cmd # "CONNECTED"
  <2>1. j \in 1 .. Len(down) /\ k \in 1 .. Len(down)
    BY <1>1, <1>3, <1>4, <1>6
  <2>2. down[j].cmd = "CONNECTED" /\ down[k].cmd = "CONNECTED"
    BY <1>1, <2>1
  <2> QED
    BY <2>1, <2>2 DEF OnceOK
<1> QED
    BY <1>5, <1>6

\* Once CONNECT has been taken there is none left.
LEMMA ConnectTaken ==
    ASSUME EndsTypeOK, ConnectOK, BrokerTakes, UNCHANGED readerVars
    PROVE  ConnectOK'
<1>1. /\ up # <<>> /\ up' = Tail(up)
    BY TakesHead
<1>2. rd' # "off"
    BY <1>1 DEF ConnectOK, readerVars
<1>3. \A k \in 1 .. Len(up') : up'[k].cmd # "CONNECT"
  <2> SUFFICES ASSUME NEW k \in 1 .. Len(up'), up'[k].cmd = "CONNECT"
               PROVE  FALSE
    OBVIOUS
  <2>1. /\ Len(up') = Len(up) - 1 /\ Len(up) \in Nat \ {0}
        /\ \A i \in 1 .. Len(up) - 1 : up'[i] = up[i + 1]
    BY <1>1, HeadUp
  <2>2. k + 1 \in 1 .. Len(up) /\ k + 1 # 1 /\ up'[k] = up[k + 1]
    BY <2>1
  <2> QED
    BY <2>2 DEF ConnectOK
<1> QED
    BY <1>2, <1>3 DEF ConnectOK

LEMMA HandshakeTake ==
    ASSUME EndsTypeOK, HandshakeInv, BrokerStep, BrokerTakes
    PROVE  HandshakeInv'
<1>1. ConnectOK /\ OnceOK /\ AnswerOK /\ HeartbeatAgreement
    BY DEF HandshakeInv, HandshakeOK
<1>2. UNCHANGED readerVars /\ down' = down
    BY TakesHead DEF BrokerStep
<1>3. sessionID' = sessionID /\ cHb' = cHb /\ cJob' = cJob
    BY <1>2 DEF readerVars
<1>4. ConnectOK'
    BY <1>1, <1>2, ConnectTaken
<1>5. CASE TakeConnect
  <2>1. up # <<>> /\ Head(up).cmd = "CONNECT" /\ Head(up) = up[1] /\ 1 \in 1 .. Len(up)
    BY <1>5, HeadUp DEF TakeConnect, Takes
  <2>2. /\ Head(up).hdr = IF cHb = <<0, 0>> THEN Nil ELSE cHb
        /\ ~sessionID /\ ~bJob /\ NoConnected
    BY <1>1, <2>1 DEF ConnectOK
  <2> DEFINE f == Frame("CONNECTED", Nil, bHb')
  <2>3. bout' = <<f>> /\ Range(bout') = {f} /\ Len(bout') = 1 /\ f.hdr = bHb'
    <3>1. bout' = <<f>>
        BY <1>5 DEF TakeConnect, Reply
    <3>2. Range(<<f>>) = {f}
        BY SmallRanges
    <3>3. f.hdr = bHb'
        BY DEF Frame
    <3> QED
        BY <3>1, <3>2, <3>3
  <2>4. OnceOK'
    BY <1>1, <1>2, <2>2, <2>3 DEF OnceOK, NoConnected
  <2>5. \/ cHb = <<0, 0>> /\ ~bJob'
        \/ /\ Negotiate(cHb[1], bHb'[2]) = bHb'[2]
           /\ Negotiate(cHb[2], bHb'[1]) = bHb'[1]
    <3>1. CASE cHb = <<0, 0>>
      <4>1. bJob' = bJob
        BY <1>5, <2>2, <3>1 DEF TakeConnect
      <4> QED
        BY <2>2, <3>1, <4>1
    <3>2. CASE cHb # <<0, 0>>
      <4>1. cHb \in Hb /\ bHb \in Hb
        BY DEF EndsTypeOK, ReaderTypeOK, SessTypeOK
      <4>2. Head(up).hdr = cHb /\ Head(up).hdr # Nil
        BY <2>2, <3>2, <4>1, NilFacts
      <4>3. bHb' = <<BrokerNegotiate(bHb[1], cHb[2]), BrokerNegotiate(bHb[2], cHb[1])>>
        BY <1>5, <4>2 DEF TakeConnect
      <4>4. cHb[1] \in Nat /\ cHb[2] \in Nat /\ bHb[1] \in Nat /\ bHb[2] \in Nat
        BY <4>1 DEF Hb
      <4>5. /\ bHb'[1] = Negotiate(bHb[1], cHb[2]) /\ bHb'[2] = Negotiate(bHb[2], cHb[1])
        BY <4>3, <4>4, Negotiated
      <4>6. /\ Negotiate(cHb[2], Negotiate(bHb[1], cHb[2])) = Negotiate(bHb[1], cHb[2])
            /\ Negotiate(cHb[1], Negotiate(bHb[2], cHb[1])) = Negotiate(bHb[2], cHb[1])
        BY <4>4, Negotiated
      <4> QED
        BY <4>5, <4>6
    <3> QED
        BY <3>1, <3>2
  <2>6. AnswerOK'
    BY <1>2, <1>3, <2>2, <2>3, <2>5 DEF AnswerOK, NoConnected
  <2>7. HeartbeatAgreement'
    BY <1>3, <2>2 DEF HeartbeatAgreement
  <2> QED
    BY <1>4, <2>4, <2>6, <2>7 DEF HandshakeInv, HandshakeOK
<1>6. CASE ~TakeConnect
  <2>1. /\ bHb' = bHb /\ bJob' = bJob
        /\ bout' = bout \/ \A f \in Range(bout') : f.cmd # "CONNECTED"
    BY <1>6, TakesOut
  <2>2. OnceOK' /\ AnswerOK'
    BY <1>1, <1>2, <1>3, <2>1 DEF OnceOK, AnswerOK
  <2>3. HeartbeatAgreement'
    BY <1>1, <1>3, <2>1 DEF HeartbeatAgreement
  <2> QED
    BY <1>4, <2>2, <2>3 DEF HandshakeInv, HandshakeOK
<1> QED
    BY <1>5, <1>6

\* A step that changes neither the client nor what the session negotiated, and that
\* brings no CONNECTED.
LEMMA HandshakeKept ==
    ASSUME HandshakeInv, OnceOK', UNCHANGED <<up, rd, sessionID, cHb, cJob, bHb>>, ~bJob => ~bJob',
           \A f \in Range(down') \cup Range(bout') :
              f \in Range(down) \cup Range(bout) \/ f.cmd # "CONNECTED"
    PROVE  HandshakeInv'
<1>1. NoConnected => NoConnected'
    BY DEF NoConnected
<1>2. ConnectOK'
    BY <1>1 DEF HandshakeInv, HandshakeOK, ConnectOK
<1>3. AnswerOK' /\ HeartbeatAgreement'
    BY DEF HandshakeInv, HandshakeOK, AnswerOK, HeartbeatAgreement
<1> QED
    BY <1>2, <1>3 DEF HandshakeInv, HandshakeOK

LEMMA HandshakeBroker ==
    ASSUME EndsTypeOK, HandshakeInv, BrokerStep, ~BrokerTakes
    PROVE  HandshakeInv'
<1>1. OnceOK
    BY DEF HandshakeInv, HandshakeOK
<1>2. UNCHANGED <<up, rd, sessionID, cHb, cJob, bHb>>
    BY BrokerFrames DEF BrokerStep, readerVars
<1>3. bJob' = bJob \/ bJob' = FALSE
    BY BrokerFrames
<1>4. ASSUME bout # <<>>, bout' = Tail(bout)
      PROVE  /\ Range(bout') \subseteq Range(bout)
             /\ \A f \in Range(bout') : f.cmd # "CONNECTED"
  <2>1. Range(bout') \subseteq Range(bout) /\ Len(bout') = Len(bout) - 1 /\ bout' \in Seq(DownFrame)
    BY <1>4, HeadOut
  <2>2. Len(bout) = 1 => bout' = <<>>
    BY <2>1, EmptySeq
  <2> QED
    BY <1>1, <2>1, <2>2, SmallRanges DEF OnceOK
<1>5. CASE bout # <<>> /\ down' = Append(down, Head(bout)) /\ bout' = Tail(bout)
  <2>1. Head(bout) \in DownFrame /\ Head(bout) \in Range(bout)
    BY <1>5, HeadOut
  <2>2. Head(bout).cmd = "CONNECTED" => \A g \in Range(down) : g.cmd # "CONNECTED"
    BY <1>1, <2>1 DEF OnceOK
  <2>3. /\ \A j, k \in 1 .. Len(down') :
              down'[j].cmd = "CONNECTED" /\ down'[k].cmd = "CONNECTED" => j = k
        /\ Range(down') = Range(down) \cup {Head(bout)}
    BY <1>1, <1>5, <2>1, <2>2, OnceAppend
  <2>4. OnceOK'
    BY <1>4, <1>5, <2>3 DEF OnceOK
  <2> QED
    BY <1>2, <1>3, <1>4, <1>5, <2>1, <2>3, <2>4, HandshakeKept
<1>6. CASE bout # <<>> /\ down' = down /\ bout' = Tail(bout)
  <2>1. OnceOK'
    BY <1>1, <1>4, <1>6 DEF OnceOK
  <2> QED
    BY <1>2, <1>3, <1>4, <1>6, <2>1, HandshakeKept
<1>7. CASE bout' = bout /\ (down' = down \/ \E k \in 0 .. Len(down) : down' = SubSeq(down, 1, k))
  <2>1. CASE down' = down
    <3>1. OnceOK'
        BY <1>1, <1>7, <2>1 DEF OnceOK
    <3> QED
        BY <1>2, <1>3, <1>7, <2>1, <3>1, HandshakeKept
  <2>2. ASSUME NEW n \in 0 .. Len(down), down' = SubSeq(down, 1, n)
        PROVE  HandshakeInv'
    <3>1. /\ Len(down') = n /\ Len(down) \in Nat /\ Range(down') \subseteq Range(down)
          /\ \A i \in 1 .. n : down'[i] = down[i]
        BY <2>2, FrontRange DEF EndsTypeOK, LinkTypeOK
    <3>2. \A i \in 1 .. Len(down') : i \in 1 .. Len(down) /\ down'[i] = down[i]
        BY <3>1
    <3>3. OnceOK'
        BY <1>1, <1>7, <3>1, <3>2 DEF OnceOK
    <3> QED
        BY <1>2, <1>3, <1>7, <3>1, <3>3, HandshakeKept
  <2> QED
    BY <1>7, <2>1, <2>2
<1> QED
    BY <1>5, <1>6, <1>7, BrokerFrames

LEMMA HandshakeOther ==
    ASSUME EndsTypeOK, HandshakeInv, OtherStep
    PROVE  HandshakeInv'
<1>1. UNCHANGED <<up, rd, sessionID, cHb, cJob, bHb>>
    BY OtherFrames DEF readerVars
<1>2. OnceOK
    BY DEF HandshakeInv, HandshakeOK
<1>3. CASE down' = down /\ bout' = bout /\ bJob' = bJob
  <2>1. OnceOK'
    BY <1>2, <1>3 DEF OnceOK
  <2> QED
    BY <1>1, <1>3, <2>1, HandshakeKept
<1>4. ASSUME NEW i \in SubsIDs, NEW h \in SendHeaders, down' = Append(down, Message(i, h)),
             bout' = bout, bJob' = bJob
      PROVE  HandshakeInv'
  <2>1. Message(i, h) \in DownFrame /\ Message(i, h).cmd # "CONNECTED"
    BY MessageIsFrame
  <2>2. /\ \A j, k \in 1 .. Len(down') :
              down'[j].cmd = "CONNECTED" /\ down'[k].cmd = "CONNECTED" => j = k
        /\ Range(down') = Range(down) \cup {Message(i, h)}
    BY <1>2, <1>4, <2>1, OnceAppend
  <2>3. OnceOK'
    BY <1>2, <1>4, <2>1, <2>2 DEF OnceOK
  <2> QED
    BY <1>1, <1>4, <2>1, <2>2, <2>3, HandshakeKept
<1>5. CASE Dies
  <2>1. PICK n \in 0 .. Len(down) : down' = SubSeq(down, 1, n)
    BY <1>5 DEF Dies
  <2>2. /\ Len(down') = n /\ Len(down) \in Nat /\ Range(down') \subseteq Range(down)
        /\ \A i \in 1 .. n : down'[i] = down[i]
    BY <2>1, FrontRange DEF EndsTypeOK, LinkTypeOK
  <2>3. \A i \in 1 .. Len(down') : i \in 1 .. Len(down) /\ down'[i] = down[i]
    BY <2>2
  <2>4. Range(bout') = {} /\ bJob' = FALSE
    BY <1>5, SmallRanges DEF Dies
  <2>5. OnceOK'
    BY <1>2, <2>2, <2>3, <2>4 DEF OnceOK
  <2> QED
    BY <1>1, <2>2, <2>4, <2>5, HandshakeKept
<1>6. ASSUME NEW i \in SubsIDs, Locks(i) \/ Writes(i) \/ Displaces(i) \/ Buffers(i)
      PROVE  HandshakeInv'
    BY <1>3, <1>4, <1>6 DEF Locks, Writes, Displaces, Buffers, sessVars
<1> QED
    BY <1>5, <1>6, OtherFrames

LEMMA HandshakeStep ==
    ASSUME EndsTypeOK, HandshakeInv, [Next]_vars
    PROVE  HandshakeInv'
<1>1. CASE UNCHANGED vars
  <2>1. UNCHANGED <<up, down, rd, sessionID, cHb, cJob, bHb, bJob, bout>>
    BY <1>1 DEF vars, clientVars, linkVars, readerVars, sessVars
  <2>2. OnceOK'
    BY <2>1 DEF HandshakeInv, HandshakeOK, OnceOK
  <2> QED
    BY <2>1, <2>2, HandshakeKept
<1> QED
    BY <1>1, Steps, HandshakeUser, HandshakeTake, HandshakeBroker, HandshakeOther

----------------------------------------------------------------------------
LEMMA InvInit ==
    ASSUME Init
    PROVE  CInv
<1>1. Range(up) = {} /\ Range(down) = {} /\ Range(bout) = {} /\ Len(up) = 0 /\ Len(down) = 0
    BY SmallRanges DEF Init, ClientInit
<1>2. 1 .. 0 = {}
    OBVIOUS
<1>3. EndsTypeOK
  <2>1. cHb \in Hb /\ bHb \in Hb
    BY ClientAssumption, ClientBrokerAssumption DEF Hb, Init, ClientInit
  <2>2. <<>> \in Seq(UpFrame) /\ <<>> \in Seq(DownFrame)
    BY EmptySeq
  <2>3. UpCap \in Nat /\ DownCap \in Nat /\ AckChCap \in Nat
        /\ 0 <= UpCap /\ 0 <= DownCap /\ 0 \in 0 .. AckChCap
    BY ClientAssumption
  <2>4. LinkTypeOK /\ SessTypeOK
    BY <1>1, <2>1, <2>2, <2>3 DEF LinkTypeOK, SessTypeOK, Init, ClientInit
  <2>5. CallTypeOK /\ ReaderTypeOK
    BY <2>1, <2>3 DEF CallTypeOK, ReaderTypeOK, Init, ClientInit
  <2> QED
    BY <2>4, <2>5 DEF EndsTypeOK
<1>4. KnownOK
    BY <1>1 DEF KnownOK, Init, ClientInit
<1>5. HandshakeInv
  <2>1. ~sessionID /\ ~bJob
    BY DEF Init, ClientInit
  <2> QED
    BY <1>1, <1>2, <2>1 DEF HandshakeInv, HandshakeOK, ConnectOK, OnceOK, AnswerOK, NoConnected,
        HeartbeatAgreement
<1>6. TxOK
    BY <1>1, <1>2 DEF TxOK, Init, ClientInit
<1>7. DropOK
    BY <1>1 DEF DropOK, EndsOK, CauseOK, DropIsExplained, Init, ClientInit
<1> QED
    BY <1>3, <1>4, <1>5, <1>6, <1>7 DEF CInv

LEMMA InvStep ==
    ASSUME CInv, [Next]_vars
    PROVE  CInv'
    BY TypeStep, KnownStep, HandshakeStep, TxStep, DropStep DEF CInv

LEMMA Invariance == Spec => []CInv
<1>1. Init => CInv
    BY InvInit
<1>2. CInv /\ [Next]_vars => CInv'
    BY InvStep
<1> QED
    BY <1>1, <1>2, PTL DEF Spec

----------------------------------------------------------------------------
(***************************************************************************)
(* Type correctness of the two ends: client.go and the session keep to     *)
(* their states, the reader holds a MESSAGE exactly while it handles one,  *)
(* and the negotiated intervals stay pairs of numbers.                     *)
(***************************************************************************)
THEOREM EndsAreTyped == Spec => []ClientTypeOK
<1>1. CInv => ClientTypeOK
  <2> SUFFICES ASSUME CInv PROVE ClientTypeOK
    OBVIOUS
  <2>1. LinkTypeOK /\ CallTypeOK /\ ReaderTypeOK /\ SessTypeOK
    BY DEF CInv, EndsTypeOK
  <2>2. (held # Nil) = (rd \in {"lookup", "ack", "chan"})
    BY <2>1 DEF ReaderTypeOK
  <2>3. {cHb, bHb} \subseteq Nat \X Nat
    BY <2>1 DEF ReaderTypeOK, SessTypeOK, Hb
  <2> QED
    BY <2>1, <2>2, <2>3
    DEF ClientTypeOK, LinkTypeOK, CallTypeOK, ReaderTypeOK, SessTypeOK, MsgFrame
<1> QED
    BY <1>1, Invariance, PTL

(***************************************************************************)
(* Whatever the two ends were configured with, the negotiateHeartbeats of  *)
(* client.go and of broker.go agree once CONNECTED has been handled: what  *)
(* one sends is what the other expects.                                    *)
(***************************************************************************)
THEOREM HeartbeatsAgree == Spec => []HeartbeatAgreement
<1>1. CInv => HeartbeatAgreement
    BY DEF CInv, HandshakeInv
<1> QED
    BY <1>1, Invariance, PTL

(***************************************************************************)
(* Whatever other clients send, displace and lock, the broker's state      *)
(* machine refuses no BEGIN and no frame of a Transaction of the library,  *)
(* and an ACK only after an UNSUBSCRIBE, a DISCONNECT, a displacement, or  *)
(* the ACK of an id that is not the broker's own.                          *)
(***************************************************************************)
THEOREM DropsAreExplained == Spec => []DropIsExplained
<1>1. CInv => DropIsExplained
    BY DEF CInv, DropOK
<1> QED
    BY <1>1, Invariance, PTL

(***************************************************************************)
(* handleMessage misses the subscription that a MESSAGE was written for    *)
(* only between the write and the store of Subscribe(), unless a header of *)
(* the SEND has replaced it.                                               *)
(***************************************************************************)
THEOREM MissedOnlyWhileSubscribing == Spec => []UnknownOnlyWhileSubscribing
<1>1. CInv => UnknownOnlyWhileSubscribing
  <2> SUFFICES ASSUME CInv, rd = "lookup", held.hdr[1] = held.id, ModeOf(held.id) = Nil
               PROVE  storing = held.id
    BY DEF UnknownOnlyWhileSubscribing
  <2>1. held # Nil /\ held.id \in SubsIDs
    BY DEF CInv, EndsTypeOK, ReaderTypeOK, MsgFrame
  <2>2. subsMap[held.id] = Nil
    BY <2>1 DEF ModeOf
  <2> QED
    BY <2>1, <2>2 DEF CInv, KnownOK, Known
<1> QED
    BY <1>1, Invariance, PTL
=============================================================================
