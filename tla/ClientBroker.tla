---------------------------- MODULE ClientBroker ----------------------------
(***************************************************************************)
(* A ClientHandler and the session of the broker at the other end of its   *)
(* connection.  The session is that of Session and Subscribe, with the     *)
(* registry reduced to which subscriptions of this client it routes.       *)
(* Other clients publish to their destinations, displace them with a       *)
(* SUBSCRIBE for the same destination, and may bring the broker down.      *)
(* What a write may wait for is kept: room in the connection, and the lock *)
(* of a subsInfo that a publisher holds while it writes.                   *)
(***************************************************************************)
EXTENDS Client

CONSTANTS
    BrokerHbOpts,   \* pairs <<send, receive>>: the heartbeat options of the broker
    MaxOther        \* bound: messages of other clients, and the end of the broker

ASSUME ClientBrokerAssumption ==
    /\ BrokerHbOpts \subseteq (Nat \X Nat)
    /\ MaxOther \in Nat

VARIABLES
    bpc,        \* the session: "idle", "write", "send", "hung", "ended"
    bout,       \* the frames it writes before it takes the next one
    after,      \* what it does then: "idle", "close", "end"
    why,        \* why it ended with an error: "", "login" or the command
    routed,     \* the subscriptions of this client in the registry
    displaced,  \* those that were replaced by another SUBSCRIBE
    btx,        \* the transaction in txBuffer: destinations and headers, or Nil
    bHb,        \* <<hbSendIntervalMsec, hbRecvIntervalMsec>>
    bJob,       \* its heartbeat job is scheduled
    pubs,       \* subscriptions that another publisher has locked to write to
    nOther

regVars == <<routed, displaced>>
sessVars == <<bpc, bout, after, why, regVars, btx, bHb, bJob>>
otherVars == <<pubs, nOther>>
vars == <<clientVars, sessVars, otherVars>>

Init ==
    /\ ClientInit
    /\ bpc = "idle" /\ bout = <<>> /\ after = "idle" /\ why = ""
    /\ routed = {} /\ displaced = {} /\ btx = Nil
    /\ bHb \in BrokerHbOpts /\ bJob = FALSE
    /\ pubs = {} /\ nOther = 0

----------------------------------------------------------------------------
\* Start(): the session takes a frame; after close() the scanner may still have some.
Takes(cmd) ==
    /\ bpc = "idle"
    /\ up # <<>>
    /\ Head(up).cmd = cmd
    /\ up' = Tail(up)
    /\ UNCHANGED <<down, cconn, bconn, alive>>

\* The handler writes frames and then goes on with next.
Reply(frames, next) == bpc' = "write" /\ bout' = frames /\ after' = next

\* stateMachine() returns an error and Start() returns; nothing is written.
Drop(reason) == Reply(<<>>, "end") /\ why' = reason

Continues == UNCHANGED <<bpc, bout, after>>

\* sendMessage() to subscription i: the headers of the SEND come after the ack id and
\* the subscription of its own, and replace them.
Message(i, h) ==
    Frame("MESSAGE", i, <<IF h[1] = Nil THEN i ELSE h[1], IF h[2] = Nil THEN i ELSE h[2]>>)

\* negotiateHeartbeats of the session: one direction.
BrokerNegotiate(ours, theirs) ==
    IF theirs = 0 \/ ours = 0 THEN 0 ELSE IF theirs > ours THEN theirs ELSE ours

\* handleConnect of a client whose login is accepted; a job is scheduled when
\* heartbeats are to be sent.
TakeConnect ==
    /\ Takes("CONNECT")
    /\ LET hb == Head(up).hdr IN
        IF hb = Nil THEN UNCHANGED <<bHb, bJob>>
        ELSE /\ bHb' = <<BrokerNegotiate(bHb[1], hb[2]), BrokerNegotiate(bHb[2], hb[1])>>
             /\ bJob' = (bHb'[1] # 0)
    /\ Reply(<<Frame("CONNECTED", Nil, bHb')>>, "idle")
    /\ UNCHANGED <<why, regVars, btx>>

DenyConnect ==
    /\ Takes("CONNECT")
    /\ Reply(<<Frame("ERROR", Nil, Nil)>>, "end")
    /\ why' = "login"
    /\ UNCHANGED <<regVars, btx, bHb, bJob>>

\* addSubscription() replaces the map of the destination, and with it an earlier
\* subscription of the client's own to the same destination.
TakeSubscribe ==
    /\ Takes("SUBSCRIBE")
    /\ \E same \in SUBSET routed :
          /\ routed' = (routed \ same) \cup {Head(up).id}
          /\ displaced' = displaced \cup same
    /\ Continues
    /\ UNCHANGED <<why, btx, bHb, bJob>>

\* Of a displaced subscription either no map is left, or its entry is nil and the
\* process dies (BrokerDies).
TakeUnsubscribe ==
    /\ Takes("UNSUBSCRIBE")
    /\ routed' = routed \ {Head(up).id}
    /\ IF Head(up).id \in routed THEN Continues /\ UNCHANGED why ELSE Drop("UNSUBSCRIBE")
    /\ UNCHANGED <<displaced, btx, bHb, bJob>>

\* publish() to the destination of a subscription of this client.
TakeSend ==
    /\ Takes("SEND")
    /\ Reply(<<Message(Head(up).id, Head(up).hdr)>>, "idle")
    /\ UNCHANGED <<why, regVars, btx, bHb, bJob>>

\* A SEND whose transaction header is the caller's goes to a buffer of others, or to
\* none, which is an error.
TakeSendIn ==
    /\ Takes("SENDIN")
    /\ (Continues /\ UNCHANGED why) \/ Drop("SENDIN")
    /\ UNCHANGED <<regVars, btx, bHb, bJob>>

\* processAck() waits for the lock of the subscription, and fails without one.  An id
\* of another form is refused, or names a subscription of another client, whose lock
\* the session may wait for as long as that client does not read, or it is so short
\* that the process dies (BrokerDies).
TakeAck ==
    /\ Takes("ACK")
    /\ \/ Head(up).id \in routed \ pubs /\ Continues /\ UNCHANGED why
       \/ Head(up).id \notin routed /\ Drop("ACK")
       \/ Head(up).id = Other /\ bpc' \in {"idle", "hung"} /\ UNCHANGED <<bout, after, why>>
    /\ UNCHANGED <<regVars, btx, bHb, bJob>>

TakeBegin ==
    /\ Takes("BEGIN")
    /\ IF btx = Nil THEN btx' = <<>> /\ Continues /\ UNCHANGED why
       ELSE Drop("BEGIN") /\ UNCHANGED btx
    /\ UNCHANGED <<regVars, bHb, bJob>>

\* A frame that needs the transaction is an error without it.
TakeInTx(cmd, handling) ==
    /\ Takes(cmd)
    /\ IF btx # Nil THEN handling /\ UNCHANGED why ELSE Drop(cmd) /\ UNCHANGED btx
    /\ UNCHANGED <<regVars, bHb, bJob>>

TakeSendTx ==
    TakeInTx("SENDTX", btx' = Append(btx, <<Head(up).id, Head(up).hdr>>) /\ Continues)

\* COMMIT publishes what was buffered and keeps the transaction.
TakeCommit ==
    TakeInTx("COMMIT",
        /\ Reply([k \in DOMAIN btx |-> Message(btx[k][1], btx[k][2])], "idle")
        /\ UNCHANGED btx)

TakeAbort == TakeInTx("ABORT", btx' = Nil /\ Continues)

\* cleanupSubscriptions() gives up at a displaced subscription, unless the process dies
\* of it (BrokerDies); its error is ignored.
TakeDisconnect ==
    /\ Takes("DISCONNECT")
    /\ routed' \in IF displaced = {} THEN {{}} ELSE SUBSET routed
    /\ Reply(<<Frame("RECEIPT", Nil, Nil)>>, "close")
    /\ UNCHANGED <<why, displaced, btx, bHb, bJob>>

----------------------------------------------------------------------------
\* conn.Write of the broker, by its outcome after the retries.
BrokerWriteSucceeds(f) ==
    /\ bconn = "open"
    /\ \/ cconn = "open" /\ Len(down) < DownCap /\ down' = Append(down, f)
       \/ cconn = "closed" /\ UNCHANGED down

BrokerWriteFails == (bconn = "closed" \/ cconn = "closed") /\ UNCHANGED down

\* The handler has a frame to write that is a MESSAGE, or that is none.
NextOut(isMessage) ==
    bout # <<>> /\ (Head(bout).cmd = "MESSAGE") = isMessage

\* A control frame.  Without CONNECTED the session ends; RECEIPT and ERROR are written
\* without a look at the outcome.
Write ==
    /\ bpc = "write" /\ NextOut(FALSE)
    /\ bout' = Tail(bout)
    /\ \/ BrokerWriteSucceeds(Head(bout)) /\ UNCHANGED after
       \/ /\ BrokerWriteFails
          /\ after' = IF Head(bout).cmd = "CONNECTED" THEN "end" ELSE after
    /\ UNCHANGED <<up, cconn, bconn, alive, bpc, why, regVars, btx, bHb, bJob>>

\* publish() ranges over the map of the destination: what it finds it will write to,
\* also if that is displaced before.
PublishRange ==
    /\ bpc = "write" /\ NextOut(TRUE)
    /\ Head(bout).id \in routed
    /\ bpc' = "send"
    /\ UNCHANGED <<linkVars, bout, after, why, regVars, btx, bHb, bJob>>

\* No subscription of this client is there: nobody's is, or that of another client,
\* which may not be read or may fail to be written.
PublishElsewhere ==
    /\ bpc = "write" /\ NextOut(TRUE)
    /\ Head(bout).id \notin routed
    /\ bout' = Tail(bout)
    /\ bpc' \in {"write", "hung"}
    /\ UNCHANGED <<linkVars, after, why, regVars, btx, bHb, bJob>>

\* sendIt(): with the lock of the subscription.  When the MESSAGE cannot be written
\* publish() waits for ever.
SendMessage ==
    /\ bpc = "send"
    /\ Head(bout).id \notin pubs
    /\ bout' = Tail(bout)
    /\ \/ BrokerWriteSucceeds(Head(bout)) /\ bpc' = "write"
       \/ BrokerWriteFails /\ bpc' = "hung"
    /\ UNCHANGED <<up, cconn, bconn, alive, after, why, regVars, btx, bHb, bJob>>

\* Closing a connection with unread frames resets it: the last frames on their way
\* to the client may be lost.
CloseConn ==
    /\ bconn' = "closed"
    /\ \E k \in 0 .. Len(down) :
          /\ up = <<>> => k = Len(down)
          /\ down' = SubSeq(down, 1, k)
    /\ UNCHANGED <<up, cconn, alive>>

\* The handler returns: to the loop, after DISCONNECT with the connection closed,
\* or out of Start() into cleanup().
Finish ==
    /\ bpc = "write" /\ bout = <<>>
    /\ \/ after = "idle" /\ bpc' = "idle" /\ UNCHANGED <<linkVars, bJob>>
       \/ after = "close" /\ bpc' = "idle" /\ CloseConn /\ UNCHANGED bJob
       \/ after = "end" /\ bpc' = "ended" /\ CloseConn /\ bJob' = FALSE
    /\ after' = "idle"
    /\ UNCHANGED <<bout, why, regVars, btx, bHb>>


\* The scanner's channel is closed: cleanup().
EndOfStream ==
    /\ bpc = "idle"
    /\ bconn = "closed" \/ (cconn = "closed" /\ up = <<>>)
    /\ bpc' = "ended"
    /\ CloseConn
    /\ bJob' = FALSE
    /\ UNCHANGED <<bout, after, why, regVars, btx, bHb>>

SessionStep ==
    \/ TakeConnect \/ TakeSubscribe \/ TakeUnsubscribe \/ TakeSend \/ TakeSendIn
    \/ TakeAck \/ TakeBegin \/ TakeSendTx \/ TakeCommit \/ TakeAbort \/ TakeDisconnect
    \/ Write \/ PublishRange \/ PublishElsewhere \/ SendMessage
    \/ Finish \/ EndOfStream

----------------------------------------------------------------------------
\* The others.

\* sendIt of another session's publish(): it locks the subsInfo, and unlocks it when
\* the MESSAGE was written or could not be.
OtherLock(i) ==
    /\ nOther < MaxOther
    /\ i \in routed /\ i \notin pubs
    /\ pubs' = pubs \cup {i}
    /\ nOther' = nOther + 1
    /\ UNCHANGED <<linkVars, sessVars>>

OtherWrite(i) ==
    /\ i \in pubs
    /\ (\E h \in SendHeaders : BrokerWriteSucceeds(Message(i, h))) \/ BrokerWriteFails
    /\ pubs' = pubs \ {i}
    /\ UNCHANGED <<up, cconn, bconn, alive, sessVars, nOther>>

\* Another client SUBSCRIBEs to the destination of i.
OtherDisplaces(i) ==
    /\ i \in routed
    /\ routed' = routed \ {i}
    /\ displaced' = displaced \cup {i}
    /\ UNCHANGED <<linkVars, bpc, bout, after, why, btx, bHb, bJob, otherVars>>

\* A SEND of another client has the transaction of this one in a header.
OtherBuffers(i) ==
    /\ btx # Nil
    /\ nOther < MaxOther
    /\ \E h \in SendHeaders : btx' = Append(btx, <<i, h>>)
    /\ nOther' = nOther + 1
    /\ UNCHANGED <<linkVars, bpc, bout, after, why, regVars, bHb, bJob, pubs>>

\* A goroutine of the broker panics, or Go finds two that race on a map: the process
\* ends with all its sessions, and the system closes their connections.
BrokerDies ==
    /\ bpc # "ended"
    /\ nOther < MaxOther
    /\ nOther' = nOther + 1
    /\ bpc' = "ended" /\ bout' = <<>>
    /\ CloseConn
    /\ bJob' = FALSE
    /\ pubs' = {}
    /\ UNCHANGED <<after, why, regVars, btx, bHb>>

Others ==
    \/ \E i \in SubsIDs : OtherLock(i) \/ OtherWrite(i) \/ OtherDisplaces(i) \/ OtherBuffers(i)
    \/ BrokerDies

Next ==
    \/ (UserCall \/ StoreSubscription \/ ReaderStep \/ MapFault)
        /\ UNCHANGED <<sessVars, otherVars>>
    \/ (SessionStep \/ DenyConnect) /\ UNCHANGED <<userVars, readerVars, otherVars>>
    \/ Others /\ UNCHANGED <<userVars, readerVars>>

(***************************************************************************)
(* Fairness: every goroutine that can run does, and a call that the        *)
(* program has made goes on.  A write of the broker needs room in the      *)
(* connection, which only the reader makes.  Nothing makes the program     *)
(* call, another client send or subscribe, or the broker die.              *)
(***************************************************************************)
Spec ==
    /\ Init /\ [][Next]_vars
    /\ WF_vars(StoreSubscription /\ UNCHANGED <<sessVars, otherVars>>)
    /\ WF_vars(ReaderStep /\ UNCHANGED <<sessVars, otherVars>>)
    /\ WF_vars(SessionStep /\ UNCHANGED <<userVars, readerVars, otherVars>>)
    /\ \A i \in SubsIDs :
          WF_vars(OtherWrite(i) /\ UNCHANGED <<userVars, readerVars>>)

----------------------------------------------------------------------------
\* The type invariant of the two ends.
ClientTypeOK ==
    /\ Len(up) <= UpCap /\ Len(down) <= DownCap
    /\ subsMap \in [SubsIDs -> Modes \cup {Nil}]
    /\ storing \in SubsIDs \cup {Nil}
    /\ held = Nil \/ (held.cmd = "MESSAGE" /\ held.id \in SubsIDs)
    /\ ackCh \in 0 .. AckChCap
    /\ tx \in {"none", "open", "closed"}
    /\ rd \in {"off", "idle", "lookup", "ack", "chan", "bye", "done"}
    /\ (held # Nil) = (rd \in {"lookup", "ack", "chan"})
    /\ bpc \in {"idle", "write", "send", "hung", "ended"}
    /\ bpc = "send" => NextOut(TRUE)
    /\ after \in {"idle", "close", "end"}
    /\ {routed, displaced, pubs} \subseteq SUBSET SubsIDs
    /\ btx = Nil \/ btx \in Seq(SubsIDs \X SendHeaders)
    /\ {cHb, bHb} \subseteq Nat \X Nat

\* After the handshake each end sends heartbeats at the interval the other expects,
\* or neither sends any: the two copies of negotiateHeartbeats (client.go:260,
\* broker.go:264), the second of which starts from the result of the first, agree.
HeartbeatAgreement ==
    sessionID =>
        \/ cHb = <<bHb[2], bHb[1]>>
        \/ cHb = <<0, 0>> /\ ~cJob /\ ~bJob

\* A client that was let in is dropped for a frame that its program, or its reader, made
\* by the rules only when the registry no longer has its subscription. Whatever others
\* send within its transaction, no frame of it is refused. An ACK is refused only after
\* the program unsubscribed or disconnected, after another SUBSCRIBE for the same
\* destination (subscribe.go:45), or when an ack id that is not the broker's own was
\* acknowledged: a SEND's ack header replaces it (broker.go:172), and a ':' in a
\* destination makes scanAckNum read another id.
DropIsExplained ==
    /\ why \in {"", "login", "SENDIN", "UNSUBSCRIBE", "ACK"}
    /\ why = "ACK" => left # {} \/ byeSent \/ displaced # {} \/ odd

\* The reader does not know the subscription that a MESSAGE was written for only while
\* the Subscribe() that made it has not returned (client.go:357), unless a subscription
\* header of the SEND replaced it: later it knows the mode, also when the MESSAGE comes
\* after Unsubscribe(). (What it then does is another matter: in auto and client mode it
\* fills ackCh, which nobody reads.)
UnknownOnlyWhileSubscribing ==
    rd = "lookup" /\ held.hdr[1] = held.id /\ ModeOf(held.id) = Nil => storing = held.id

\* The reader, the session and a publisher wait for each other: the reader for room
\* on the way to the broker, the session for room on the way back or for the lock of
\* a publisher that waits for that room.
WriteCycle ==
    /\ rd = "ack" /\ Len(up) = UpCap
    /\ Len(down) = DownCap
    /\ \/ bpc = "send" \/ (bpc = "write" /\ NextOut(FALSE))
       \/ bpc = "idle" /\ Head(up).cmd = "ACK" /\ Head(up).id \in pubs

=============================================================================
