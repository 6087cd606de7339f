------------------------------- MODULE Client -------------------------------
(***************************************************************************)
(* client.go: a ClientHandler and its connection.  The program calls the   *)
(* methods of the ClientHandler one at a time; the goroutine that          *)
(* Connect() starts reads the frames of the broker, calls the message      *)
(* handler and acknowledges.  Both write to the same connection, each      *)
(* direction of which holds a few frames.                                  *)
(***************************************************************************)
EXTENDS Naturals, Sequences

CONSTANTS
    SubsIDs,    \* the IDs that Subscribe() makes with uuid.NewString
    Other,      \* any text that is neither one of them nor an ack id of theirs
    Empty,      \* the empty text
    SendHeaders,\* pairs <<subscription, ack>> of headers a SEND has, Nil when it has not
    Modes,      \* the modes given to Subscribe()
    HbOpts,     \* pairs <<send, receive>>: the heartbeat options of the client
    UpCap,      \* how many frames the connection holds on the way to the broker
    DownCap,    \* and on the way back
    AckChCap,   \* capacity of ackCh, 100 in the code
    MaxCalls,   \* bound: calls of the program after Connect()
    Nil

Text == SubsIDs \cup {Other, Empty}

\* Nil is no ID, no mode, no headers and no transaction.
ASSUME ClientAssumption ==
    /\ {Other, Empty} \cap SubsIDs = {} /\ Other # Empty
    /\ SendHeaders \subseteq (Text \cup {Nil}) \X (Text \cup {Nil})
    /\ Modes \subseteq {"auto", "client", "client-individual"}
    /\ HbOpts \subseteq (Nat \X Nat)
    /\ {UpCap, DownCap, AckChCap} \subseteq Nat \ {0}
    /\ MaxCalls \in Nat
    /\ Nil \notin Text \cup Modes \cup (Nat \X Nat)
    /\ Nil \notin Seq(SubsIDs \X SendHeaders)
    /\ Nil \notin [cmd : {"MESSAGE"}, id : SubsIDs, hdr : Text \X Text]

VARIABLES
    up, down,   \* the frames in transit to the broker and to the client
    cconn,      \* the client's end of the connection: "open", "closed"
    bconn,      \* the broker's end
    alive,      \* FALSE when the Go runtime has ended the client's process
    ncalls,
    storing,    \* the ID that Subscribe() has sent and not stored yet, or Nil
    subsMap,    \* subscription ID => mode, Nil when there is none
    left,       \* the IDs that Unsubscribe() was called for (history)
    tx,         \* the Transaction: "none", "open", "closed" (its c is nil)
    byeSent,    \* Disconnect() has returned nil (history)
    rd,         \* the reader: "off", "idle", "lookup", "ack", "chan", "bye", "done"
    held,       \* the MESSAGE the reader is handling, or Nil
    odd,        \* an ACK had an id that the broker did not make for it (history)
    ackCh,      \* how many acknowledgements are in ackCh; nothing receives them
    sessionID,  \* SessionID is set: CONNECTED has been handled
    cHb,        \* <<hbSendInterval, hbRecvInterval>>
    cJob        \* its heartbeat job is scheduled

linkVars == <<up, down, cconn, bconn, alive>>
callVars == <<storing, subsMap, left, tx, byeSent>>
userVars == <<ncalls, callVars>>
readerVars == <<rd, held, odd, ackCh, sessionID, cHb, cJob>>
clientVars == <<linkVars, userVars, readerVars>>

\* NewClientHandler has dialled, and the broker has started a session.
ClientInit ==
    /\ up = <<>> /\ down = <<>>
    /\ cconn = "open" /\ bconn = "open" /\ alive = TRUE
    /\ ncalls = 0 /\ storing = Nil
    /\ subsMap = [i \in SubsIDs |-> Nil] /\ left = {}
    /\ tx = "none" /\ byeSent = FALSE
    /\ rd = "off" /\ held = Nil /\ odd = FALSE /\ ackCh = 0 /\ sessionID = FALSE
    /\ cHb \in HbOpts /\ cJob = FALSE

\* hdr: the heart-beat header of CONNECT and CONNECTED, the headers the caller gave a
\* SEND, the subscription and ack headers of a MESSAGE, whose id is the subscription
\* that it was written for (history).
Frame(cmd, id, hdr) == [cmd |-> cmd, id |-> id, hdr |-> hdr]

----------------------------------------------------------------------------
\* The program.

\* send(): a Write of the whole frame, by its outcome after the retries.  It waits
\* while the connection takes no more, and may do either when the broker has gone.
WriteSucceeds(f) ==
    /\ cconn = "open"
    /\ \/ bconn = "open" /\ Len(up) < UpCap /\ up' = Append(up, f)
       \/ bconn = "closed" /\ UNCHANGED up

WriteFails == (cconn = "closed" \/ bconn = "closed") /\ UNCHANGED up

\* The heart-beat header is left out when both intervals are 0.
Connect ==
    /\ rd = "off"
    /\ WriteSucceeds(Frame("CONNECT", Nil, IF cHb = <<0, 0>> THEN Nil ELSE cHb))
    /\ rd' = "idle"
    /\ UNCHANGED <<down, cconn, bconn, alive, userVars, held, odd, ackCh, sessionID,
                   cHb, cJob>>

\* A call that writes a frame and goes on with effect, or returns the error.
Call(cmd, id, hdr, effect) ==
    /\ alive /\ rd # "off" /\ storing = Nil
    /\ ncalls < MaxCalls
    /\ ncalls' = ncalls + 1
    /\ \/ WriteSucceeds(Frame(cmd, id, hdr)) /\ effect
       \/ WriteFails /\ UNCHANGED callVars
    /\ UNCHANGED <<down, cconn, bconn, alive, readerVars>>

\* Send() to the destination of i, with headers of the caller's; SENDIN is a SEND with
\* a transaction header among them.
Send(i) ==
    \/ \E h \in SendHeaders : Call("SEND", i, h, UNCHANGED callVars)
    \/ Call("SENDIN", i, Nil, UNCHANGED callVars)

\* Subscribe() sends first and writes subsMap afterwards, in StoreSubscription.
Subscribe(i) ==
    /\ subsMap[i] = Nil
    /\ Call("SUBSCRIBE", i, Nil, storing' = i /\ UNCHANGED <<subsMap, left, tx, byeSent>>)

StoreSubscription ==
    /\ alive /\ storing # Nil
    /\ \E m \in Modes : subsMap' = [subsMap EXCEPT ![storing] = m]
    /\ storing' = Nil
    /\ UNCHANGED <<linkVars, ncalls, left, tx, byeSent, readerVars>>

\* Mutant: Unsubscribe() also deletes the entry of subsMap.
UnsubscribeForget(i) ==
    /\ subsMap[i] # Nil
    /\ Call("UNSUBSCRIBE", i, Nil, /\ left' = left \cup {i}
                                   /\ subsMap' = [subsMap EXCEPT ![i] = Nil]
                                   /\ UNCHANGED <<storing, tx, byeSent>>)

\* Unsubscribe() leaves subsMap as it is, and may be called again.
Unsubscribe(i) ==
    /\ subsMap[i] # Nil
    /\ Call("UNSUBSCRIBE", i, Nil, /\ left' = left \cup {i}
                                   /\ UNCHANGED <<storing, subsMap, tx, byeSent>>)

BeginTransaction ==
    /\ tx = "none"
    /\ Call("BEGIN", Nil, Nil, tx' = "open" /\ UNCHANGED <<storing, subsMap, left, byeSent>>)

\* The methods of a Transaction return an error at once when it is closed.
TxSend(i) ==
    /\ tx = "open"
    /\ \E h \in SendHeaders : Call("SENDTX", i, h, UNCHANGED callVars)

\* Mutant: the Transaction is not closed.
EndTransactionOpen(cmd) ==
    /\ tx = "open"
    /\ Call(cmd, Nil, Nil, UNCHANGED callVars)

\* CommitTransaction and AbortTransaction.
EndTransaction(cmd) ==
    /\ tx = "open"
    /\ Call(cmd, Nil, Nil, tx' = "closed" /\ UNCHANGED <<storing, subsMap, left, byeSent>>)

Disconnect ==
    Call("DISCONNECT", Nil, Nil,
         byeSent' = TRUE /\ UNCHANGED <<storing, subsMap, left, tx>>)

UserCall ==
    \/ Connect \/ BeginTransaction \/ Disconnect
    \/ \E i \in SubsIDs : Subscribe(i) \/ Unsubscribe(i) \/ Send(i) \/ TxSend(i)
    \/ \E cmd \in {"COMMIT", "ABORT"} : EndTransaction(cmd)

----------------------------------------------------------------------------
\* The reader.

Reads(cmd) ==
    /\ alive /\ rd = "idle"
    /\ down # <<>>
    /\ Head(down).cmd = cmd
    /\ down' = Tail(down)

\* Mutant: the client keeps the smaller interval.
NegotiateMin(ours, theirs) ==
    IF theirs = 0 \/ ours = 0 THEN 0 ELSE IF theirs < ours THEN theirs ELSE ours

\* negotiateHeartbeats: one direction.
Negotiate(ours, theirs) ==
    IF theirs = 0 \/ ours = 0 THEN 0 ELSE IF theirs > ours THEN theirs ELSE ours

\* handleConnected
ReadConnected ==
    /\ Reads("CONNECTED")
    /\ LET hb == Head(down).hdr IN
        cHb' = <<Negotiate(cHb[1], hb[2]), Negotiate(cHb[2], hb[1])>>
    /\ cJob' = (cHb'[1] # 0)
    /\ sessionID' = TRUE
    /\ UNCHANGED <<up, cconn, bconn, alive, userVars, rd, held, odd, ackCh>>

\* handleMessage up to its first look at subsMap; without an ack header, or with an
\* empty one, there is nothing to acknowledge.
ReadMessage ==
    /\ Reads("MESSAGE")
    /\ IF Head(down).hdr[2] = Empty THEN UNCHANGED <<rd, held>>
       ELSE rd' = "lookup" /\ held' = Head(down)
    /\ UNCHANGED <<up, cconn, bconn, alive, userVars, odd, ackCh, sessionID, cHb, cJob>>

\* The mode of the subscription that a MESSAGE's header names, Nil when there is none.
ModeOf(id) == IF id \in SubsIDs THEN subsMap[id] ELSE Nil

\* The map is read: an ID that is not there is logged and not acknowledged.
LookUpSubscription ==
    /\ alive /\ rd = "lookup"
    /\ LET mode == ModeOf(held.hdr[1]) IN
        /\ mode = Nil => rd' = "idle" /\ held' = Nil
        /\ mode # Nil =>
              rd' = (IF mode = "client-individual" THEN "ack" ELSE "chan") /\ held' = held
    /\ UNCHANGED <<linkVars, userVars, odd, ackCh, sessionID, cHb, cJob>>

\* sendAck, whose error is only logged; Validate() may refuse an id of another form.
SendAck ==
    /\ alive /\ rd = "ack"
    /\ \/ WriteSucceeds(Frame("ACK", held.hdr[2], Nil)) \/ WriteFails
       \/ held.hdr[2] = Other /\ UNCHANGED up
    /\ odd' = (odd \/ held.hdr[2] # held.id)
    /\ rd' = "idle" /\ held' = Nil
    /\ UNCHANGED <<down, cconn, bconn, alive, userVars, ackCh, sessionID, cHb, cJob>>

\* Mutant: the channel has no bound.
PushAckUnbounded ==
    /\ alive /\ rd = "chan"
    /\ ackCh' = ackCh + 1
    /\ rd' = "idle" /\ held' = Nil
    /\ UNCHANGED <<linkVars, userVars, odd, sessionID, cHb, cJob>>

\* c.ackCh <- ... in the other modes: it waits when the channel is full.
PushAck ==
    /\ alive /\ rd = "chan"
    /\ ackCh < AckChCap
    /\ ackCh' = ackCh + 1
    /\ rd' = "idle" /\ held' = Nil
    /\ UNCHANGED <<linkVars, userVars, odd, sessionID, cHb, cJob>>

\* The goroutine ends and removes its heartbeat job.
ReaderEnds ==
    /\ rd' = "done"
    /\ cJob' = FALSE
    /\ UNCHANGED <<held, odd, ackCh, sessionID, cHb>>

\* The RECEIPT of Disconnect(): only here the client closes its connection.
ReadReceipt ==
    /\ Reads("RECEIPT")
    /\ cconn' = "closed"
    /\ ReaderEnds
    /\ UNCHANGED <<up, bconn, alive, userVars>>

\* ERROR is answered with Disconnect(); its error ends the reader.
ReadError ==
    /\ Reads("ERROR")
    /\ rd' = "bye"
    /\ UNCHANGED <<up, cconn, bconn, alive, userVars, held, odd, ackCh, sessionID, cHb, cJob>>

DisconnectOnError ==
    /\ alive /\ rd = "bye"
    /\ \/ /\ WriteSucceeds(Frame("DISCONNECT", Nil, Nil))
          /\ rd' = "idle"
          /\ UNCHANGED <<held, odd, ackCh, sessionID, cHb, cJob>>
       \/ WriteFails /\ ReaderEnds
    /\ UNCHANGED <<down, cconn, bconn, alive, userVars>>

ReadEnd ==
    /\ alive /\ rd = "idle"
    /\ down = <<>> /\ bconn = "closed"
    /\ ReaderEnds
    /\ UNCHANGED <<linkVars, userVars>>

ReaderStep ==
    \/ ReadConnected \/ ReadMessage \/ LookUpSubscription \/ SendAck \/ PushAck
    \/ ReadReceipt \/ ReadError \/ DisconnectOnError \/ ReadEnd

\* The reader's lookup races with the store of Subscribe(): the Go runtime may end
\* the process, and the system closes its connection.
MapFault ==
    /\ alive /\ storing # Nil /\ rd = "lookup"
    /\ alive' = FALSE /\ cconn' = "closed"
    /\ UNCHANGED <<up, down, bconn, userVars, readerVars>>
=============================================================================
