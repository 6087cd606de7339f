------------------------------- MODULE Broker -------------------------------
(***************************************************************************)
(* The STOMP broker: stateMachine() of broker.go dispatches the frames of  *)
(* every session to the subscription registry (Subscribe), to the          *)
(* transaction buffer (Transaction) and to the session itself (Session).   *)
(* All sessions share the registry and the buffer without a lock.          *)
(***************************************************************************)
EXTENDS Subscribe, Transaction

CONSTANTS
    LibraryClients, \* TRUE: every client is a ClientHandler of client.go, which
                    \* makes subscription and transaction IDs with uuid.NewString,
                    \* UNSUBSCRIBEs from its own and ends its own; FALSE: any IDs
    AskedModes      \* the ack headers clients send with SUBSCRIBE

ASSUME BrokerAssumption ==
    /\ LibraryClients \in BOOLEAN
    /\ AskedModes \subseteq AckModes

VARIABLES
    issued, \* issued[i]: the session that first sent SUBSCRIBE with ID i
    begun,  \* begun[t]: the session that first sent BEGIN for t
    txEnd,  \* txEnd[t]: "COMMIT" or "ABORT", whichever was received last for t
    raced   \* the transactions of which two calls have overlapped

clientVars == <<issued, begun, txEnd, raced>>
vars == <<procVars, sessVars, subVars, txVars, clientVars>>

Init ==
    /\ ProcInit /\ SessInit /\ SubInit /\ TxInit
    /\ issued = [i \in SubsIDs |-> Nil]
    /\ begun = [t \in TxIDs |-> Nil]
    /\ txEnd = [t \in TxIDs |-> ""]
    /\ raced = {}

----------------------------------------------------------------------------
\* What clients send.

NextFrame(s, cmd) == [Blank(s, arg[s].no + 1) EXCEPT !.cmd = cmd]

\* Frames of s can carry subscription ID i: a ClientHandler subscribes with a fresh
\* ID and unsubscribes from its own.
MaySubscribe(i) == LibraryClients => i # Empty /\ issued[i] = Nil

MayUnsubscribe(s, i) == LibraryClients => i # Empty /\ issued[i] = s

\* A ClientHandler's Transaction is begun once, and ended once by the session that
\* began it.  Its SEND may name any transaction in a header of the caller's.
MayBegin(t) == LibraryClients => t # Empty /\ begun[t] = Nil

MayEndTx(s, t) == LibraryClients => t # Empty /\ begun[t] = s /\ txEnd[t] = ""

\* s receives a frame for t, in whose handling arg[s].tx is t.
UsesTx(s, t) ==
    raced' = raced \cup {u \in TxIDs \ {Empty} : /\ u = t
                                                /\ \E v \in Sessions \ {s} : arg[v].tx = u}

\* A ClientHandler acknowledges what was written to itself for a subscription in
\* client-individual mode.  The id of its ACK is the ack header of that MESSAGE, which
\* an ack header of the SEND has replaced: it may be any text.
MayAck(s) ==
    LibraryClients =>
        \E p \in 1 .. nInfo : /\ info[p].sess = s /\ info[p].asked = "client-individual"
                              /\ log[p] # <<>>

----------------------------------------------------------------------------
\* stateMachine(): one action per command.

Receive(s, f, label) ==
    /\ MayReceive(s, f.cmd)
    /\ arg' = [arg EXCEPT ![s] = f]
    /\ msg' = IF label = "pub" THEN [msg EXCEPT ![s] = f] ELSE msg
    /\ Goto(s, label)
    /\ UNCHANGED <<status, sessVars, subVars, txVars>>

\* Mutant: the transaction header is not looked at.
SendAtOnce(s) ==
    \E d \in Dests \cup {Empty}, t \in TxIDs \cup {Empty} :
        /\ Receive(s, [NextFrame(s, "SEND") EXCEPT !.dest = d, !.tx = t], "pub")
        /\ UNCHANGED clientVars

Send(s) ==
    \E d \in Dests \cup {Empty}, t \in TxIDs \cup {Empty} :
        /\ Receive(s, [NextFrame(s, "SEND") EXCEPT !.dest = d, !.tx = t],
                   IF t # Empty THEN "buf1" ELSE "pub")
        /\ UsesTx(s, t)
        /\ UNCHANGED <<issued, begun, txEnd>>

SubscribeTo(s) ==
    \E d \in Dests \cup {Empty}, i \in SubsIDs \cup {Empty}, m \in AskedModes :
        /\ MaySubscribe(i)
        /\ Receive(s, [NextFrame(s, "SUBSCRIBE") EXCEPT !.dest = d, !.id = i,
                                                        !.mode = m], "add1")
        /\ issued' = IF i = Empty THEN issued
                     ELSE [issued EXCEPT ![i] = IF @ = Nil THEN s ELSE @]
        /\ UNCHANGED <<begun, txEnd, raced>>

Unsubscribe(s) ==
    \E i \in SubsIDs \cup {Empty} :
        /\ MayUnsubscribe(s, i)
        /\ Receive(s, [NextFrame(s, "UNSUBSCRIBE") EXCEPT !.id = i], "rm1")
        /\ UNCHANGED clientVars

Ack(s) ==
    \E p \in 1 .. nInfo : \E k \in 1 .. Len(log[p]) :
        /\ MayAck(s)
        /\ Receive(s, [NextFrame(s, "ACK") EXCEPT !.dest = info[p].dest,
                            !.id = info[p].id, !.ack = log[p][k].ack], "ack1")
        /\ UNCHANGED clientVars

\* An ACK whose id names no subscription, or no number: scanAckNum() indexes the
\* third part of the id without a check that there is one.
AckMalformed(s) ==
    /\ MayReceive(s, "ACK")
    /\ MayAck(s)
    /\ HandledAtOnce(s, "return") \/ Panic("index out of range")
    /\ UNCHANGED <<sessVars, subVars, txVars, clientVars>>

\* NACK is accepted and ignored.
Nack(s) ==
    /\ MayReceive(s, "NACK")
    /\ HandledAtOnce(s, "idle")
    /\ UNCHANGED <<sessVars, subVars, txVars, clientVars>>

Begin(s) ==
    \E t \in TxIDs \cup {Empty} :
        /\ MayBegin(t)
        /\ Receive(s, [NextFrame(s, "BEGIN") EXCEPT !.tx = t], "beg1")
        /\ begun' = IF t = Empty THEN begun
                    ELSE [begun EXCEPT ![t] = IF @ = Nil THEN s ELSE @]
        /\ UsesTx(s, t)
        /\ UNCHANGED <<issued, txEnd>>

EndTx(s, cmd, label) ==
    \E t \in TxIDs \cup {Empty} :
        /\ MayEndTx(s, t)
        /\ Receive(s, [NextFrame(s, cmd) EXCEPT !.tx = t], label)
        /\ txEnd' = IF t = Empty THEN txEnd ELSE [txEnd EXCEPT ![t] = cmd]
        /\ UsesTx(s, t)
        /\ UNCHANGED <<issued, begun>>

Commit(s) == EndTx(s, "COMMIT", "com1")

Abort(s) == EndTx(s, "ABORT", "abt1")

Disconnect(s) ==
    /\ Receive(s, NextFrame(s, "DISCONNECT"), "cleanup1")
    /\ UNCHANGED clientVars

----------------------------------------------------------------------------
(***************************************************************************)
(* Data races on the maps.  Two goroutines that are both about to access   *)
(* the same Go map, one of them to write, race: the outcomes are those of  *)
(* either order, or the runtime notices and ends the process ("fatal       *)
(* error: concurrent map writes" and its variants).                        *)
(***************************************************************************)
MapOps(s) ==
    LET d == arg[s].dest
        dest == <<"destToSubsMap">>
        \* the map that destToSubsMap holds for x, when there is one
        inner(x) == {<<"destToSubsMap", y>> : y \in {z \in {x} \cap Dests :
                                                        destToSubsMap[z] # Nil}}
        sess == <<"sessToSubsMap">>
        subs == <<"subsToDestMap">>
        tx == <<"txBuffer">>
        op(reads, writes) == [r |-> reads, w |-> writes]
    IN CASE pc[s] \in {"add1", "rm2", "rm3", "rm6", "ack1", "ack2"} ->
                                    op({dest} \cup inner(d), {})
         [] pc[s] \in {"add2", "rm7"} -> op({}, {dest})
         [] pc[s] \in {"add3", "rm5"} -> op({dest}, inner(d))
         [] pc[s] \in {"add4", "rm8"} -> op({}, {subs})
         [] At(s, "add5") -> op({sess}, IF sessToSubsMap[s] = Nil THEN {sess} ELSE {})
         [] At(s, "rm1") -> op({subs}, {})
         [] pc[s] \in {"rm4", "cleanup1"} -> op({sess}, {})
         [] At(s, "cleanup2") -> op({}, IF rmIDs[s] = {} THEN {sess} ELSE {})
         [] At(s, "pub") -> op({dest} \cup inner(msg[s].dest), {})
         [] At(s, "wait") -> op(IF \E p \in Addr : /\ gor[s][p] = "due"
                                                   /\ p \in Targets(msg[s].dest)
                                THEN inner(msg[s].dest) ELSE {}, {})
         [] pc[s] \in {"beg1", "buf1", "buf2", "com1", "com2", "abt1"} -> op({tx}, {})
         [] pc[s] \in {"beg2", "buf3", "abt2"} -> op({}, {tx})
         [] OTHER -> op({}, {})

Racing(s, t) == MapOps(s).w \cap (MapOps(t).r \cup MapOps(t).w) # {}

MapFault(s, t) ==
    /\ s # t
    /\ Racing(s, t)
    /\ Panic("concurrent map access")
    /\ UNCHANGED <<sessVars, subVars, txVars, clientVars>>

----------------------------------------------------------------------------
ReceiveStep(s) ==
    \/ Send(s) \/ SubscribeTo(s) \/ Unsubscribe(s)
    \/ Ack(s) \/ AckMalformed(s) \/ Nack(s)
    \/ Begin(s) \/ Commit(s) \/ Abort(s) \/ Disconnect(s)

Next ==
    /\ status = "up"
    /\ \E s \in Sessions :
        \/ ReceiveStep(s)
        \/ SessionStep(s) /\ UNCHANGED <<subVars, txVars, clientVars>>
        \/ SubscribeStep(s) /\ UNCHANGED <<sessVars, txVars, clientVars>>
        \/ TransactionStep(s) /\ UNCHANGED <<sessVars, subVars, clientVars>>
        \/ \E t \in Sessions : MapFault(s, t)

Spec == Init /\ [][Next]_vars

(***************************************************************************)
(* Fairness: Go's scheduler runs every goroutine that can run, so a        *)
(* handler, and each sendIt goroutine, takes its next step eventually.     *)
(* conn.Write has no deadline: it ends when the connection is closed or    *)
(* the peer has gone, and else only when the peer reads, which nothing     *)
(* makes it do (a ClientHandler stops reading when its ackCh is full).     *)
(* Nothing makes a client send a frame or leave.                           *)
(***************************************************************************)
Handling(s) ==
    /\ status = "up"
    /\ \/ /\ \/ ByeReceipt(s) /\ conn[s] # "open"
             \/ ByeClose(s) \/ Cleanup(s) \/ RemoveJob(s)
          /\ UNCHANGED <<subVars, txVars, clientVars>>
       \/ HandlerStep(s) /\ UNCHANGED <<sessVars, txVars, clientVars>>
       \/ TransactionStep(s) /\ UNCHANGED <<sessVars, subVars, clientVars>>

Sending(s, p) ==
    /\ status = "up"
    /\ \/ SendLock(s, p) \/ SendDone(s, p) \/ SendFails(s, p)
       \/ SendWrite(s, p) /\ conn[info[p].sess] # "open"
    /\ UNCHANGED <<sessVars, txVars, clientVars>>

FairSpec ==
    /\ Spec
    /\ \A s \in Sessions : WF_vars(Handling(s))
    /\ \A s \in Sessions, p \in Addr : WF_vars(Sending(s, p))

\* Peers that read whatever they are sent until they leave.
Reading(s, p) ==
    /\ status = "up"
    /\ \/ SendWrite(s, p) /\ UNCHANGED sessVars
       \/ ByeReceipt(s) /\ UNCHANGED subVars
    /\ UNCHANGED <<txVars, clientVars>>

ReadingSpec ==
    FairSpec /\ \A s \in Sessions, p \in Addr : WF_vars(Reading(s, p))

----------------------------------------------------------------------------
\* The type invariant.
TypeOK ==
    /\ ProcTypeOK /\ SessTypeOK /\ SubTypeOK /\ TxTypeOK
    /\ issued \in [SubsIDs -> Sessions \cup {Nil}]
    /\ begun \in [TxIDs -> Sessions \cup {Nil}]
    /\ txEnd \in [TxIDs -> {"", "COMMIT", "ABORT"}]
    /\ raced \subseteq TxIDs

\* The MESSAGE frames written for a subscription carry the acknowledgement numbers
\* 0, 1, 2, ... in the order they are written, without a gap or a repetition up to
\* the wraparound of uint32, however many sessions publish to it at once
\* (nextAckNum in publish(), under the lock of the subsInfo).
AckSequence ==
    \A p \in Addr : \A k \in 1 .. Len(log[p]) :
        log[p][k].ack = IF k = 1 THEN 0 ELSE NextAck(log[p][k - 1].ack)

\* A subscription gets what one session publishes in the order of the calls of
\* publish(), and nothing twice: wg.Wait() lets no call overtake another, and a
\* message that was written is not written again.
PublishOrder ==
    \A p \in Addr : \A j, k \in 1 .. Len(log[p]) :
        j < k /\ log[p][j].by = log[p][k].by => log[p][j].pub < log[p][k].pub

\* Only a number that went out in a MESSAGE is pending: one that could not be sent
\* is not recorded, and is used for the next message.
PendingAreWritten ==
    \A p \in Addr : \A n \in pendingAckBitmap[p] :
        \E k \in 1 .. Len(log[p]) : log[p][k].ack = n

\* What a subscription gets was sent to its own destination, whatever happened between
\* the SEND and the write: another SUBSCRIBE with its ID for another destination, a
\* displacement, or an UNSUBSCRIBE (publish() with the pointers it ranged over).
DeliveredToItsDest ==
    \A p \in Addr : \A k \in 1 .. Len(log[p]) : log[p][k].msg.dest = info[p].dest

\* One sendIt goroutine at a time is past Lock() for a subscription, and a lock that is
\* taken belongs to such a goroutine of a publish() that still waits for it: neither
\* the early return nor the end of a publish() or of a session leaves a lock behind
\* (Lock() and the deferred Unlock(), subscribe.go:105-111). That the holder goes on is
\* not said here: conn.Write has no deadline, and a subscriber that does not read
\* keeps the holder, and all who wait for the lock, for as long as it likes.
LockOfOneSender ==
    \A s \in Sessions, p \in Addr :
        /\ gor[s][p] \in {"locked", "written"} => mutex[p] = s
        /\ mutex[p] = s => /\ At(s, "wait")
                           /\ gor[s][p] \in {"locked", "written"}

\* s handles a frame or is at its deferred cleanup.
Busy(s) == pc[s] \notin {"none", "idle", "done", "ended"}

Quiet == status = "up" /\ \A s \in Sessions : ~Busy(s)

----------------------------------------------------------------------------
\* Properties of a broker all of whose clients are ClientHandlers.

\* Whatever publish() can deliver to, UNSUBSCRIBE and the cleanup of DISCONNECT can
\* find: while its session is not just adding or removing it, a routed subscription
\* is in both of the other maps.
RoutableOwned ==
    \A d \in Dests, i \in SubsIDs : Lookup(d, i) # Nil =>
        LET s == info[Lookup(d, i)].sess IN
        \/ pc[s] \in {"add4", "add5", "rm5"} /\ arg[s].id = i
        \/ subsToDestMap[i] = d /\ sessToSubsMap[s] # Nil /\ i \in sessToSubsMap[s]

\* removeSubscription() never calls Remove on a nil set: a session's set of IDs is
\* there as long as a subscription of it can be looked up.
NoNilSet == status # "nil set"

\* The IDs that a SUBSCRIBE for d was ever received with, also one being handled.
Asked(d) ==
    {info[p].id : p \in {q \in 1 .. nInfo : info[q].dest = d}}
        \cup {arg[s].id : s \in {t \in Sessions : /\ pc[t] \in {"add1", "add2", "add3"}
                                                 /\ arg[t].dest = d}}

\* s is about to dereference what an ACK that is not for its own subscription names.
AcksForeign(s) == At(s, "ack2") /\ issued[arg[s].id] # s

\* Displacement is the only way to lose a subscription: a subscriber that never
\* shared its destination is routed whenever no frame is being handled, whatever
\* happens to other destinations, and its UNSUBSCRIBE or DISCONNECT never finds the
\* nil entry that takes the process down (subscribe.go:74).
SoleSubscriberIsSafe ==
    /\ Quiet => \A s \in Sessions, i \in SubsIDs :
          sessToSubsMap[s] # Nil /\ i \in sessToSubsMap[s] =>
              \/ Asked(subsToDestMap[i]) # {i}
              \/ Lookup(subsToDestMap[i], i) # Nil
    /\ status = "nil pointer" =>
          \/ \E d \in Dests : \E i, j \in Asked(d) : i # j
          \/ \E s \in Sessions : AcksForeign(s)

\* A subscription gets the messages of one sender, outside of transactions and of
\* each transaction, in the order they were sent and none twice, also when several
\* sessions send within the same transaction, unless two calls for that transaction
\* have overlapped (bufferTxMessage has no lock).
SenderOrder ==
    \A p \in Addr : \A j, k \in 1 .. Len(log[p]) :
        /\ j < k
        /\ log[p][j].msg.from = log[p][k].msg.from
        /\ log[p][j].msg.tx = log[p][k].msg.tx
        /\ log[p][k].msg.tx \notin raced
        => log[p][j].msg.no < log[p][k].msg.no

\* No message of a transaction reaches a subscriber unless its COMMIT was received:
\* not of an open one, not of an aborted one, not of one its client abandoned.
TxSilentUntilCommit ==
    \A p \in Addr : \A k \in 1 .. Len(log[p]) :
        LET t == log[p][k].msg.tx IN t # Empty => txEnd[t] = "COMMIT"

\* In one step a transaction's buffer is created empty, gets one more frame at its
\* end or is dropped: whichever sessions send within the transaction (a header of the
\* caller's may name it on any connection), a frame is lost only after two calls for
\* the transaction have overlapped, and calls for other transactions take nothing.
TxBufferSteps ==
    [][\A t \in TxIDs \ raced' :
         \/ txBuffer'[t] \in {txBuffer[t], Nil}
         \/ txBuffer[t] = Nil /\ txBuffer'[t] = <<>>
         \/ /\ txBuffer[t] # Nil
            /\ Len(txBuffer'[t]) = Len(txBuffer[t]) + 1
            /\ \A k \in 1 .. Len(txBuffer[t]) : txBuffer'[t][k] = txBuffer[t][k]]_vars

----------------------------------------------------------------------------
\* Properties of a session.

\* ERROR and RECEIPT are the last control frames of a session: the frames a client
\* sent after its DISCONNECT or after a faulty frame are not answered any more.
FarewellIsLast ==
    \A s \in Sessions : \A k \in 1 .. Len(out[s]) :
        out[s][k] \in {"ERROR", "RECEIPT"} => k = Len(out[s])

\* However often a client repeats its handshake, none of the jobs that the scheduler
\* holds for the session was given an interval below the configured one, and the job
\* that cleanup() can remove beats at the interval last announced, when that is not 0.
\* (Jobs of earlier handshakes beat beside it: HeartbeatsSpaced.)
JobsKeepFloor ==
    \A s \in Sessions :
        /\ \A j \in jobs[s] : 0 < BrokerSendMsec /\ BrokerSendMsec =< every[s][j]
        /\ hbSend[s] # 0 /\ hbJob[s] # 0 => every[s][hbJob[s]] = hbSend[s]

----------------------------------------------------------------------------
\* Liveness.

\* s cannot go on before the peer of an open connection reads: its own, for RECEIPT,
\* or that of a subscriber whose lock s has or waits for, to write or for an ACK.
AwaitsPeer(s) ==
    \/ At(s, "bye1") /\ conn[s] = "open"
    \/ \E p \in Addr :
          /\ gor[s][p] \in {"start", "locked"} \/ (At(s, "ack3") /\ ptr[s] = p)
          /\ mutex[p] # Nil
          /\ gor[mutex[p]][p] = "locked"
          /\ conn[info[p].sess] = "open"

\* A session that is stuck with a frame for ever is stuck for one of three reasons: the
\* process has died, a MESSAGE of its own publish() could not be written (no wg.Done()),
\* or in the end it always awaits a peer that stays connected and does not read.
\* Sessions that publish, acknowledge and subscribe never block each other on the locks
\* of the subscriptions alone.
HandlerFinishes ==
    \A s \in Sessions :
        \/ []<>~Busy(s)
        \/ <>[](\/ AwaitsPeer(s) \/ status # "up"
               \/ \E p \in Addr : gor[s][p] = "failed")

----------------------------------------------------------------------------
\* What the repository says of itself and the code does not do.

\* "Send the message to each subscriber" (broker.go:137): while no frame is being
\* handled, a subscription that is in the other two maps is in its destination's
\* map, where publish() looks for subscribers.
SubscribedIsRouted ==
    Quiet => \A s \in Sessions, i \in SubsIDs :
        sessToSubsMap[s] # Nil /\ i \in sessToSubsMap[s]
            => subsToDestMap[i] # Nil /\ Lookup(subsToDestMap[i], i) # Nil

\* "It will not send the heartbeats by an interval any smaller than this value"
\* (broker.go:325): any two jobs of a session together keep to the configured interval.
\* In every[j] * every[k] milliseconds job j beats every[k] times, and job k every[j].
HeartbeatsSpaced ==
    \A s \in Sessions : \A j, k \in jobs[s] :
        j # k => BrokerSendMsec * (every[s][j] + every[s][k]) =< every[s][j] * every[s][k]

\* "keeps accepting the client connections and handles the STOMP messages"
\* (broker.go:300): every frame is dealt with while the process lives and all who are
\* connected read, also when one of the subscribers of its destination has gone.
FramesAreHandled ==
    \A s \in Sessions : Busy(s) ~> (~Busy(s) \/ status # "up")
=============================================================================
