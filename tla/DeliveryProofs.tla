--------------------------- MODULE DeliveryProofs ---------------------------
(***************************************************************************)
(* What publish() promises a subscription, proved of the broker for any    *)
(* number of sessions, subscriptions and messages: the acknowledgement     *)
(* numbers are consecutive, the messages of one session arrive in order    *)
(* and at most once, and only numbers that were sent are pending.  In its  *)
(* second part, that publishing implements TopicStream, for any width of   *)
(* the counter: every step of the broker is a step of the abstract         *)
(* specification or leaves its state alone under the refinement mapping of *)
(* BrokerStreams.                                                          *)
(***************************************************************************)
EXTENDS BrokerStreams, BrokerProofs

USE DEF At

\* The lock of a subscription is held by the session one of whose sendIt goroutines
\* is between Lock() and Unlock().
LockOK ==
    \A s \in Sessions, p \in Addr :
        gor[s][p] \in {"locked", "written"} <=> mutex[p] = s

\* Nothing has been sent, and no goroutine is there, for an object not yet allocated.
FreshOK ==
    \A p \in Addr : p > nInfo =>
        log[p] = <<>> /\ \A s \in Sessions : gor[s][p] = "none"

LastAck(p) == log[p][Len(log[p])].ack

\* Between the write and the increment nextAckNum is the number of the message just
\* written; at other times it is the one after it, or 0 at first.
NumberOK ==
    \A p \in Addr :
        /\ \A s \in Sessions : gor[s][p] = "written" =>
                log[p] # <<>> /\ nextAckNum[p] = LastAck(p)
        /\ (\A s \in Sessions : gor[s][p] # "written") =>
                nextAckNum[p] = IF log[p] = <<>> THEN 0 ELSE NextAck(LastAck(p))

\* What a session has sent to a subscription belongs to its calls of publish() so
\* far, and to earlier ones while the present call has yet to send to it.
PubOK ==
    \A p \in Addr : \A k \in 1 .. Len(log[p]) :
        /\ log[p][k].pub =< npub[log[p][k].by]
        /\ gor[log[p][k].by][p] \in {"due", "start", "locked"} =>
                log[p][k].pub < npub[log[p][k].by]

\* A session has sendIt goroutines only while it is in publish().
IdleOK ==
    \A s \in Sessions, p \in Addr : pc[s] # "wait" => gor[s][p] = "none"

DeliveryInv ==
    /\ LockOK /\ FreshOK /\ NumberOK /\ PubOK /\ IdleOK
    /\ AckSequence /\ PublishOrder /\ PendingAreWritten

deliveryVars == <<nInfo, gor, npub, log, mutex, nextAckNum, pendingAckBitmap>>

\* A step of the session's goroutine outside of publish(), or one that moves nobody.
OutsidePublish(s) ==
    \/ pc' = pc
    \/ pc[s] # "wait" /\ \A t \in Sessions \ {s} : pc'[t] = pc[t]

LEMMA IdleKept ==
    ASSUME IdleOK, NEW s \in Sessions, OutsidePublish(s), UNCHANGED gor
    PROVE  IdleOK'
BY DEF IdleOK, OutsidePublish

LEMMA DeliveryKept ==
    ASSUME DeliveryInv, NEW s \in Sessions, OutsidePublish(s), UNCHANGED deliveryVars
    PROVE  DeliveryInv'
<1>1. IdleOK'
  BY IdleKept DEF DeliveryInv, deliveryVars
<1>2. LockOK' /\ FreshOK'
  BY DEF DeliveryInv, deliveryVars, LockOK, FreshOK
<1>3. NumberOK'
  BY DEF DeliveryInv, deliveryVars, NumberOK, LastAck, NextAck
<1>4. PubOK' /\ PublishOrder' /\ PendingAreWritten'
  BY DEF DeliveryInv, deliveryVars, PubOK, PublishOrder, PendingAreWritten
<1>5. AckSequence'
  BY DEF DeliveryInv, deliveryVars, AckSequence, NextAck
<1> QED
  BY <1>1, <1>2, <1>3, <1>4, <1>5 DEF DeliveryInv

----------------------------------------------------------------------------
\* The steps that send nothing.

LEMMA Moves ==
    ASSUME TypeInv, NEW s \in Sessions, pc[s] # "wait",
           \/ Return(s) \/ Fail(s) \/ \E l : Continue(s, l) \/ Goto(s, l)
           \/ \E l : HandledAtOnce(s, l)
           \/ \E why : Panic(why)
    PROVE  OutsidePublish(s)
BY DEF TypeInv, TypeOK, ProcTypeOK, Return, Fail, Continue, Goto, HandledAtOnce, Panic,
       OutsidePublish

LEMMA ReceiveOutside ==
    ASSUME TypeInv, NEW s \in Sessions, ReceiveStep(s)
    PROVE  OutsidePublish(s) /\ UNCHANGED deliveryVars
<1>1. UNCHANGED subVars
  BY DEF ReceiveStep, Receive, Send, SubscribeTo, Unsubscribe, Ack, AckMalformed, Nack,
         Begin, Commit, Abort, EndTx, Disconnect
<1>2. pc[s] # "wait"
  BY DEF ReceiveStep, Receive, Send, SubscribeTo, Unsubscribe, Ack, AckMalformed, Nack,
         Begin, Commit, Abort, EndTx, Disconnect, MayReceive
<1>3. \/ \E l : Goto(s, l) \/ HandledAtOnce(s, l)
      \/ \E why : Panic(why)
  BY DEF ReceiveStep, Receive, Send, SubscribeTo, Unsubscribe, Ack, AckMalformed, Nack,
         Begin, Commit, Abort, EndTx, Disconnect
<1> QED
  BY <1>1, <1>2, <1>3, Moves DEF subVars, heapVars, pubVars, deliveryVars

LEMMA SessionOutside ==
    ASSUME TypeInv, NEW s \in Sessions, SessionStep(s), UNCHANGED subVars
    PROVE  OutsidePublish(s) /\ UNCHANGED deliveryVars
<1>1. CASE PeerLeaves(s)
  BY <1>1 DEF PeerLeaves, procVars, OutsidePublish, subVars, heapVars, pubVars, deliveryVars
<1>2. CASE ~PeerLeaves(s)
  <2>1. pc[s] # "wait"
    BY <1>2 DEF SessionStep, Accept, Connect, ConnectDenied, ConnectRefused, InvalidFrame,
                UndecodableFrame, ByeReceipt, ByeClose, EndOfStream, ScannerStops, Cleanup,
                RemoveJob, MayReceive
  <2>2. \/ Return(s) \/ Fail(s) \/ \E l : Continue(s, l) \/ HandledAtOnce(s, l)
        \/ \E why : Panic(why)
    BY <1>2 DEF SessionStep, Accept, Connect, ConnectDenied, ConnectRefused, InvalidFrame,
                UndecodableFrame, ByeReceipt, ByeClose, EndOfStream, ScannerStops, Cleanup,
                RemoveJob
  <2> QED
    BY <2>1, <2>2, Moves DEF subVars, heapVars, pubVars, deliveryVars
<1> QED
  BY <1>1, <1>2

LEMMA TransactionOutside ==
    ASSUME TypeInv, NEW s \in Sessions, TransactionStep(s), UNCHANGED subVars
    PROVE  OutsidePublish(s) /\ UNCHANGED deliveryVars
<1>1. pc[s] # "wait"
  BY DEF TransactionStep, StartTxCheck, StartTxStore, BufferTxCheck, BufferTxRead,
         BufferTxStore, ForeachTxCheck, ForeachTxRead, ForeachTxNext, ForeachTxLast,
         DropTxCheck, DropTxDelete
<1>2. Return(s) \/ Fail(s) \/ \E l : Continue(s, l) \/ Goto(s, l)
  BY DEF TransactionStep, StartTxCheck, StartTxStore, BufferTxCheck, BufferTxRead,
         BufferTxStore, ForeachTxCheck, ForeachTxRead, ForeachTxNext, ForeachTxLast,
         DropTxCheck, DropTxDelete
<1> QED
  BY <1>1, <1>2, Moves DEF subVars, heapVars, pubVars, deliveryVars

\* The steps of addSubscription, removeSubscription, cleanupSubscriptions and
\* processAck other than the two that touch a subsInfo.
RegistryStep(s) ==
    \/ AddCheck(s) \/ AddReset(s) \/ AddIndexDest(s) \/ AddIndexSession(s)
    \/ RemoveFindDest(s) \/ RemoveCheckDest(s) \/ RemoveFindInfo(s)
    \/ RemoveFromSession(s) \/ RemoveEntry(s) \/ RemoveCheckEmpty(s)
    \/ RemoveDest(s) \/ RemoveIndexDest(s)
    \/ CleanupBegin(s) \/ CleanupNext(s) \/ CleanupLast(s)
    \/ AckCheck(s) \/ AckLookup(s)

LEMMA RegistryOutside ==
    ASSUME TypeInv, NEW s \in Sessions, RegistryStep(s)
    PROVE  OutsidePublish(s) /\ UNCHANGED deliveryVars
<1>1. UNCHANGED deliveryVars
  BY DEF RegistryStep, AddCheck, AddReset, AddIndexDest, AddIndexSession, RemoveFindDest,
         RemoveCheckDest, RemoveFindInfo, RemoveFromSession, RemoveEntry,
         RemoveCheckEmpty, RemoveDest, RemoveIndexDest, CleanupBegin, CleanupNext,
         CleanupLast, AckCheck, AckLookup, subVars, heapVars, pubVars, deliveryVars
<1>2. pc[s] # "wait"
  BY DEF RegistryStep, AddCheck, AddReset, AddIndexDest, AddIndexSession, RemoveFindDest,
         RemoveCheckDest, RemoveFindInfo, RemoveFromSession, RemoveEntry,
         RemoveCheckEmpty, RemoveDest, RemoveIndexDest, CleanupBegin, CleanupNext,
         CleanupLast, AckCheck, AckLookup
<1>3. \/ Return(s) \/ Fail(s) \/ \E l : Continue(s, l) \/ Goto(s, l)
      \/ \E why : Panic(why)
  BY DEF RegistryStep, AddCheck, AddReset, AddIndexDest, AddIndexSession, RemoveFindDest,
         RemoveCheckDest, RemoveFindInfo, RemoveFromSession, RemoveEntry,
         RemoveCheckEmpty, RemoveDest, RemoveIndexDest, CleanupBegin, CleanupNext,
         CleanupLast, AckCheck, AckLookup, RemoveError
<1> QED
  BY <1>1, <1>2, <1>3, Moves

----------------------------------------------------------------------------
\* The steps of publish() and of processAck, and the allocation of a subsInfo.

LEMMA LogTypes ==
    ASSUME TypeInv
    PROVE  /\ \A p \in Addr : log[p] \in Seq(Entry) /\ Len(log[p]) \in Nat
           /\ \A p \in Addr : \A k \in 1 .. Len(log[p]) :
                /\ log[p][k] \in Entry /\ log[p][k].by \in Sessions
                /\ log[p][k].pub \in Nat /\ log[p][k].ack \in Nat
           /\ \A t \in Sessions : npub[t] \in Nat
           /\ \A p \in Addr : nextAckNum[p] \in Nat
           /\ \A p \in Addr : p \in Nat
           /\ nInfo \in Nat
<1>1. log \in [Addr -> Seq(Entry)] /\ npub \in [Sessions -> Nat]
      /\ nextAckNum \in [Addr -> 0 .. AckMod - 1] /\ nInfo \in 0 .. MaxSubs
  BY DEF TypeInv, TypeOK, SubTypeOK
<1>2. \A p \in Addr : \A k \in 1 .. Len(log[p]) : log[p][k] \in Entry
  BY <1>1
<1>3. \A p \in Addr : \A k \in 1 .. Len(log[p]) :
        /\ log[p][k].by \in Sessions /\ log[p][k].pub \in Nat /\ log[p][k].ack \in Nat
  BY <1>2 DEF Entry
<1>4. \A p \in Addr : Len(log[p]) \in Nat
  BY <1>1
<1>5. \A p \in Addr : nextAckNum[p] \in Nat
  BY <1>1, SubscribeAssumption
<1>6. \A p \in Addr : p \in Nat
  BY SubscribeAssumption DEF Addr
<1>7. nInfo \in Nat
  BY <1>1, SubscribeAssumption
<1> QED
  BY <1>1, <1>2, <1>3, <1>4, <1>5, <1>6, <1>7

LEMMA AddInsertDelivers ==
    ASSUME TypeInv, DeliveryInv, NEW s \in Sessions, AddInsert(s)
    PROVE  DeliveryInv'
<1>1. CASE destToSubsMap[arg[s].dest] = Nil
  <2>1. OutsidePublish(s) /\ UNCHANGED deliveryVars
    BY <1>1 DEF AddInsert, Panic, OutsidePublish, pubVars, deliveryVars
  <2> QED
    BY <2>1, DeliveryKept
<1>2. CASE destToSubsMap[arg[s].dest] # Nil
  <2> DEFINE p == nInfo + 1
  <2>1. /\ pc[s] = "add3" /\ nInfo < MaxSubs /\ nInfo' = p /\ Continue(s, "add4")
        /\ nextAckNum' = [nextAckNum EXCEPT ![p] = 0]
        /\ pendingAckBitmap' = [pendingAckBitmap EXCEPT ![p] = {}]
        /\ UNCHANGED <<gor, npub, log, mutex>>
    BY <1>2 DEF AddInsert, pubVars
  <2>2. /\ nextAckNum \in [Addr -> 0 .. AckMod - 1] /\ nInfo \in Nat
        /\ pendingAckBitmap \in [Addr -> SUBSET (0 .. AckMod - 1)]
        /\ \A q \in Addr : q \in Nat
    BY LogTypes DEF TypeInv, TypeOK, SubTypeOK
  <2>3. p \in Addr /\ p > nInfo
    BY <2>1, <2>2, SubscribeAssumption DEF Addr
  <2> HIDE DEF p
  <2>4. /\ nextAckNum'[p] = 0 /\ pendingAckBitmap'[p] = {}
        /\ \A q \in Addr \ {p} : /\ nextAckNum'[q] = nextAckNum[q]
                                 /\ pendingAckBitmap'[q] = pendingAckBitmap[q]
    BY <2>1, <2>2, <2>3
  <2>5. log[p] = <<>> /\ \A t \in Sessions : gor[t][p] = "none"
    BY <2>3 DEF DeliveryInv, FreshOK
  <2>6. LockOK' /\ PubOK' /\ AckSequence' /\ PublishOrder'
    BY <2>1 DEF DeliveryInv, LockOK, PubOK, AckSequence, PublishOrder, NextAck
  <2>7. FreshOK'
    BY <2>1, <2>2 DEF DeliveryInv, FreshOK, p
  <2>8. NumberOK'
    <3>1. SUFFICES ASSUME NEW q \in Addr
                   PROVE  /\ \A t \in Sessions : gor'[t][q] = "written" =>
                               log'[q] # <<>> /\ nextAckNum'[q] = LastAck(q)'
                          /\ (\A t \in Sessions : gor'[t][q] # "written") =>
                               nextAckNum'[q] = IF log'[q] = <<>> THEN 0
                                                ELSE NextAck(LastAck(q)')
      BY DEF NumberOK, NextAck
    <3>2. CASE q = p
      BY <2>1, <2>4, <2>5, <3>2
    <3>3. CASE q # p
      BY <2>1, <2>4, <3>3 DEF DeliveryInv, NumberOK, LastAck
    <3> QED
      BY <3>2, <3>3
  <2>9. PendingAreWritten'
    BY <2>1, <2>4 DEF DeliveryInv, PendingAreWritten
  <2>10. IdleOK'
    <3>1. OutsidePublish(s)
      BY <2>1, Moves
    <3> QED
      BY <2>1, <3>1, IdleKept DEF DeliveryInv
  <2> QED
    BY <2>6, <2>7, <2>8, <2>9, <2>10 DEF DeliveryInv
<1> QED
  BY <1>1, <1>2

LEMMA PublishRangeDelivers ==
    ASSUME TypeInv, DeliveryInv, NEW s \in Sessions, PublishRange(s)
    PROVE  DeliveryInv'
<1>1. CASE msg[s].dest = Empty
  <2>1. OutsidePublish(s) /\ UNCHANGED deliveryVars
    BY <1>1, Moves DEF PublishRange, heapVars, deliveryVars
  <2> QED
    BY <2>1, DeliveryKept
<1>2. CASE msg[s].dest # Empty
  <2> DEFINE g == [p \in Addr |-> IF p \in Targets(msg[s].dest) THEN "due" ELSE "none"]
  <2>1. /\ pc[s] = "pub" /\ Continue(s, "wait")
        /\ gor' = [gor EXCEPT ![s] = g] /\ npub' = [npub EXCEPT ![s] = @ + 1]
        /\ UNCHANGED <<nInfo, log, mutex, nextAckNum, pendingAckBitmap>>
    BY <1>2 DEF PublishRange, heapVars
  <2>2. /\ gor \in [Sessions -> [Addr -> GorStates]] /\ npub \in [Sessions -> Nat]
        /\ pc \in [Sessions -> Labels]
    BY DEF TypeInv, TypeOK, SubTypeOK, ProcTypeOK
  <2>3. \A p \in Addr : /\ g[p] \in {"due", "none"}
                        /\ p > nInfo => g[p] = "none"
    BY LogTypes DEF Targets
  <2> HIDE DEF g
  <2>4. /\ \A p \in Addr : gor[s][p] = "none" /\ gor'[s][p] \in {"due", "none"}
                           /\ (p > nInfo => gor'[s][p] = "none")
        /\ \A t \in Sessions \ {s}, p \in Addr : gor'[t][p] = gor[t][p]
    BY <2>1, <2>2, <2>3 DEF DeliveryInv, IdleOK
  <2>5. /\ npub'[s] = npub[s] + 1 /\ npub[s] \in Nat
        /\ \A t \in Sessions \ {s} : npub'[t] = npub[t]
    BY <2>1, <2>2
  <2>6. LockOK'
    BY <2>1, <2>4 DEF DeliveryInv, LockOK
  <2>7. FreshOK'
    BY <2>1, <2>4 DEF DeliveryInv, FreshOK
  <2>8. NumberOK'
    <3>1. \A t \in Sessions, p \in Addr : gor'[t][p] = "written" <=> gor[t][p] = "written"
      BY <2>4
    <3> QED
      BY <2>1, <3>1 DEF DeliveryInv, NumberOK, LastAck, NextAck
  <2>9. PubOK'
    <3>1. SUFFICES ASSUME NEW p \in Addr, NEW k \in 1 .. Len(log[p])
                   PROVE  /\ log[p][k].pub =< npub'[log[p][k].by]
                          /\ gor'[log[p][k].by][p] \in {"due", "start", "locked"} =>
                                log[p][k].pub < npub'[log[p][k].by]
      BY <2>1 DEF PubOK
    <3>2. /\ log[p][k].pub =< npub[log[p][k].by]
          /\ gor[log[p][k].by][p] \in {"due", "start", "locked"} =>
                log[p][k].pub < npub[log[p][k].by]
      BY DEF DeliveryInv, PubOK
    <3>3. log[p][k].by \in Sessions /\ log[p][k].pub \in Nat
      BY LogTypes
    <3>4. CASE log[p][k].by = s
      BY <2>5, <3>2, <3>3, <3>4
    <3>5. CASE log[p][k].by # s
      BY <2>4, <2>5, <3>2, <3>3, <3>5
    <3> QED
      BY <3>4, <3>5
  <2>10. IdleOK'
    BY <2>1, <2>2, <2>4 DEF DeliveryInv, IdleOK, Continue, Goto
  <2>11. AckSequence' /\ PublishOrder' /\ PendingAreWritten'
    BY <2>1 DEF DeliveryInv, AckSequence, PublishOrder, PendingAreWritten, NextAck
  <2> QED
    BY <2>6, <2>7, <2>8, <2>9, <2>10, <2>11 DEF DeliveryInv
<1> QED
  BY <1>1, <1>2

\* What the steps below have in common: one goroutine moves on, nothing is sent.
GorMoves(s, p, state) ==
    /\ SetGor(s, p, state)
    /\ UNCHANGED <<procVars, nInfo, npub, log>>

LEMMA GorMovesKeeps ==
    ASSUME TypeInv, DeliveryInv, NEW s \in Sessions, NEW p \in Addr, NEW state \in GorStates,
           GorMoves(s, p, state), gor[s][p] # "none",
           state \in {"due", "start", "locked"} => gor[s][p] \in {"due", "start", "locked"}
    PROVE  FreshOK' /\ PubOK' /\ IdleOK' /\ AckSequence' /\ PublishOrder'
<1>1. /\ gor'[s][p] = state
      /\ \A t \in Sessions, q \in Addr : t # s \/ q # p => gor'[t][q] = gor[t][q]
  BY SetGorType DEF GorMoves, TypeInv, TypeOK
<1>2. /\ UNCHANGED <<pc, nInfo, npub, log>>
  BY DEF GorMoves, procVars
<1>3. FreshOK'
  BY <1>1, <1>2 DEF DeliveryInv, FreshOK
<1>4. PubOK'
  <2>1. SUFFICES ASSUME NEW q \in Addr, NEW k \in 1 .. Len(log[q])
                 PROVE  /\ log[q][k].pub =< npub[log[q][k].by]
                        /\ gor'[log[q][k].by][q] \in {"due", "start", "locked"} =>
                              log[q][k].pub < npub[log[q][k].by]
    BY <1>2 DEF PubOK
  <2>2. /\ log[q][k].pub =< npub[log[q][k].by]
        /\ gor[log[q][k].by][q] \in {"due", "start", "locked"} =>
              log[q][k].pub < npub[log[q][k].by]
    BY DEF DeliveryInv, PubOK
  <2>3. log[q][k].by \in Sessions
    BY LogTypes
  <2> QED
    BY <1>1, <2>2, <2>3
<1>5. IdleOK'
  BY <1>1, <1>2 DEF DeliveryInv, IdleOK
<1>6. AckSequence' /\ PublishOrder'
  BY <1>2 DEF DeliveryInv, AckSequence, PublishOrder, NextAck
<1> QED
  BY <1>3, <1>4, <1>5, <1>6

LEMMA PublishNextDelivers ==
    ASSUME TypeInv, DeliveryInv, NEW s \in Sessions, NEW p \in Addr, PublishNext(s, p)
    PROVE  DeliveryInv'
<1>1. PICK state \in {"start", "none"} : GorMoves(s, p, state)
  BY DEF PublishNext, GorMoves, heapVars
<1>2. gor[s][p] = "due" /\ UNCHANGED <<log, mutex, nextAckNum, pendingAckBitmap>>
  BY DEF PublishNext, heapVars
<1>3. state \in GorStates
  BY DEF GorStates
<1>4. /\ gor'[s][p] = state
      /\ \A t \in Sessions, q \in Addr : t # s \/ q # p => gor'[t][q] = gor[t][q]
  BY <1>1, <1>3, SetGorType DEF GorMoves, TypeInv, TypeOK
<1>5. FreshOK' /\ PubOK' /\ IdleOK' /\ AckSequence' /\ PublishOrder'
  BY <1>1, <1>2, <1>3, GorMovesKeeps
<1>6. LockOK'
  BY <1>2, <1>4 DEF DeliveryInv, LockOK
<1>7. NumberOK'
  <2>1. \A t \in Sessions, q \in Addr : gor'[t][q] = "written" <=> gor[t][q] = "written"
    BY <1>2, <1>4
  <2> QED
    BY <1>2, <2>1 DEF DeliveryInv, NumberOK, LastAck, NextAck
<1>8. PendingAreWritten'
  BY <1>2 DEF DeliveryInv, PendingAreWritten
<1> QED
  BY <1>5, <1>6, <1>7, <1>8 DEF DeliveryInv

LEMMA PublishWaitDelivers ==
    ASSUME TypeInv, DeliveryInv, NEW s \in Sessions, PublishWait(s)
    PROVE  DeliveryInv'
<1> DEFINE g == [p \in Addr |-> "none"]
<1>1. /\ gor' = [gor EXCEPT ![s] = g]
      /\ \A p \in Addr : gor[s][p] \in {"none", "done"}
      /\ Return(s) \/ Continue(s, "foreach")
      /\ UNCHANGED <<nInfo, npub, log, mutex, nextAckNum, pendingAckBitmap>>
  BY DEF PublishWait, heapVars
<1>2. gor \in [Sessions -> [Addr -> GorStates]] /\ pc \in [Sessions -> Labels]
  BY DEF TypeInv, TypeOK, SubTypeOK, ProcTypeOK
<1>3. \A p \in Addr : g[p] = "none"
  OBVIOUS
<1> HIDE DEF g
<1>4. /\ \A p \in Addr : gor'[s][p] = "none"
      /\ \A t \in Sessions \ {s}, p \in Addr : gor'[t][p] = gor[t][p]
  BY <1>1, <1>2, <1>3
<1>5. LockOK' /\ FreshOK'
  BY <1>1, <1>4 DEF DeliveryInv, LockOK, FreshOK
<1>6. NumberOK'
  <2>1. \A t \in Sessions, p \in Addr : gor'[t][p] = "written" <=> gor[t][p] = "written"
    BY <1>1, <1>4
  <2> QED
    BY <1>1, <2>1 DEF DeliveryInv, NumberOK, LastAck, NextAck
<1>7. PubOK'
  <2>1. \A t \in Sessions, p \in Addr :
          gor'[t][p] \in {"due", "start", "locked"} => gor[t][p] = gor'[t][p]
    BY <1>4
  <2> QED
    BY <1>1, <2>1, LogTypes DEF DeliveryInv, PubOK
<1>8. IdleOK'
  <2>1. \A t \in Sessions \ {s} : pc'[t] = pc[t]
    BY <1>1, <1>2 DEF Return, Continue, Goto
  <2> QED
    BY <1>4, <2>1 DEF DeliveryInv, IdleOK
<1>9. AckSequence' /\ PublishOrder' /\ PendingAreWritten'
  BY <1>1 DEF DeliveryInv, AckSequence, PublishOrder, PendingAreWritten, NextAck
<1> QED
  BY <1>5, <1>6, <1>7, <1>8, <1>9 DEF DeliveryInv

LEMMA SendLockDelivers ==
    ASSUME TypeInv, DeliveryInv, NEW s \in Sessions, NEW p \in Addr, SendLock(s, p)
    PROVE  DeliveryInv'
<1>1. /\ GorMoves(s, p, "locked") /\ gor[s][p] = "start" /\ mutex[p] = Nil
      /\ mutex' = [mutex EXCEPT ![p] = s]
      /\ UNCHANGED <<log, nextAckNum, pendingAckBitmap>>
  BY DEF SendLock, GorMoves
<1>2. "locked" \in GorStates /\ mutex \in [Addr -> Sessions \cup {Nil}]
  BY DEF GorStates, TypeInv, TypeOK, SubTypeOK
<1>3. /\ gor'[s][p] = "locked"
      /\ \A t \in Sessions, q \in Addr : t # s \/ q # p => gor'[t][q] = gor[t][q]
  BY <1>1, <1>2, SetGorType DEF GorMoves, TypeInv, TypeOK
<1>4. FreshOK' /\ PubOK' /\ IdleOK' /\ AckSequence' /\ PublishOrder'
  BY <1>1, <1>2, GorMovesKeeps
<1>5. LockOK'
  BY <1>1, <1>2, <1>3, ProcessAssumption DEF DeliveryInv, LockOK
<1>6. NumberOK'
  <2>1. \A t \in Sessions, q \in Addr : gor'[t][q] = "written" <=> gor[t][q] = "written"
    BY <1>1, <1>3
  <2> QED
    BY <1>1, <2>1 DEF DeliveryInv, NumberOK, LastAck, NextAck
<1>7. PendingAreWritten'
  BY <1>1 DEF DeliveryInv, PendingAreWritten
<1> QED
  BY <1>4, <1>5, <1>6, <1>7 DEF DeliveryInv

LEMMA SendFailsDelivers ==
    ASSUME TypeInv, DeliveryInv, NEW s \in Sessions, NEW p \in Addr, SendFails(s, p)
    PROVE  DeliveryInv'
<1>1. /\ GorMoves(s, p, "failed") /\ gor[s][p] = "locked"
      /\ mutex' = [mutex EXCEPT ![p] = Nil]
      /\ UNCHANGED <<log, nextAckNum, pendingAckBitmap>>
  BY DEF SendFails, GorMoves
<1>2. "failed" \in GorStates /\ mutex \in [Addr -> Sessions \cup {Nil}]
  BY DEF GorStates, TypeInv, TypeOK, SubTypeOK
<1>3. /\ gor'[s][p] = "failed"
      /\ \A t \in Sessions, q \in Addr : t # s \/ q # p => gor'[t][q] = gor[t][q]
  BY <1>1, <1>2, SetGorType DEF GorMoves, TypeInv, TypeOK
<1>4. FreshOK' /\ PubOK' /\ IdleOK' /\ AckSequence' /\ PublishOrder'
  BY <1>1, <1>2, GorMovesKeeps
<1>5. LockOK'
  BY <1>1, <1>2, <1>3, ProcessAssumption DEF DeliveryInv, LockOK
<1>6. NumberOK'
  <2>1. \A t \in Sessions, q \in Addr : gor'[t][q] = "written" <=> gor[t][q] = "written"
    BY <1>1, <1>3
  <2> QED
    BY <1>1, <2>1 DEF DeliveryInv, NumberOK, LastAck, NextAck
<1>7. PendingAreWritten'
  BY <1>1 DEF DeliveryInv, PendingAreWritten
<1> QED
  BY <1>4, <1>5, <1>6, <1>7 DEF DeliveryInv

LEMMA SendDoneDelivers ==
    ASSUME TypeInv, DeliveryInv, NEW s \in Sessions, NEW p \in Addr, SendDone(s, p)
    PROVE  DeliveryInv'
<1>1. /\ GorMoves(s, p, "done") /\ gor[s][p] = "written"
      /\ mutex' = [mutex EXCEPT ![p] = Nil]
      /\ nextAckNum' = [nextAckNum EXCEPT ![p] = NextAck(@)]
      /\ pendingAckBitmap' = [pendingAckBitmap EXCEPT ![p] = @ \cup {nextAckNum[p]}]
      /\ UNCHANGED log
  BY DEF SendDone, GorMoves
<1>2. /\ "done" \in GorStates /\ mutex \in [Addr -> Sessions \cup {Nil}]
      /\ nextAckNum \in [Addr -> 0 .. AckMod - 1]
      /\ pendingAckBitmap \in [Addr -> SUBSET (0 .. AckMod - 1)]
  BY DEF GorStates, TypeInv, TypeOK, SubTypeOK
<1>3. /\ gor'[s][p] = "done"
      /\ \A t \in Sessions, q \in Addr : t # s \/ q # p => gor'[t][q] = gor[t][q]
  BY <1>1, <1>2, SetGorType DEF GorMoves, TypeInv, TypeOK
<1>4. FreshOK' /\ PubOK' /\ IdleOK' /\ AckSequence' /\ PublishOrder'
  BY <1>1, <1>2, GorMovesKeeps
<1>5. LockOK'
  BY <1>1, <1>2, <1>3, ProcessAssumption DEF DeliveryInv, LockOK
<1>6. /\ nextAckNum'[p] = NextAck(nextAckNum[p])
      /\ pendingAckBitmap'[p] = pendingAckBitmap[p] \cup {nextAckNum[p]}
      /\ \A q \in Addr \ {p} : /\ nextAckNum'[q] = nextAckNum[q]
                               /\ pendingAckBitmap'[q] = pendingAckBitmap[q]
  BY <1>1, <1>2
<1>7. log[p] # <<>> /\ nextAckNum[p] = LastAck(p)
  BY <1>1 DEF DeliveryInv, NumberOK
<1>8. \A t \in Sessions : gor'[t][p] # "written"
  BY <1>1, <1>3 DEF DeliveryInv, LockOK
<1>9. NumberOK'
  <2>1. LastAck(p)' = LastAck(p)
    BY <1>1 DEF LastAck
  <2>2. \A q \in Addr \ {p} : \A t \in Sessions : gor'[t][q] = gor[t][q]
    BY <1>3
  <2>3. SUFFICES ASSUME NEW q \in Addr
                 PROVE  /\ \A t \in Sessions : gor'[t][q] = "written" =>
                             log'[q] # <<>> /\ nextAckNum'[q] = LastAck(q)'
                        /\ (\A t \in Sessions : gor'[t][q] # "written") =>
                             nextAckNum'[q] = IF log'[q] = <<>> THEN 0
                                              ELSE NextAck(LastAck(q)')
    BY DEF NumberOK, NextAck
  <2>4. CASE q = p
    BY <1>1, <1>6, <1>7, <1>8, <2>1, <2>4
  <2>5. CASE q # p
    BY <1>1, <1>6, <2>2, <2>5 DEF DeliveryInv, NumberOK, LastAck
  <2> QED
    BY <2>4, <2>5
<1>10. PendingAreWritten'
  <2>1. Len(log[p]) \in 1 .. Len(log[p]) /\ log[p][Len(log[p])].ack = nextAckNum[p]
    BY <1>7, LogTypes DEF LastAck
  <2>2. SUFFICES ASSUME NEW q \in Addr, NEW n \in pendingAckBitmap'[q]
                 PROVE  \E k \in 1 .. Len(log[q]) : log[q][k].ack = n
    BY <1>1 DEF PendingAreWritten
  <2>3. CASE n \in pendingAckBitmap[q]
    BY <2>3 DEF DeliveryInv, PendingAreWritten
  <2>4. CASE n \notin pendingAckBitmap[q]
    BY <1>6, <2>1, <2>4
  <2> QED
    BY <2>3, <2>4
<1> QED
  BY <1>4, <1>5, <1>9, <1>10 DEF DeliveryInv

\* The step that sends: under the lock, so that no other goroutine is between its own
\* write and its increment of nextAckNum.
LEMMA SendWriteDelivers ==
    ASSUME TypeInv, DeliveryInv, NEW s \in Sessions, NEW p \in Addr, SendWrite(s, p)
    PROVE  DeliveryInv'
<1> DEFINE e == [by |-> s, pub |-> npub[s], ack |-> nextAckNum[p], msg |-> msg[s]]
<1>1. /\ gor[s][p] = "locked" /\ SetGor(s, p, "written")
      /\ log' = [log EXCEPT ![p] = Append(@, e)]
      /\ UNCHANGED <<pc, nInfo, npub, mutex, nextAckNum, pendingAckBitmap>>
  BY DEF SendWrite, procVars, heapVars
<1>2. e.by = s /\ e.pub = npub[s] /\ e.ack = nextAckNum[p]
  OBVIOUS
<1>3. e \in Entry
  BY LogTypes DEF Entry, TypeInv, TypeOK, ProcTypeOK
<1> HIDE DEF e
<1>4. /\ gor'[s][p] = "written"
      /\ \A t \in Sessions, q \in Addr : t # s \/ q # p => gor'[t][q] = gor[t][q]
  BY <1>1, SetGorType DEF GorStates, TypeInv, TypeOK
<1>5. /\ log[p] \in Seq(Entry) /\ Len(log[p]) \in Nat
      /\ log'[p] = Append(log[p], e)
      /\ \A q \in Addr \ {p} : log'[q] = log[q]
  BY <1>1, LogTypes DEF TypeInv, TypeOK, SubTypeOK
<1> DEFINE n == Len(log[p])
<1>6. /\ log'[p] # <<>> /\ Len(log'[p]) = n + 1 /\ log'[p][n + 1] = e
      /\ \A k \in 1 .. n : log'[p][k] = log[p][k]
  BY <1>3, <1>5
<1>7. \A t \in Sessions : gor[t][p] # "written"
  BY <1>1 DEF DeliveryInv, LockOK
<1>8. nextAckNum[p] = IF log[p] = <<>> THEN 0 ELSE NextAck(LastAck(p))
  BY <1>7 DEF DeliveryInv, NumberOK
<1>9. LockOK'
  BY <1>1, <1>4 DEF DeliveryInv, LockOK
<1>10. FreshOK'
  BY <1>1, <1>4, <1>5 DEF DeliveryInv, FreshOK
<1>11. NumberOK'
  <2>1. LastAck(p)' = nextAckNum[p]
    BY <1>2, <1>6 DEF LastAck
  <2>2. SUFFICES ASSUME NEW q \in Addr
                 PROVE  /\ \A t \in Sessions : gor'[t][q] = "written" =>
                             log'[q] # <<>> /\ nextAckNum'[q] = LastAck(q)'
                        /\ (\A t \in Sessions : gor'[t][q] # "written") =>
                             nextAckNum'[q] = IF log'[q] = <<>> THEN 0
                                              ELSE NextAck(LastAck(q)')
    BY DEF NumberOK, NextAck
  <2>3. CASE q = p
    BY <1>1, <1>4, <1>6, <2>1, <2>3
  <2>4. CASE q # p
    BY <1>1, <1>4, <1>5, <2>4 DEF DeliveryInv, NumberOK, LastAck
  <2> QED
    BY <2>3, <2>4
<1>12. \A k \in 1 .. n : log[p][k].by = s => log[p][k].pub < npub[s]
  BY <1>1 DEF DeliveryInv, PubOK
<1>13. PubOK'
  <2>1. SUFFICES ASSUME NEW q \in Addr, NEW k \in 1 .. Len(log'[q])
                 PROVE  /\ log'[q][k].pub =< npub[log'[q][k].by]
                        /\ gor'[log'[q][k].by][q] \in {"due", "start", "locked"} =>
                              log'[q][k].pub < npub[log'[q][k].by]
    BY <1>1 DEF PubOK
  <2>2. CASE q = p /\ k = n + 1
    BY <1>2, <1>4, <1>6, <2>2, LogTypes
  <2>3. CASE q # p \/ k # n + 1
    <3>1. k \in 1 .. Len(log[q]) /\ log'[q][k] = log[q][k]
      BY <1>5, <1>6, <2>3
    <3>2. /\ log[q][k].pub =< npub[log[q][k].by]
          /\ gor[log[q][k].by][q] \in {"due", "start", "locked"} =>
                log[q][k].pub < npub[log[q][k].by]
      BY <3>1 DEF DeliveryInv, PubOK
    <3>3. log[q][k].by \in Sessions
      BY <3>1, LogTypes
    <3> QED
      BY <1>4, <3>1, <3>2, <3>3
  <2> QED
    BY <2>2, <2>3
<1>14. IdleOK'
  BY <1>1, <1>4 DEF DeliveryInv, IdleOK
<1>15. AckSequence'
  <2>1. SUFFICES ASSUME NEW q \in Addr, NEW k \in 1 .. Len(log'[q])
                 PROVE  log'[q][k].ack = IF k = 1 THEN 0 ELSE NextAck(log'[q][k - 1].ack)
    BY DEF AckSequence, NextAck
  <2>2. CASE q = p /\ k = n + 1
    <3>1. CASE n = 0
      BY <1>2, <1>5, <1>6, <1>8, <2>2, <3>1
    <3>2. CASE n # 0
      <4>1. log[p] # <<>> /\ n \in 1 .. n /\ log'[p][n] = log[p][n] /\ k - 1 = n /\ k # 1
        BY <1>5, <1>6, <2>2, <3>2
      <4> QED
        BY <1>2, <1>6, <1>8, <2>2, <4>1 DEF LastAck
    <3> QED
      BY <3>1, <3>2
  <2>3. CASE q # p \/ k # n + 1
    <3>1. k \in 1 .. Len(log[q]) /\ log'[q][k] = log[q][k]
      BY <1>5, <1>6, <2>3
    <3>2. k # 1 => k - 1 \in 1 .. Len(log[q])
      BY <3>1, LogTypes
    <3>3. k # 1 => log'[q][k - 1] = log[q][k - 1]
      BY <1>5, <1>6, <3>2
    <3>4. log[q][k].ack = IF k = 1 THEN 0 ELSE NextAck(log[q][k - 1].ack)
      BY <3>1 DEF DeliveryInv, AckSequence
    <3> QED
      BY <3>1, <3>3, <3>4
  <2> QED
    BY <2>2, <2>3
<1>16. PublishOrder'
  <2>1. SUFFICES ASSUME NEW q \in Addr, NEW j \in 1 .. Len(log'[q]),
                        NEW k \in 1 .. Len(log'[q]),
                        j < k, log'[q][j].by = log'[q][k].by
                 PROVE  log'[q][j].pub < log'[q][k].pub
    BY DEF PublishOrder
  <2>2. CASE q = p /\ k = n + 1
    <3>1. j \in 1 .. n
      BY <1>5, <1>6, <2>1, <2>2
    <3> QED
      BY <1>2, <1>6, <1>12, <2>1, <2>2, <3>1
  <2>3. CASE q # p \/ k # n + 1
    <3>1. k \in 1 .. Len(log[q]) /\ log'[q][k] = log[q][k]
      BY <1>5, <1>6, <2>3
    <3>2. j \in 1 .. Len(log[q])
      BY <2>1, <3>1, LogTypes
    <3>3. log'[q][j] = log[q][j]
      BY <1>5, <1>6, <3>2
    <3> QED
      BY <2>1, <3>1, <3>2, <3>3 DEF DeliveryInv, PublishOrder
  <2> QED
    BY <2>2, <2>3
<1>17. PendingAreWritten'
  <2>1. SUFFICES ASSUME NEW q \in Addr, NEW m \in pendingAckBitmap[q]
                 PROVE  \E k \in 1 .. Len(log'[q]) : log'[q][k].ack = m
    BY <1>1 DEF PendingAreWritten
  <2>2. PICK k \in 1 .. Len(log[q]) : log[q][k].ack = m
    BY DEF DeliveryInv, PendingAreWritten
  <2>3. k \in 1 .. Len(log'[q]) /\ log'[q][k] = log[q][k]
    BY <1>5, <1>6
  <2> QED
    BY <2>2, <2>3
<1> QED
  BY <1>9, <1>10, <1>11, <1>13, <1>14, <1>15, <1>16, <1>17 DEF DeliveryInv

\* An ACK only takes numbers away.
LEMMA AckApplyDelivers ==
    ASSUME TypeInv, DeliveryInv, NEW s \in Sessions, AckApply(s)
    PROVE  DeliveryInv'
<1>1. /\ pc[s] = "ack3" /\ Return(s)
      /\ pendingAckBitmap' = [pendingAckBitmap EXCEPT
            ![ptr[s]] = AfterAck(info[ptr[s]].ackMode, @, arg[s].ack)]
      /\ UNCHANGED <<nInfo, gor, npub, log, mutex, nextAckNum>>
  BY DEF AckApply, pubVars
<1>2. OutsidePublish(s)
  BY <1>1, Moves
<1>3. IdleOK'
  BY <1>1, <1>2, IdleKept DEF DeliveryInv
<1>4. LockOK' /\ FreshOK' /\ PubOK' /\ PublishOrder'
  BY <1>1 DEF DeliveryInv, LockOK, FreshOK, PubOK, PublishOrder
<1>5. NumberOK' /\ AckSequence'
  BY <1>1 DEF DeliveryInv, NumberOK, AckSequence, LastAck, NextAck
<1>6. \A mode, P, k : AfterAck(mode, P, k) \subseteq P
  BY DEF AfterAck
<1>7. \A p \in Addr : pendingAckBitmap'[p] \subseteq pendingAckBitmap[p]
  BY <1>1, <1>6 DEF TypeInv, TypeOK, SubTypeOK
<1>8. PendingAreWritten'
  BY <1>1, <1>7 DEF DeliveryInv, PendingAreWritten
<1> QED
  BY <1>3, <1>4, <1>5, <1>8 DEF DeliveryInv

----------------------------------------------------------------------------
LEMMA DeliveryInit == Init => DeliveryInv
<1> SUFFICES ASSUME Init PROVE DeliveryInv
  OBVIOUS
<1>1. /\ \A p \in Addr : /\ log[p] = <<>> /\ mutex[p] = Nil /\ nextAckNum[p] = 0
                         /\ pendingAckBitmap[p] = {}
      /\ \A s \in Sessions, p \in Addr : gor[s][p] = "none"
  BY DEF Init, SubInit
<1>2. LockOK
  BY <1>1, ProcessAssumption DEF LockOK
<1>3. FreshOK /\ NumberOK /\ IdleOK
  BY <1>1 DEF FreshOK, NumberOK, IdleOK
<1>4. \A p \in Addr : 1 .. Len(log[p]) = {}
  BY <1>1
<1>5. PubOK /\ AckSequence /\ PublishOrder /\ PendingAreWritten
  BY <1>1, <1>4 DEF PubOK, AckSequence, PublishOrder, PendingAreWritten
<1> QED
  BY <1>2, <1>3, <1>5 DEF DeliveryInv

LEMMA DeliveryNext ==
    ASSUME TypeInv, DeliveryInv, [Next]_vars
    PROVE  DeliveryInv'
<1>1. CASE UNCHANGED vars
  <2>1. /\ UNCHANGED deliveryVars /\ pc' = pc
    BY <1>1 DEF vars, procVars, subVars, heapVars, pubVars, deliveryVars
  <2>2. IdleOK'
    BY <2>1 DEF DeliveryInv, IdleOK, deliveryVars
  <2>3. LockOK' /\ FreshOK' /\ PubOK' /\ PublishOrder' /\ PendingAreWritten'
    BY <2>1 DEF DeliveryInv, deliveryVars, LockOK, FreshOK, PubOK, PublishOrder,
                PendingAreWritten
  <2>4. NumberOK' /\ AckSequence'
    BY <2>1 DEF DeliveryInv, deliveryVars, NumberOK, AckSequence, LastAck, NextAck
  <2> QED
    BY <2>2, <2>3, <2>4 DEF DeliveryInv
<1>2. CASE Next
  <2>1. PICK s \in Sessions :
          \/ ReceiveStep(s)
          \/ SessionStep(s) /\ UNCHANGED <<subVars, txVars, clientVars>>
          \/ SubscribeStep(s) /\ UNCHANGED <<sessVars, txVars, clientVars>>
          \/ TransactionStep(s) /\ UNCHANGED <<sessVars, subVars, clientVars>>
          \/ \E t \in Sessions : MapFault(s, t)
    BY <1>2 DEF Next
  <2>2. CASE ReceiveStep(s)
    BY <2>2, ReceiveOutside, DeliveryKept
  <2>3. CASE SessionStep(s) /\ UNCHANGED <<subVars, txVars, clientVars>>
    BY <2>3, SessionOutside, DeliveryKept
  <2>4. CASE TransactionStep(s) /\ UNCHANGED <<sessVars, subVars, clientVars>>
    BY <2>4, TransactionOutside, DeliveryKept
  <2>5. CASE \E t \in Sessions : MapFault(s, t)
    <3>1. OutsidePublish(s) /\ UNCHANGED deliveryVars
      BY <2>5 DEF MapFault, Panic, OutsidePublish, subVars, heapVars, pubVars, deliveryVars
    <3> QED
      BY <3>1, DeliveryKept
  <2>6. CASE SubscribeStep(s)
    <3>1. \/ RegistryStep(s) \/ AddInsert(s) \/ PublishRange(s) \/ PublishWait(s)
          \/ AckApply(s) \/ \E p \in Addr : PublishNext(s, p) \/ SendStep(s, p)
      BY <2>6 DEF SubscribeStep, HandlerStep, RegistryStep
    <3>2. CASE RegistryStep(s)
      BY <3>2, RegistryOutside, DeliveryKept
    <3>3. CASE AddInsert(s)
      BY <3>3, AddInsertDelivers
    <3>4. CASE PublishRange(s)
      BY <3>4, PublishRangeDelivers
    <3>5. CASE PublishWait(s)
      BY <3>5, PublishWaitDelivers
    <3>6. CASE AckApply(s)
      BY <3>6, AckApplyDelivers
    <3>7. CASE \E p \in Addr : PublishNext(s, p) \/ SendStep(s, p)
      BY <3>7, PublishNextDelivers, SendLockDelivers, SendWriteDelivers, SendDoneDelivers,
         SendFailsDelivers DEF SendStep
    <3> QED
      BY <3>1, <3>2, <3>3, <3>4, <3>5, <3>6, <3>7
  <2> QED
    BY <2>1, <2>2, <2>3, <2>4, <2>5, <2>6
<1> QED
  BY <1>1, <1>2

\* The inductive invariant holds in every reachable state.
LEMMA DeliveryInvariant == Spec => []DeliveryInv
<1>1. Init => DeliveryInv
  BY DeliveryInit
<1>2. TypeInv /\ DeliveryInv /\ [Next]_vars => DeliveryInv'
  BY DeliveryNext
<1> QED
  BY <1>1, <1>2, TypeInvariant, PTL DEF Spec

\* For any number of sessions publishing to a subscription at once, its MESSAGE frames
\* carry 0, 1, 2, ... in the order they are written, up to the wraparound of uint32.
THEOREM AckNumbersInSequence == Spec => []AckSequence
<1>1. DeliveryInv => AckSequence
  BY DEF DeliveryInv
<1> QED
  BY <1>1, DeliveryInvariant, PTL

\* No call of publish() by a session overtakes an earlier one at any subscription, and
\* none writes a frame twice, whatever the goroutines' interleaving.
THEOREM PublishedInOrder == Spec => []PublishOrder
<1>1. DeliveryInv => PublishOrder
  BY DEF DeliveryInv
<1> QED
  BY <1>1, DeliveryInvariant, PTL

\* The bitmap of a subscription never holds a number that no MESSAGE carried, although
\* writes fail and ACKs arrive between the write and the increment.
THEOREM PendingWereWritten == Spec => []PendingAreWritten
<1>1. DeliveryInv => PendingAreWritten
  BY DEF DeliveryInv
<1> QED
  BY <1>1, DeliveryInvariant, PTL

----------------------------------------------------------------------------
\* Publishing implements TopicStream.

Unsent == {"due", "start", "locked"}

\* Objects that were not allocated have no fields.
HeapOK == \A p \in Addr : p > nInfo => info[p] = Nil

\* The map of a destination leads to objects made for this destination and this ID.
RoutesOK ==
    \A d \in Dests, i \in SubsIDs :
        Lookup(d, i) # Nil => info[Lookup(d, i)].dest = d /\ info[Lookup(d, i)].id = i

\* What a call of publish() has yet to deal with belongs to its destination.
DueOK ==
    \A s \in Sessions, p \in Addr :
        gor[s][p] # "none" => p =< nInfo /\ info[p].dest = msg[s].dest

\* nextAckNum counts the messages written, modulo its width.
CountOK ==
    \A p \in Addr :
        /\ \A s \in Sessions : gor[s][p] = "written" =>
                Len(log[p]) > 0 /\ nextAckNum[p] = (Len(log[p]) - 1) % AckMod
        /\ (\A s \in Sessions : gor[s][p] # "written") =>
                nextAckNum[p] = Len(log[p]) % AckMod

StreamInv == HeapOK /\ RoutesOK /\ DueOK /\ CountOK

----------------------------------------------------------------------------
\* Arithmetic of the counter.

LEMMA DivideWithRest ==
    ASSUME NEW n \in Nat, NEW m \in Nat \ {0}
    PROVE  n = m * (n \div m) + (n % m) /\ n % m \in 0 .. m - 1 /\ n \div m \in Nat
OBVIOUS

LEMMA RestIsUnique ==
    ASSUME NEW q \in Nat, NEW r \in Nat, NEW m \in Nat \ {0}, r < m
    PROVE  (m * q + r) % m = r
OBVIOUS

\* Counting modulo m is the same as counting and taking the rest.
LEMMA CountModulo ==
    ASSUME NEW n \in Nat, NEW m \in Nat \ {0}
    PROVE  ((n % m) + 1) % m = (n + 1) % m
<1> DEFINE q == n \div m
           r == n % m
<1>1. n = m * q + r /\ r \in Nat /\ r < m /\ q \in Nat
  BY DivideWithRest
<1> HIDE DEF q, r
<1>2. CASE r + 1 < m
  <2>1. n + 1 = m * q + (r + 1)
    BY <1>1
  <2>2. (m * q + (r + 1)) % m = r + 1
    BY <1>1, <1>2, RestIsUnique
  <2>3. (r + 1) % m = r + 1
    BY <1>1, <1>2
  <2> QED
    BY <2>1, <2>2, <2>3 DEF r
<1>3. CASE r + 1 = m
  <2>1. n + 1 = m * (q + 1) + 0
    BY <1>1, <1>3
  <2>2. (m * (q + 1) + 0) % m = 0
    BY <1>1, RestIsUnique
  <2>3. (r + 1) % m = 0
    <3>1. m * 1 + 0 = r + 1 /\ (m * 1 + 0) % m = 0
      BY <1>1, <1>3, RestIsUnique
    <3> QED
      BY <3>1
  <2> QED
    BY <2>1, <2>2, <2>3 DEF r
<1> QED
  BY <1>1, <1>2, <1>3

----------------------------------------------------------------------------
\* The steps that neither publish nor make a subscription.

\* s is not in publish() before and after the step, and the other sessions stay.
Calm(s) ==
    \/ UNCHANGED <<pc, msg>>
    \/ /\ pc[s] # "wait" /\ pc'[s] # "wait"
       /\ \A u \in Sessions \ {s} : pc'[u] = pc[u] /\ msg'[u] = msg[u]

LEMMA CalmMoves ==
    ASSUME TypeInv, NEW s \in Sessions, pc[s] # "wait",
           \/ Return(s) \/ Fail(s)
           \/ \E l \in Labels \ {"wait"} : \/ Continue(s, l) \/ HandledAtOnce(s, l)
                                           \/ Goto(s, l) /\ \E m : msg' = [msg EXCEPT ![s] = m]
                                           \/ Goto(s, l) /\ UNCHANGED msg
           \/ \E why : Panic(why)
    PROVE  Calm(s)
BY DEF TypeInv, TypeOK, ProcTypeOK, Return, Fail, Continue, Goto, HandledAtOnce, Panic, Calm

LEMMA ReceiveCalm ==
    ASSUME TypeInv, NEW s \in Sessions, ReceiveStep(s)
    PROVE  Calm(s) /\ UNCHANGED <<info, gor, npub, log>>
<1>1. UNCHANGED subVars
  BY DEF ReceiveStep, Receive, Send, SubscribeTo, Unsubscribe, Ack, AckMalformed, Nack,
         Begin, Commit, Abort, EndTx, Disconnect
<1>2. pc[s] # "wait"
  BY DEF ReceiveStep, Receive, Send, SubscribeTo, Unsubscribe, Ack, AckMalformed, Nack,
         Begin, Commit, Abort, EndTx, Disconnect, MayReceive
<1>3. \/ \E f : \E l \in {"pub", "buf1", "add1", "rm1", "ack1", "beg1", "com1", "abt1",
                          "cleanup1"} : Receive(s, f, l)
      \/ \E l \in {"idle", "return"} : HandledAtOnce(s, l)
      \/ \E why : Panic(why)
  BY DEF ReceiveStep, Send, SubscribeTo, Unsubscribe, Ack, AckMalformed, Nack,
         Begin, Commit, Abort, EndTx, Disconnect
<1>4. Calm(s)
  BY <1>2, <1>3, CalmMoves DEF Receive, Labels
<1> QED
  BY <1>1, <1>4 DEF subVars, heapVars, pubVars

LEMMA SessionCalm ==
    ASSUME TypeInv, NEW s \in Sessions, SessionStep(s)
    PROVE  Calm(s)
<1>1. CASE PeerLeaves(s)
  BY <1>1 DEF PeerLeaves, procVars, Calm
<1>2. CASE ~PeerLeaves(s)
  <2>1. pc[s] # "wait"
    BY <1>2 DEF SessionStep, Accept, Connect, ConnectDenied, ConnectRefused, InvalidFrame,
                UndecodableFrame, ByeReceipt, ByeClose, EndOfStream, ScannerStops, Cleanup,
                RemoveJob, MayReceive
  <2>2. \/ Return(s) \/ Fail(s)
        \/ \E l \in {"idle", "return", "bye2", "done", "ended"} :
                Continue(s, l) \/ HandledAtOnce(s, l)
        \/ \E why : Panic(why)
    BY <1>2 DEF SessionStep, Accept, Connect, ConnectDenied, ConnectRefused, InvalidFrame,
                UndecodableFrame, ByeReceipt, ByeClose, EndOfStream, ScannerStops, Cleanup,
                RemoveJob
  <2> QED
    BY <2>1, <2>2, CalmMoves DEF Labels
<1> QED
  BY <1>1, <1>2

LEMMA TransactionCalm ==
    ASSUME TypeInv, NEW s \in Sessions, TransactionStep(s)
    PROVE  Calm(s)
<1>1. pc[s] # "wait"
  BY DEF TransactionStep, StartTxCheck, StartTxStore, BufferTxCheck, BufferTxRead,
         BufferTxStore, ForeachTxCheck, ForeachTxRead, ForeachTxNext, ForeachTxLast,
         DropTxCheck, DropTxDelete
<1>2. CASE ForeachTxNext(s)
  BY <1>1, <1>2, CalmMoves DEF ForeachTxNext, Labels
<1>3. CASE ~ForeachTxNext(s)
  <2>1. Return(s) \/ Fail(s) \/ \E l \in Labels \ {"wait"} : Continue(s, l)
    BY <1>3 DEF TransactionStep, StartTxCheck, StartTxStore, BufferTxCheck, BufferTxRead,
         BufferTxStore, ForeachTxCheck, ForeachTxRead, ForeachTxLast, DropTxCheck,
         DropTxDelete, Labels
  <2> QED
    BY <1>1, <2>1, CalmMoves
<1> QED
  BY <1>2, <1>3

LEMMA RegistryCalm ==
    ASSUME TypeInv, NEW s \in Sessions, RegistryStep(s) \/ AddInsert(s) \/ AckApply(s)
    PROVE  Calm(s)
<1>1. pc[s] # "wait"
  BY DEF RegistryStep, AddCheck, AddReset, AddIndexDest, AddIndexSession, RemoveFindDest,
         RemoveCheckDest, RemoveFindInfo, RemoveFromSession, RemoveEntry,
         RemoveCheckEmpty, RemoveDest, RemoveIndexDest, CleanupBegin, CleanupNext,
         CleanupLast, AckCheck, AckLookup, AddInsert, AckApply
<1>2. \/ Return(s) \/ Fail(s)
      \/ UNCHANGED <<pc, msg>>
      \/ \E l : l # "wait" /\ Goto(s, l) /\ UNCHANGED msg
  <2>1. CASE AddCheck(s) \/ AddReset(s) \/ AddIndexDest(s) \/ AddIndexSession(s) \/ AddInsert(s)
    BY <2>1 DEF AddCheck, AddReset, AddIndexDest, AddIndexSession, AddInsert, Continue, Panic
  <2>2. CASE \/ RemoveFindDest(s) \/ RemoveCheckDest(s) \/ RemoveFindInfo(s)
             \/ RemoveFromSession(s) \/ RemoveEntry(s) \/ RemoveCheckEmpty(s)
             \/ RemoveDest(s) \/ RemoveIndexDest(s)
    BY <2>2 DEF RemoveFindDest, RemoveCheckDest, RemoveFindInfo, RemoveFromSession,
                RemoveEntry, RemoveError, RemoveCheckEmpty, RemoveDest, RemoveIndexDest,
                Continue, Panic
  <2>3. CASE \/ CleanupBegin(s) \/ CleanupNext(s) \/ CleanupLast(s)
             \/ AckCheck(s) \/ AckLookup(s) \/ AckApply(s)
    BY <2>3 DEF CleanupBegin, CleanupNext, CleanupLast, AckCheck, AckLookup, AckApply,
                Continue, Panic
  <2> QED
    BY <2>1, <2>2, <2>3 DEF RegistryStep
<1>3. CASE UNCHANGED <<pc, msg>>
  BY <1>3 DEF Calm
<1>4. CASE \E l : l # "wait" /\ Goto(s, l) /\ UNCHANGED msg
  BY <1>1, <1>4 DEF Calm, Goto, TypeInv, TypeOK, ProcTypeOK
<1> QED
  BY <1>1, <1>2, <1>3, <1>4, CalmMoves

----------------------------------------------------------------------------
\* The inductive invariant.

\* Entries of the destinations' maps are at most removed.
Shrinks == \A d \in Dests, i \in SubsIDs : Lookup(d, i)' \in {Lookup(d, i), Nil}

LEMMA StreamKept ==
    ASSUME IdleOK, StreamInv, NEW s \in Sessions, Calm(s), Shrinks,
           UNCHANGED <<nInfo, info, nextAckNum, gor, log>>
    PROVE  StreamInv'
<1>1. HeapOK'
  BY DEF StreamInv, HeapOK
<1>2. RoutesOK'
  BY DEF StreamInv, RoutesOK, Shrinks
<1>3. DueOK'
  BY DEF StreamInv, DueOK, IdleOK, Calm
<1>4. CountOK'
  BY DEF StreamInv, CountOK
<1> QED
  BY <1>1, <1>2, <1>3, <1>4 DEF StreamInv

LEMMA MapUnchangedShrinks ==
    ASSUME UNCHANGED destToSubsMap PROVE Shrinks
BY DEF Shrinks, Lookup

LEMMA RegistryShrinks ==
    ASSUME TypeInv, NEW s \in Sessions, RegistryStep(s)
    PROVE  Shrinks /\ UNCHANGED <<nInfo, info, nextAckNum, gor, npub, log>>
<1>1. UNCHANGED <<nInfo, info, nextAckNum, gor, npub, log>>
  BY DEF RegistryStep, AddCheck, AddReset, AddIndexDest, AddIndexSession, RemoveFindDest,
         RemoveCheckDest, RemoveFindInfo, RemoveFromSession, RemoveEntry,
         RemoveCheckEmpty, RemoveDest, RemoveIndexDest, CleanupBegin, CleanupNext,
         CleanupLast, AckCheck, AckLookup, subVars, heapVars, pubVars
<1> SUFFICES Shrinks
  BY <1>1
<1>2. destToSubsMap \in [Dests -> [SubsIDs -> (1 .. nInfo) \cup {Nil}] \cup {Nil}]
  BY DEF TypeInv, TypeOK, SubTypeOK
<1>3. CASE AddReset(s)
  <2>1. arg[s].dest \in Dests
    BY <1>3 DEF AddReset, TypeInv, ArgsOK, NamesSubscription
  <2>2. \A d \in Dests : destToSubsMap'[d] =
                            IF d = arg[s].dest THEN NoSubs ELSE destToSubsMap[d]
    BY <1>2, <1>3, <2>1 DEF AddReset
  <2>3. \A i \in SubsIDs : NoSubs[i] = Nil
    BY DEF NoSubs
  <2> QED
    BY <2>2, <2>3 DEF Shrinks, Lookup
<1>4. CASE RemoveEntry(s)
  <2>1. CASE destToSubsMap[arg[s].dest] = Nil
    BY <1>4, <2>1, MapUnchangedShrinks DEF RemoveEntry
  <2>2. CASE destToSubsMap[arg[s].dest] # Nil
    <3> DEFINE f == [destToSubsMap[arg[s].dest] EXCEPT ![arg[s].id] = Nil]
    <3>1. destToSubsMap' = [destToSubsMap EXCEPT ![arg[s].dest] = f]
      BY <1>4, <2>2 DEF RemoveEntry
    <3>2. arg[s].dest \in Dests
      BY <1>4 DEF RemoveEntry, TypeInv, ArgsOK, NamesSubscription
    <3>3. \A i \in SubsIDs : f[i] \in {destToSubsMap[arg[s].dest][i], Nil}
      BY <1>2, <2>2, <3>2
    <3> HIDE DEF f
    <3>4. \A d \in Dests : destToSubsMap'[d] = IF d = arg[s].dest THEN f ELSE destToSubsMap[d]
      BY <1>2, <3>1
    <3> QED
      BY <2>2, <3>3, <3>4 DEF Shrinks, Lookup
  <2> QED
    BY <2>1, <2>2
<1>5. CASE RemoveDest(s)
  <2>1. \A d \in Dests : destToSubsMap'[d] \in {destToSubsMap[d], Nil}
    BY <1>2, <1>5 DEF RemoveDest
  <2> QED
    BY <2>1 DEF Shrinks, Lookup
<1>6. CASE ~(AddReset(s) \/ RemoveEntry(s) \/ RemoveDest(s))
  <2>1. UNCHANGED destToSubsMap
    BY <1>6 DEF RegistryStep, AddCheck, AddIndexDest, AddIndexSession, RemoveFindDest,
         RemoveCheckDest, RemoveFindInfo, RemoveFromSession,
         RemoveCheckEmpty, RemoveIndexDest, CleanupBegin, CleanupNext,
         CleanupLast, AckCheck, AckLookup, subVars, mapVars
  <2> QED
    BY <2>1, MapUnchangedShrinks
<1> QED
  BY <1>3, <1>4, <1>5, <1>6 DEF RegistryStep

LEMMA HeapTypes ==
    ASSUME TypeInv
    PROVE  /\ SubTypeOK /\ nInfo \in Nat /\ nInfo =< MaxSubs
           /\ \A p : p \in 1 .. nInfo => p \in Addr /\ p \in Nat /\ p # Nil /\ info[p] \in Info
           /\ \A p \in Addr : p \in Nat /\ p # Nil
           /\ nInfo < MaxSubs => nInfo + 1 \in Addr
           /\ info \in [Addr -> Info \cup {Nil}]
           /\ nextAckNum \in [Addr -> 0 .. AckMod - 1]
           /\ destToSubsMap \in [Dests -> [SubsIDs -> (1 .. nInfo) \cup {Nil}] \cup {Nil}]
           /\ gor \in [Sessions -> [Addr -> GorStates]]
<1>1. SubTypeOK
  BY DEF TypeInv, TypeOK
<1>2. nInfo \in 0 .. MaxSubs /\ \A p \in 1 .. nInfo : info[p] \in Info
  BY <1>1 DEF SubTypeOK
<1>3. nInfo \in Nat /\ nInfo =< MaxSubs /\ (nInfo < MaxSubs => nInfo + 1 \in Addr)
  BY <1>2, SubscribeAssumption DEF Addr
<1>4. \A p : p \in 1 .. nInfo => p \in Addr
  BY <1>3, SubscribeAssumption DEF Addr
<1>5. \A p \in Addr : p \in Nat /\ p # Nil
  <2>1. \A p \in Addr : p \in Nat
    BY SubscribeAssumption DEF Addr
  <2>2. Nil \notin Addr
    BY NilAssumption
  <2> QED
    BY <2>1, <2>2
<1>6. /\ info \in [Addr -> Info \cup {Nil}]
      /\ nextAckNum \in [Addr -> 0 .. AckMod - 1]
      /\ destToSubsMap \in [Dests -> [SubsIDs -> (1 .. nInfo) \cup {Nil}] \cup {Nil}]
      /\ gor \in [Sessions -> [Addr -> GorStates]]
  BY <1>1 DEF SubTypeOK
<1> QED
  BY <1>1, <1>2, <1>3, <1>4, <1>5, <1>6

\* A subscription is made.
LEMMA AddInsertStream ==
    ASSUME TypeInv, DeliveryInv, StreamInv, NEW s \in Sessions, AddInsert(s),
           destToSubsMap[arg[s].dest] # Nil
    PROVE  /\ StreamInv'
           /\ \E p \in Addr : /\ info[p] = Nil /\ info'[p] \in Info
                              /\ \A q \in Addr \ {p} : info'[q] = info[q]
           /\ UNCHANGED <<gor, npub, log>>
<1> DEFINE p == nInfo + 1
           d == arg[s].dest
           i == arg[s].id
           rec == [sess |-> s, dest |-> d, id |-> i, asked |-> arg[s].mode,
                   ackMode |-> AckModeOf(arg[s].mode)]
           f == [destToSubsMap[d] EXCEPT ![i] = p]
<1>1. /\ pc[s] = "add3" /\ nInfo < MaxSubs /\ nInfo' = p /\ info' = [info EXCEPT ![p] = rec]
      /\ nextAckNum' = [nextAckNum EXCEPT ![p] = 0]
      /\ destToSubsMap' = [destToSubsMap EXCEPT ![d] = f]
      /\ UNCHANGED <<gor, npub, log>> /\ Continue(s, "add4")
  BY DEF AddInsert, pubVars
<1>2. /\ nInfo \in Nat /\ p \in Addr /\ p > nInfo
      /\ info \in [Addr -> Info \cup {Nil}] /\ nextAckNum \in [Addr -> 0 .. AckMod - 1]
      /\ destToSubsMap \in [Dests -> [SubsIDs -> (1 .. nInfo) \cup {Nil}] \cup {Nil}]
  BY <1>1, HeapTypes
<1>3. d \in Dests /\ i \in SubsIDs
  BY <1>1 DEF TypeInv, ArgsOK, NamesSubscription
<1>4. rec \in Info /\ rec.dest = d /\ rec.id = i
  <2>1. arg[s].mode \in AckModes
    BY FrameFields DEF TypeInv, TypeOK, ProcTypeOK
  <2>2. AckModeOf(arg[s].mode) \in AckModes
    BY <2>1, Zenon DEF AckModeOf, AckModes
  <2> QED
    BY <1>3, <2>1, <2>2 DEF Info
<1>5. f[i] = p /\ \A j \in SubsIDs \ {i} : f[j] = destToSubsMap[d][j]
  BY <1>2, <1>3
<1>6. /\ destToSubsMap'[d] = f /\ \A e \in Dests \ {d} : destToSubsMap'[e] = destToSubsMap[e]
  BY <1>1, <1>2, <1>3
<1> HIDE DEF p, rec, f
<1>7. /\ info'[p] = rec /\ nextAckNum'[p] = 0
      /\ \A q \in Addr \ {p} : info'[q] = info[q] /\ nextAckNum'[q] = nextAckNum[q]
  BY <1>1, <1>2
<1>8. log[p] = <<>> /\ Len(log[p]) = 0 /\ \A t \in Sessions : gor[t][p] = "none"
  BY <1>2 DEF DeliveryInv, FreshOK
<1>9. info[p] = Nil
  BY <1>2 DEF StreamInv, HeapOK
<1>10. HeapOK'
  BY <1>1, <1>2, <1>7 DEF StreamInv, HeapOK, Addr, p
<1>11. RoutesOK'
  <2>1. SUFFICES ASSUME NEW e \in Dests, NEW j \in SubsIDs, Lookup(e, j)' # Nil
                 PROVE  info'[Lookup(e, j)'].dest = e /\ info'[Lookup(e, j)'].id = j
    BY DEF RoutesOK
  <2>2. CASE e = d /\ j = i
    <3>1. Lookup(e, j)' = p
      BY <1>5, <1>6, <2>1, <2>2 DEF Lookup
    <3> QED
      BY <1>4, <1>7, <2>2, <3>1
  <2>3. CASE ~(e = d /\ j = i)
    <3>1. Lookup(e, j)' = Lookup(e, j)
      BY <1>5, <1>6, <2>1, <2>3 DEF Lookup
    <3>2. Lookup(e, j) \in 1 .. nInfo
      BY <2>1, <3>1, LookupType DEF TypeInv, TypeOK
    <3>3. Lookup(e, j) \in Addr \ {p}
      BY <1>2, <3>2, HeapTypes DEF p
    <3> QED
      BY <1>7, <2>1, <3>1, <3>3 DEF StreamInv, RoutesOK
  <2> QED
    BY <2>2, <2>3
<1>12. DueOK'
  <2>1. SUFFICES ASSUME NEW t \in Sessions, NEW q \in Addr, gor[t][q] # "none"
                 PROVE  q =< nInfo' /\ info'[q].dest = msg'[t].dest
    BY <1>1 DEF DueOK
  <2>2. q # p /\ q =< nInfo /\ info[q].dest = msg[t].dest /\ q \in Nat
    BY <1>8, <2>1, LogTypes DEF StreamInv, DueOK
  <2>3. nInfo' = nInfo + 1 /\ msg' = msg
    BY <1>1 DEF p, Continue
  <2> QED
    BY <1>2, <1>7, <2>2, <2>3
<1>13. CountOK'
  <2>1. 0 = 0 % AckMod
    BY SubscribeAssumption
  <2>2. SUFFICES ASSUME NEW q \in Addr
                 PROVE  /\ \A t \in Sessions : gor[t][q] = "written" =>
                             Len(log[q]) > 0 /\ nextAckNum'[q] = (Len(log[q]) - 1) % AckMod
                        /\ (\A t \in Sessions : gor[t][q] # "written") =>
                             nextAckNum'[q] = Len(log[q]) % AckMod
    BY <1>1 DEF CountOK
  <2>3. CASE q = p
    BY <1>7, <1>8, <2>1, <2>3
  <2>4. CASE q # p
    BY <1>7, <2>4 DEF StreamInv, CountOK
  <2> QED
    BY <2>3, <2>4
<1> QED
  BY <1>1, <1>2, <1>4, <1>7, <1>9, <1>10, <1>11, <1>12, <1>13 DEF StreamInv

\* The members of Targets(d) are objects made for d.
LEMMA TargetsOfDest ==
    ASSUME TypeInv, StreamInv, NEW d \in Dests, NEW p \in Targets(d)
    PROVE  p \in Addr /\ p =< nInfo /\ info[p] \in Info /\ info[p].dest = d
<1>1. PICK i \in SubsIDs : p \in 1 .. nInfo /\ Lookup(d, i) = p
  BY DEF Targets
<1>2. p \in Addr /\ p \in Nat /\ p # Nil /\ info[p] \in Info
  BY <1>1, HeapTypes
<1>3. p =< nInfo
  BY <1>1, <1>2, HeapTypes
<1> QED
  BY <1>1, <1>2, <1>3 DEF StreamInv, RoutesOK

\* And all the reachable ones of these are there.
LEMMA ReachableIsTarget ==
    ASSUME TypeInv, NEW p \in Addr, Reachable(p)
    PROVE  info[p].dest \in Dests /\ p \in Targets(info[p].dest)
<1>1. info[p] \in Info
  BY DEF Reachable, TypeInv, TypeOK, SubTypeOK
<1>2. info[p].dest \in Dests /\ info[p].id \in SubsIDs
  BY <1>1 DEF Info
<1>3. Lookup(info[p].dest, info[p].id) = p
  BY DEF Reachable
<1>4. p \in 1 .. nInfo
  BY <1>2, <1>3, LookupType, NilAssumption DEF TypeInv, TypeOK
<1> QED
  BY <1>2, <1>3, <1>4 DEF Targets

----------------------------------------------------------------------------
\* publish() and its goroutines.

LEMMA PublishRangeStream ==
    ASSUME TypeInv, StreamInv, IdleOK, NEW s \in Sessions, PublishRange(s),
           msg[s].dest # Empty
    PROVE  /\ StreamInv'
           /\ msg[s].dest \in Dests /\ pc[s] = "pub" /\ pc' = [pc EXCEPT ![s] = "wait"]
           /\ \A p \in Addr : gor[s][p] = "none"
           /\ \A p \in Addr : IF p \in Targets(msg[s].dest) THEN gor'[s][p] = "due"
                                                           ELSE gor'[s][p] = "none"
           /\ \A t \in Sessions \ {s}, p \in Addr : gor'[t][p] = gor[t][p]
           /\ npub' = [npub EXCEPT ![s] = @ + 1]
           /\ UNCHANGED <<info, msg, log, destToSubsMap>>
<1> DEFINE d == msg[s].dest
           g == [p \in Addr |-> IF p \in Targets(d) THEN "due" ELSE "none"]
<1>1. /\ pc[s] = "pub" /\ Continue(s, "wait")
      /\ gor' = [gor EXCEPT ![s] = g] /\ npub' = [npub EXCEPT ![s] = @ + 1]
      /\ UNCHANGED <<destToSubsMap, nInfo, info, log, nextAckNum>>
  BY DEF PublishRange, heapVars, mapVars
<1>2. pc' = [pc EXCEPT ![s] = "wait"] /\ UNCHANGED msg
  BY <1>1 DEF Continue, Goto
<1>3. d \in Dests
  BY FrameFields DEF TypeInv, TypeOK, ProcTypeOK
<1>4. \A p \in Addr : IF p \in Targets(d) THEN g[p] = "due" ELSE g[p] = "none"
  OBVIOUS
<1> HIDE DEF g
<1>5. /\ \A p \in Addr : gor[s][p] = "none"
      /\ \A p \in Addr : gor'[s][p] = g[p]
      /\ \A t \in Sessions \ {s}, p \in Addr : gor'[t][p] = gor[t][p]
  BY <1>1, HeapTypes DEF IdleOK
<1>6. HeapOK' /\ RoutesOK'
  BY <1>1 DEF StreamInv, HeapOK, RoutesOK, Lookup
<1>7. DueOK'
  <2>1. SUFFICES ASSUME NEW t \in Sessions, NEW q \in Addr, gor'[t][q] # "none"
                 PROVE  q =< nInfo /\ info[q].dest = msg[t].dest
    BY <1>1, <1>2 DEF DueOK
  <2>2. CASE t = s
    <3>1. q \in Targets(d)
      BY <1>4, <1>5, <2>1, <2>2
    <3> QED
      BY <1>3, <2>2, <3>1, TargetsOfDest
  <2>3. CASE t # s
    BY <1>5, <2>1, <2>3 DEF StreamInv, DueOK
  <2> QED
    BY <2>2, <2>3
<1>8. CountOK'
  <2>1. \A t \in Sessions, p \in Addr : gor'[t][p] = "written" <=> gor[t][p] = "written"
    BY <1>4, <1>5
  <2> QED
    BY <1>1, <2>1 DEF StreamInv, CountOK
<1> QED
  BY <1>1, <1>2, <1>3, <1>4, <1>5, <1>6, <1>7, <1>8 DEF StreamInv

LEMMA PublishWaitStream ==
    ASSUME TypeInv, StreamInv, NEW s \in Sessions, PublishWait(s)
    PROVE  /\ StreamInv'
           /\ pc[s] = "wait" /\ pc'[s] # "wait"
           /\ \A t \in Sessions \ {s} : pc'[t] = pc[t] /\ msg'[t] = msg[t]
           /\ \A p \in Addr : gor[s][p] \in {"none", "done"} /\ gor'[s][p] = "none"
           /\ \A t \in Sessions \ {s}, p \in Addr : gor'[t][p] = gor[t][p]
           /\ UNCHANGED <<info, npub, log, destToSubsMap>>
<1> DEFINE g == [p \in Addr |-> "none"]
<1>1. /\ pc[s] = "wait" /\ gor' = [gor EXCEPT ![s] = g]
      /\ \A p \in Addr : gor[s][p] \in {"none", "done"}
      /\ Return(s) \/ Continue(s, "foreach")
      /\ UNCHANGED <<destToSubsMap, nInfo, info, npub, log, nextAckNum>>
  BY DEF PublishWait, heapVars, mapVars
<1>2. \A p \in Addr : g[p] = "none"
  OBVIOUS
<1> HIDE DEF g
<1>3. /\ \A p \in Addr : gor'[s][p] = "none"
      /\ \A t \in Sessions \ {s}, p \in Addr : gor'[t][p] = gor[t][p]
  BY <1>1, <1>2, HeapTypes
<1>4. /\ pc'[s] # "wait"
      /\ \A t \in Sessions \ {s} : pc'[t] = pc[t] /\ msg'[t] = msg[t]
  BY <1>1 DEF Return, Continue, Goto, TypeInv, TypeOK, ProcTypeOK
<1>5. HeapOK' /\ RoutesOK'
  BY <1>1 DEF StreamInv, HeapOK, RoutesOK, Lookup
<1>6. DueOK'
  BY <1>1, <1>3, <1>4 DEF StreamInv, DueOK
<1>7. CountOK'
  <2>1. \A t \in Sessions, p \in Addr : gor'[t][p] = "written" <=> gor[t][p] = "written"
    BY <1>1, <1>3
  <2> QED
    BY <1>1, <2>1 DEF StreamInv, CountOK
<1> QED
  BY <1>1, <1>3, <1>4, <1>5, <1>6, <1>7 DEF StreamInv

\* A goroutine moves on without writing or counting.
LEMMA GorMovesStream ==
    ASSUME TypeInv, StreamInv, NEW s \in Sessions, NEW p \in Addr, NEW state \in GorStates,
           GorMoves(s, p, state), gor[s][p] # "none", gor[s][p] # "written",
           state # "written", UNCHANGED <<destToSubsMap, info, nextAckNum>>
    PROVE  StreamInv'
<1>1. /\ gor'[s][p] = state
      /\ \A t \in Sessions, q \in Addr : t # s \/ q # p => gor'[t][q] = gor[t][q]
  BY HeapTypes, SetGorType DEF GorMoves
<1>2. UNCHANGED <<msg, nInfo, log>>
  BY DEF GorMoves, procVars
<1>3. HeapOK' /\ RoutesOK'
  BY <1>2 DEF StreamInv, HeapOK, RoutesOK, Lookup
<1>4. DueOK'
  BY <1>1, <1>2 DEF StreamInv, DueOK
<1>5. CountOK'
  <2>1. \A t \in Sessions, q \in Addr : gor'[t][q] = "written" <=> gor[t][q] = "written"
    BY <1>1
  <2> QED
    BY <1>2, <2>1 DEF StreamInv, CountOK
<1> QED
  BY <1>3, <1>4, <1>5 DEF StreamInv

LEMMA SendDoneStream ==
    ASSUME TypeInv, DeliveryInv, StreamInv, NEW s \in Sessions, NEW p \in Addr, SendDone(s, p)
    PROVE  StreamInv'
<1>1. /\ GorMoves(s, p, "done") /\ gor[s][p] = "written"
      /\ nextAckNum' = [nextAckNum EXCEPT ![p] = NextAck(@)]
      /\ UNCHANGED <<destToSubsMap, info, log>>
  BY DEF SendDone, GorMoves, mapVars
<1>2. "done" \in GorStates
  BY DEF GorStates
<1>3. /\ gor'[s][p] = "done"
      /\ \A t \in Sessions, q \in Addr : t # s \/ q # p => gor'[t][q] = gor[t][q]
  BY <1>1, <1>2, HeapTypes, SetGorType DEF GorMoves
<1>4. UNCHANGED <<msg, nInfo, log>>
  BY <1>1 DEF GorMoves, procVars
<1>5. /\ nextAckNum'[p] = NextAck(nextAckNum[p])
      /\ \A q \in Addr \ {p} : nextAckNum'[q] = nextAckNum[q]
  BY <1>1, HeapTypes
<1>6. HeapOK' /\ RoutesOK'
  BY <1>1, <1>4 DEF StreamInv, HeapOK, RoutesOK, Lookup
<1>7. DueOK'
  BY <1>1, <1>3, <1>4 DEF StreamInv, DueOK
<1>8. \A t \in Sessions : gor'[t][p] # "written"
  <2>1. \A t \in Sessions \ {s} : gor[t][p] # "written"
    BY <1>1 DEF DeliveryInv, LockOK
  <2> QED
    BY <1>3, <2>1
<1>9. nextAckNum'[p] = Len(log[p]) % AckMod
  <2>1. Len(log[p]) > 0 /\ nextAckNum[p] = (Len(log[p]) - 1) % AckMod /\ Len(log[p]) \in Nat
    BY <1>1, LogTypes DEF StreamInv, CountOK
  <2> DEFINE n == Len(log[p]) - 1
  <2>2. n \in Nat /\ n + 1 = Len(log[p]) /\ AckMod \in Nat \ {0}
    BY <2>1, SubscribeAssumption
  <2>3. nextAckNum[p] = n % AckMod
    BY <2>1
  <2> HIDE DEF n
  <2>4. NextAck(n % AckMod) = (n + 1) % AckMod
    BY <2>2, CountModulo DEF NextAck
  <2> QED
    BY <1>5, <2>2, <2>3, <2>4
<1>10. CountOK'
  <2>1. SUFFICES ASSUME NEW q \in Addr
                 PROVE  /\ \A t \in Sessions : gor'[t][q] = "written" =>
                             Len(log[q]) > 0 /\ nextAckNum'[q] = (Len(log[q]) - 1) % AckMod
                        /\ (\A t \in Sessions : gor'[t][q] # "written") =>
                             nextAckNum'[q] = Len(log[q]) % AckMod
    BY <1>1 DEF CountOK
  <2>2. CASE q = p
    BY <1>8, <1>9, <2>2
  <2>3. CASE q # p
    <3>1. \A t \in Sessions : gor'[t][q] = gor[t][q]
      BY <1>3, <2>3
    <3> QED
      BY <1>5, <2>3, <3>1 DEF StreamInv, CountOK
  <2> QED
    BY <2>2, <2>3
<1> QED
  BY <1>6, <1>7, <1>10 DEF StreamInv

LEMMA SendWriteStream ==
    ASSUME TypeInv, DeliveryInv, StreamInv, NEW s \in Sessions, NEW p \in Addr,
           SendWrite(s, p)
    PROVE  /\ StreamInv'
           /\ gor[s][p] = "locked" /\ gor'[s][p] = "written"
           /\ \A t \in Sessions, q \in Addr : t # s \/ q # p => gor'[t][q] = gor[t][q]
           /\ log' = [log EXCEPT ![p] = Append(@,
                        [by |-> s, pub |-> npub[s], ack |-> Len(log[p]) % AckMod,
                         msg |-> msg[s]])]
           /\ UNCHANGED <<info, npub, pc, msg, destToSubsMap>>
<1> DEFINE e == [by |-> s, pub |-> npub[s], ack |-> nextAckNum[p], msg |-> msg[s]]
<1>1. /\ gor[s][p] = "locked" /\ SetGor(s, p, "written")
      /\ log' = [log EXCEPT ![p] = Append(@, e)]
      /\ UNCHANGED <<destToSubsMap, pc, msg, nInfo, info, npub, nextAckNum>>
  BY DEF SendWrite, procVars, heapVars, mapVars
<1>2. "written" \in GorStates
  BY DEF GorStates
<1>3. /\ gor'[s][p] = "written"
      /\ \A t \in Sessions, q \in Addr : t # s \/ q # p => gor'[t][q] = gor[t][q]
  BY <1>1, <1>2, HeapTypes, SetGorType
<1>4. \A t \in Sessions : gor[t][p] # "written"
  BY <1>1 DEF DeliveryInv, LockOK
<1>5. nextAckNum[p] = Len(log[p]) % AckMod /\ Len(log[p]) \in Nat
  BY <1>4, LogTypes DEF StreamInv, CountOK
<1> HIDE DEF e
<1>6. /\ Len(log'[p]) = Len(log[p]) + 1
      /\ \A q \in Addr \ {p} : log'[q] = log[q]
  <2>1. log \in [Addr -> Seq(Entry)] /\ e \in Entry
    BY HeapTypes, LogTypes DEF SubTypeOK, e, Entry, TypeInv, TypeOK, ProcTypeOK
  <2>2. log'[p] = Append(log[p], e) /\ log[p] \in Seq(Entry)
    BY <1>1, <2>1
  <2> QED
    BY <1>1, <2>1, <2>2
<1>7. HeapOK' /\ RoutesOK'
  BY <1>1 DEF StreamInv, HeapOK, RoutesOK, Lookup
<1>8. DueOK'
  BY <1>1, <1>3 DEF StreamInv, DueOK
<1>9. CountOK'
  <2>1. SUFFICES ASSUME NEW q \in Addr
                 PROVE  /\ \A t \in Sessions : gor'[t][q] = "written" =>
                             Len(log'[q]) > 0 /\ nextAckNum[q] = (Len(log'[q]) - 1) % AckMod
                        /\ (\A t \in Sessions : gor'[t][q] # "written") =>
                             nextAckNum[q] = Len(log'[q]) % AckMod
    BY <1>1 DEF CountOK
  <2>2. CASE q = p
    <3>1. Len(log'[p]) > 0 /\ Len(log'[p]) - 1 = Len(log[p])
      BY <1>5, <1>6
    <3> QED
      BY <1>3, <1>5, <2>2, <3>1
  <2>3. CASE q # p
    <3>1. \A t \in Sessions : gor'[t][q] = gor[t][q]
      BY <1>3, <2>3
    <3> QED
      BY <1>6, <2>3, <3>1 DEF StreamInv, CountOK
  <2> QED
    BY <2>2, <2>3
<1>10. log' = [log EXCEPT ![p] = Append(@,
                 [by |-> s, pub |-> npub[s], ack |-> Len(log[p]) % AckMod, msg |-> msg[s]])]
  BY <1>1, <1>5 DEF e
<1> QED
  BY <1>1, <1>3, <1>7, <1>8, <1>9, <1>10 DEF StreamInv

----------------------------------------------------------------------------
LEMMA StreamInit == Init => StreamInv
<1> SUFFICES ASSUME Init PROVE StreamInv
  OBVIOUS
<1>1. /\ \A p \in Addr : info[p] = Nil /\ nextAckNum[p] = 0 /\ log[p] = <<>>
      /\ \A s \in Sessions, p \in Addr : gor[s][p] = "none"
      /\ \A d \in Dests : destToSubsMap[d] = Nil
  BY DEF Init, SubInit
<1>2. \A p \in Addr : nextAckNum[p] = Len(log[p]) % AckMod
  <2>1. 0 = 0 % AckMod
    BY SubscribeAssumption
  <2>2. \A p \in Addr : Len(log[p]) = 0
    BY <1>1
  <2> QED
    BY <1>1, <2>1, <2>2
<1> QED
  BY <1>1, <1>2 DEF StreamInv, HeapOK, RoutesOK, DueOK, CountOK, Lookup

\* The steps of a session outside of the registry and of publish().
LEMMA ElsewhereCalm ==
    ASSUME TypeInv, NEW s \in Sessions,
           \/ ReceiveStep(s)
           \/ SessionStep(s) /\ UNCHANGED subVars
           \/ TransactionStep(s) /\ UNCHANGED subVars
           \/ \E t \in Sessions : MapFault(s, t)
    PROVE  Calm(s) /\ UNCHANGED subVars
<1>1. CASE ReceiveStep(s)
  <2>1. UNCHANGED subVars
    BY <1>1 DEF ReceiveStep, Receive, Send, SubscribeTo, Unsubscribe, Ack, AckMalformed, Nack,
           Begin, Commit, Abort, EndTx, Disconnect
  <2> QED
    BY <1>1, <2>1, ReceiveCalm
<1>2. CASE SessionStep(s) /\ UNCHANGED subVars
  BY <1>2, SessionCalm
<1>3. CASE TransactionStep(s) /\ UNCHANGED subVars
  BY <1>3, TransactionCalm
<1>4. CASE \E t \in Sessions : MapFault(s, t)
  BY <1>4 DEF MapFault, Panic, Calm
<1> QED
  BY <1>1, <1>2, <1>3, <1>4

LEMMA StreamNext ==
    ASSUME TypeInv, DeliveryInv, StreamInv, [Next]_vars
    PROVE  StreamInv'
<1>0. IdleOK
  BY DEF DeliveryInv
<1>1. CASE UNCHANGED vars
  <2>1. UNCHANGED <<destToSubsMap, nInfo, info, nextAckNum, gor, log, msg>>
    BY <1>1 DEF vars, procVars, subVars, mapVars, heapVars, pubVars
  <2> QED
    BY <2>1 DEF StreamInv, HeapOK, RoutesOK, DueOK, CountOK, Lookup
<1>2. CASE Next
  <2>1. PICK s \in Sessions :
           \/ \/ ReceiveStep(s)
              \/ SessionStep(s) /\ UNCHANGED subVars
              \/ TransactionStep(s) /\ UNCHANGED subVars
              \/ \E t \in Sessions : MapFault(s, t)
           \/ SubscribeStep(s)
    BY <1>2 DEF Next
  <2>2. CASE \/ ReceiveStep(s)
             \/ SessionStep(s) /\ UNCHANGED subVars
             \/ TransactionStep(s) /\ UNCHANGED subVars
             \/ \E t \in Sessions : MapFault(s, t)
    <3>1. Calm(s) /\ UNCHANGED subVars
      BY <2>2, ElsewhereCalm
    <3>2. /\ UNCHANGED <<nInfo, info, nextAckNum, gor, log>>
          /\ UNCHANGED destToSubsMap
      BY <3>1 DEF subVars, heapVars, pubVars, mapVars
    <3> QED
      BY <1>0, <3>1, <3>2, StreamKept, MapUnchangedShrinks
  <2>3. CASE SubscribeStep(s)
    <3>1. CASE RegistryStep(s)
      BY <1>0, <3>1, StreamKept, RegistryShrinks, RegistryCalm
    <3>2. CASE AddInsert(s)
      <4>1. CASE destToSubsMap[arg[s].dest] = Nil
        <5>1. Calm(s) /\ UNCHANGED <<destToSubsMap, nInfo, info, nextAckNum, gor, log>>
          BY <3>2, <4>1, RegistryCalm DEF AddInsert, pubVars
        <5> QED
          BY <1>0, <5>1, StreamKept, MapUnchangedShrinks
      <4> QED
        BY <3>2, <4>1, AddInsertStream
    <3>3. CASE AckApply(s)
      <4>1. Calm(s) /\ UNCHANGED <<destToSubsMap, nInfo, info, nextAckNum, gor, log>>
        BY <3>3, RegistryCalm DEF AckApply, pubVars, mapVars
      <4> QED
        BY <1>0, <4>1, StreamKept, MapUnchangedShrinks
    <3>4. CASE PublishRange(s)
      <4>1. CASE msg[s].dest = Empty
        <5>1. /\ UNCHANGED <<destToSubsMap, nInfo, info, nextAckNum, gor, log>>
              /\ Fail(s) /\ pc[s] # "wait"
          BY <3>4, <4>1 DEF PublishRange, mapVars, heapVars
        <5> QED
          BY <1>0, <5>1, CalmMoves, StreamKept, MapUnchangedShrinks
      <4> QED
        BY <1>0, <3>4, <4>1, PublishRangeStream
    <3>5. CASE PublishWait(s)
      BY <3>5, PublishWaitStream
    <3>6. CASE \E p \in Addr : PublishNext(s, p)
      <4>1. PICK p \in Addr : PublishNext(s, p)
        BY <3>6
      <4>2. PICK state \in {"start", "none"} : GorMoves(s, p, state)
        BY <4>1 DEF PublishNext, GorMoves, heapVars
      <4>3. gor[s][p] = "due" /\ UNCHANGED <<destToSubsMap, info, nextAckNum>>
        BY <4>1 DEF PublishNext, heapVars, mapVars
      <4>4. state \in GorStates /\ state # "written"
        BY <4>2 DEF GorStates
      <4> QED
        BY <4>2, <4>3, <4>4, GorMovesStream
    <3>7. CASE \E p \in Addr : SendStep(s, p)
      <4>1. PICK p \in Addr : SendStep(s, p)
        BY <3>7
      <4>2. CASE SendLock(s, p) \/ SendFails(s, p)
        <5>1. PICK state \in {"locked", "failed"} : GorMoves(s, p, state)
          BY <4>2 DEF SendLock, SendFails, GorMoves
        <5>2. /\ gor[s][p] \in {"start", "locked"}
              /\ UNCHANGED <<destToSubsMap, info, nextAckNum>>
          BY <4>2 DEF SendLock, SendFails, mapVars
        <5>3. state \in GorStates /\ state # "written"
          BY <5>1 DEF GorStates
        <5> QED
          BY <5>1, <5>2, <5>3, GorMovesStream
      <4> QED
        BY <4>1, <4>2, SendWriteStream, SendDoneStream DEF SendStep
    <3> QED
      BY <2>3, <3>1, <3>2, <3>3, <3>4, <3>5, <3>6, <3>7
         DEF SubscribeStep, HandlerStep, RegistryStep
  <2> QED
    BY <2>1, <2>2, <2>3
<1> QED
  BY <1>1, <1>2

LEMMA StreamInvariant == Spec => []StreamInv
<1>1. Init => StreamInv
  BY StreamInit
<1>2. TypeInv /\ DeliveryInv /\ StreamInv /\ [Next]_vars => StreamInv'
  BY StreamNext
<1> QED
  BY <1>1, <1>2, TypeInvariant, DeliveryInvariant, PTL DEF Spec

----------------------------------------------------------------------------
\* The refinement, step by step.  The state of TopicStream, point by point:

TopicOf(p) == IF info[p] = Nil THEN Nil ELSE info[p].dest

CurOf(s) == IF pc[s] = "wait" THEN msg[s] ELSE Nil

TodoOf(s) == {p \in Addr : gor[s][p] \in Unsent}

LEMMA ReachableIsBoolean == \A p : Reachable(p) \in BOOLEAN
BY DEF Reachable

LEMMA MapsToInit == Init => Stream!Init
<1> SUFFICES ASSUME Init PROVE Stream!Init
  OBVIOUS
<1>1. /\ info = [p \in Addr |-> Nil] /\ log = [p \in Addr |-> <<>>]
      /\ npub = [s \in Sessions |-> 0]
      /\ gor = [s \in Sessions |-> [p \in Addr |-> "none"]]
  BY DEF Init, SubInit
<1>2. pc = [s \in Sessions |-> "none"]
  BY DEF Init, ProcInit
<1>3. /\ \A p \in Addr : info[p] = Nil /\ ~Reachable(p)
      /\ \A s \in Sessions, p \in Addr : gor[s][p] = "none"
  BY <1>1 DEF Reachable
<1>4. \A p \in Addr : Reachable(p) = FALSE
  BY <1>3, ReachableIsBoolean
<1>5. \A s \in Sessions : pc[s] # "wait"
  BY <1>2
<1> QED
  BY <1>1, <1>3, <1>4, <1>5 DEF Stream!Init

\* A step that neither makes a subscription nor changes what publishers are doing.
LEMMA MapsToChurn ==
    ASSUME \A p \in Addr : TopicOf(p)' = TopicOf(p),
           \A s \in Sessions : CurOf(s)' = CurOf(s) /\ TodoOf(s)' = TodoOf(s),
           UNCHANGED <<log, npub>>
    PROVE  Stream!Churn
<1>1. [p \in Addr |-> Reachable(p)]' \in [Addr -> BOOLEAN]
  <2>1. \A p : Reachable(p)' \in BOOLEAN
    BY DEF Reachable
  <2> QED
    BY <2>1
<1> QED
  BY <1>1 DEF Stream!Churn, TopicOf, CurOf, TodoOf, Unsent

LEMMA CalmMapsToChurn ==
    ASSUME NEW s \in Sessions, Calm(s), UNCHANGED <<info, gor, log, npub>>
    PROVE  Stream!Churn
<1>1. \A p \in Addr : TopicOf(p)' = TopicOf(p)
  BY DEF TopicOf
<1>2. \A t \in Sessions : TodoOf(t)' = TodoOf(t)
  BY DEF TodoOf
<1>3. \A t \in Sessions : CurOf(t)' = CurOf(t)
  BY DEF CurOf, Calm
<1> QED
  BY <1>1, <1>2, <1>3, MapsToChurn

\* addSubscription makes a new object.
LEMMA AddInsertMapsToOpen ==
    ASSUME TypeInv, DeliveryInv, StreamInv, NEW s \in Sessions, AddInsert(s),
           destToSubsMap[arg[s].dest] # Nil
    PROVE  \E p \in Addr : Stream!Open(p)
<1>1. PICK p \in Addr : /\ info[p] = Nil /\ info'[p] \in Info
                        /\ \A q \in Addr \ {p} : info'[q] = info[q]
  BY AddInsertStream
<1>2. Calm(s) /\ UNCHANGED <<gor, npub, log>>
  BY AddInsertStream, RegistryCalm
<1>3. info'[p] # Nil /\ info'[p].dest \in Dests
  BY <1>1, NilAssumption DEF Info
<1>4. [q \in Addr |-> TopicOf(q)'] = [[q \in Addr |-> TopicOf(q)] EXCEPT ![p] = info'[p].dest]
  <2>1. TopicOf(p)' = info'[p].dest
    BY <1>3 DEF TopicOf
  <2>2. \A q \in Addr \ {p} : TopicOf(q)' = TopicOf(q)
    BY <1>1 DEF TopicOf
  <2> QED
    BY <2>1, <2>2
<1>5. [q \in Addr |-> Reachable(q)]' \in [Addr -> BOOLEAN]
  <2>1. \A q : Reachable(q)' \in BOOLEAN
    BY DEF Reachable
  <2> QED
    BY <2>1
<1>6. /\ \A t \in Sessions : CurOf(t)' = CurOf(t)
      /\ \A t \in Sessions : TodoOf(t)' = TodoOf(t)
  BY <1>2 DEF CurOf, Calm, TodoOf
<1>7. Stream!Open(p)
  BY <1>1, <1>2, <1>3, <1>4, <1>5, <1>6 DEF Stream!Open, TopicOf, CurOf, TodoOf, Unsent
<1> QED
  BY <1>7

\* Nothing that a subscription is made of changes while publish() is at work.
LEMMA StaysReachable ==
    ASSUME UNCHANGED <<info, destToSubsMap, conn>>
    PROVE  \A p \in Addr : TopicOf(p)' = TopicOf(p) /\ Reachable(p)' = Reachable(p)
BY DEF TopicOf, Reachable, Lookup

LEMMA PublishRangeMapsToBegin ==
    ASSUME TypeInv, DeliveryInv, StreamInv, NEW s \in Sessions, PublishRange(s),
           msg[s].dest # Empty, UNCHANGED conn
    PROVE  Stream!Begin(s)
<1> DEFINE d == msg[s].dest
<1>0. IdleOK
  BY DEF DeliveryInv
<1>1. /\ d \in Dests /\ pc[s] = "pub" /\ pc' = [pc EXCEPT ![s] = "wait"]
      /\ \A p \in Addr : gor[s][p] = "none"
      /\ \A p \in Addr : IF p \in Targets(d) THEN gor'[s][p] = "due" ELSE gor'[s][p] = "none"
      /\ \A t \in Sessions \ {s}, p \in Addr : gor'[t][p] = gor[t][p]
      /\ npub' = [npub EXCEPT ![s] = @ + 1]
      /\ UNCHANGED <<info, msg, log, destToSubsMap>>
  BY <1>0, PublishRangeStream
<1>2. pc \in [Sessions -> Labels] /\ msg[s] \in Frame
  BY DEF TypeInv, TypeOK, ProcTypeOK
<1>3. \A p \in Addr : TopicOf(p)' = TopicOf(p) /\ Reachable(p)' = Reachable(p)
  BY <1>1, StaysReachable
<1>4. /\ CurOf(s) = Nil /\ CurOf(s)' = msg[s]
      /\ \A t \in Sessions \ {s} : CurOf(t)' = CurOf(t)
  BY <1>1, <1>2 DEF CurOf
<1>5. /\ TodoOf(s)' = {p \in Addr : p \in Targets(d)}
      /\ \A t \in Sessions \ {s} : TodoOf(t)' = TodoOf(t)
  BY <1>1 DEF TodoOf, Unsent
<1>6. \A p \in TodoOf(s)' : TopicOf(p) = d
  <2>1. SUFFICES ASSUME NEW p \in TodoOf(s)' PROVE TopicOf(p) = d
    OBVIOUS
  <2>2. p \in Targets(d)
    BY <1>5, <2>1
  <2>3. info[p] \in Info /\ info[p].dest = d
    BY <1>1, <2>2, TargetsOfDest
  <2>4. info[p] # Nil
    BY <2>3, NilAssumption
  <2> QED
    BY <2>3, <2>4 DEF TopicOf
<1>7. \A p \in Addr : Reachable(p) /\ TopicOf(p) = d => p \in TodoOf(s)'
  <2>1. SUFFICES ASSUME NEW p \in Addr, Reachable(p), TopicOf(p) = d PROVE p \in TodoOf(s)'
    OBVIOUS
  <2>2. info[p] # Nil
    BY <2>1 DEF Reachable
  <2>3. p \in Targets(d)
    BY <2>1, <2>2, ReachableIsTarget DEF TopicOf
  <2> QED
    BY <1>5, <2>3
<1>8. [t \in Sessions |-> CurOf(t)'] =
      [[t \in Sessions |-> CurOf(t)] EXCEPT ![s] = CurOf(s)']
  BY <1>4
<1>9. [t \in Sessions |-> TodoOf(t)'] =
      [[t \in Sessions |-> TodoOf(t)] EXCEPT ![s] = {p \in Addr : p \in TodoOf(s)'}]
  <2>1. TodoOf(s)' = {p \in Addr : p \in TodoOf(s)'}
    BY <1>5
  <2> QED
    BY <1>5, <2>1
<1>10. /\ [t \in Sessions |-> CurOf(t)][s] = Nil
       /\ [t \in Sessions |-> CurOf(t)'][s] = msg[s]
       /\ [t \in Sessions |-> TodoOf(t)'][s] = TodoOf(s)'
  BY <1>4
<1>11. /\ [p \in Addr |-> TopicOf(p)'] = [p \in Addr |-> TopicOf(p)]
       /\ [p \in Addr |-> Reachable(p)'] = [p \in Addr |-> Reachable(p)]
  BY <1>3
<1> QED
  BY <1>1, <1>2, <1>4, <1>6, <1>7, <1>8, <1>9, <1>10, <1>11
     DEF Stream!Begin, TopicOf, CurOf, TodoOf, Unsent

LEMMA PublishWaitMapsToEnd ==
    ASSUME TypeInv, StreamInv, NEW s \in Sessions, PublishWait(s), UNCHANGED conn
    PROVE  Stream!End(s)
<1>1. /\ pc[s] = "wait" /\ pc'[s] # "wait"
      /\ \A t \in Sessions \ {s} : pc'[t] = pc[t] /\ msg'[t] = msg[t]
      /\ \A p \in Addr : gor[s][p] \in {"none", "done"} /\ gor'[s][p] = "none"
      /\ \A t \in Sessions \ {s}, p \in Addr : gor'[t][p] = gor[t][p]
      /\ UNCHANGED <<info, npub, log, destToSubsMap>>
  BY PublishWaitStream
<1>2. msg[s] # Nil
  <2>1. msg[s] \in Frame
    BY DEF TypeInv, TypeOK, ProcTypeOK
  <2> QED
    BY <2>1, NilAssumption
<1>3. /\ [p \in Addr |-> TopicOf(p)'] = [p \in Addr |-> TopicOf(p)]
      /\ [p \in Addr |-> Reachable(p)'] = [p \in Addr |-> Reachable(p)]
  BY <1>1, StaysReachable
<1>4. /\ CurOf(s) # Nil /\ CurOf(s)' = Nil
      /\ \A t \in Sessions \ {s} : CurOf(t)' = CurOf(t)
  BY <1>1, <1>2 DEF CurOf
<1>5. TodoOf(s) = {} /\ \A t \in Sessions : TodoOf(t)' = TodoOf(t)
  BY <1>1 DEF TodoOf, Unsent
<1>6. [t \in Sessions |-> CurOf(t)'] = [[t \in Sessions |-> CurOf(t)] EXCEPT ![s] = Nil]
  <2>1. \A t \in Sessions \ {s} : CurOf(t)' = CurOf(t)
    BY <1>4
  <2>2. [t \in Sessions |-> CurOf(t)'] =
        [[t \in Sessions |-> CurOf(t)] EXCEPT ![s] = CurOf(s)']
    BY <2>1
  <2> QED
    BY <1>4, <2>2
<1>7. /\ [t \in Sessions |-> CurOf(t)][s] # Nil
      /\ [t \in Sessions |-> TodoOf(t)][s] = {}
      /\ [t \in Sessions |-> TodoOf(t)'] = [t \in Sessions |-> TodoOf(t)]
  BY <1>4, <1>5
<1> QED
  BY <1>1, <1>3, <1>6, <1>7 DEF Stream!End, TopicOf, CurOf, TodoOf, Unsent

LEMMA SendWriteMapsToDeliver ==
    ASSUME TypeInv, DeliveryInv, StreamInv, NEW s \in Sessions, NEW p \in Addr,
           SendWrite(s, p), UNCHANGED conn
    PROVE  Stream!Deliver(s, p)
<1> DEFINE e == [by |-> s, pub |-> npub[s], ack |-> Len(log[p]) % AckMod, msg |-> msg[s]]
<1>1. /\ gor[s][p] = "locked" /\ gor'[s][p] = "written"
      /\ \A t \in Sessions, q \in Addr : t # s \/ q # p => gor'[t][q] = gor[t][q]
      /\ log' = [log EXCEPT ![p] = Append(@, e)]
      /\ UNCHANGED <<info, npub, pc, msg, destToSubsMap>>
  BY SendWriteStream
<1>2. CurOf(s) = msg[s]
  BY <1>1 DEF CurOf, DeliveryInv, IdleOK
<1>3. /\ [q \in Addr |-> TopicOf(q)'] = [q \in Addr |-> TopicOf(q)]
      /\ [q \in Addr |-> Reachable(q)'] = [q \in Addr |-> Reachable(q)]
      /\ [t \in Sessions |-> CurOf(t)'] = [t \in Sessions |-> CurOf(t)]
      /\ [t \in Sessions |-> CurOf(t)][s] = msg[s]
  BY <1>1, <1>2, StaysReachable DEF CurOf
<1>4. /\ p \in TodoOf(s) /\ TodoOf(s)' = TodoOf(s) \ {p}
      /\ \A t \in Sessions \ {s} : TodoOf(t)' = TodoOf(t)
  BY <1>1 DEF TodoOf, Unsent
<1>5. /\ p \in [t \in Sessions |-> TodoOf(t)][s]
      /\ [t \in Sessions |-> TodoOf(t)'] =
            [[t \in Sessions |-> TodoOf(t)] EXCEPT ![s] = @ \ {p}]
  BY <1>4
<1>6. log' = [log EXCEPT ![p] = Append(@,
                [by |-> s, pub |-> npub[s], ack |-> Len(@) % AckMod,
                 msg |-> [t \in Sessions |-> CurOf(t)][s]])]
  BY <1>1, <1>3
<1> QED
  BY <1>1, <1>3, <1>5, <1>6 DEF Stream!Deliver, TopicOf, CurOf, TodoOf, Unsent

\* A subscription that is passed over or cannot be written to.
LEMMA GorMapsToLeaveOut ==
    ASSUME TypeInv, NEW s \in Sessions, NEW p \in Addr, NEW state \in GorStates \ Unsent,
           GorMoves(s, p, state), gor[s][p] \in Unsent, ~Reachable(p),
           UNCHANGED <<info, destToSubsMap, conn>>
    PROVE  Stream!LeaveOut(s, p)
<1>1. /\ gor'[s][p] = state
      /\ \A t \in Sessions, q \in Addr : t # s \/ q # p => gor'[t][q] = gor[t][q]
  BY HeapTypes, SetGorType DEF GorMoves
<1>2. UNCHANGED <<pc, msg, npub, log>>
  BY DEF GorMoves, procVars
<1>3. /\ [q \in Addr |-> TopicOf(q)'] = [q \in Addr |-> TopicOf(q)]
      /\ [q \in Addr |-> Reachable(q)'] = [q \in Addr |-> Reachable(q)]
      /\ [t \in Sessions |-> CurOf(t)'] = [t \in Sessions |-> CurOf(t)]
      /\ ~[q \in Addr |-> Reachable(q)][p]
  BY <1>2, StaysReachable DEF CurOf
<1>4. /\ p \in TodoOf(s) /\ TodoOf(s)' = TodoOf(s) \ {p}
      /\ \A t \in Sessions \ {s} : TodoOf(t)' = TodoOf(t)
  BY <1>1 DEF TodoOf
<1>5. /\ p \in [t \in Sessions |-> TodoOf(t)][s]
      /\ [t \in Sessions |-> TodoOf(t)'] =
            [[t \in Sessions |-> TodoOf(t)] EXCEPT ![s] = @ \ {p}]
  BY <1>4
<1> QED
  BY <1>2, <1>3, <1>5 DEF Stream!LeaveOut, TopicOf, CurOf, TodoOf, Unsent

\* A goroutine that starts, gets the lock or gives it back.
LEMMA GorMapsToChurn ==
    ASSUME TypeInv, NEW s \in Sessions, NEW p \in Addr, NEW state \in GorStates,
           GorMoves(s, p, state), gor[s][p] \in Unsent <=> state \in Unsent,
           UNCHANGED info
    PROVE  Stream!Churn
<1>1. /\ gor'[s][p] = state
      /\ \A t \in Sessions, q \in Addr : t # s \/ q # p => gor'[t][q] = gor[t][q]
  BY HeapTypes, SetGorType DEF GorMoves
<1>2. UNCHANGED <<pc, msg, npub, log>>
  BY DEF GorMoves, procVars
<1>3. /\ \A q \in Addr : TopicOf(q)' = TopicOf(q)
      /\ \A t \in Sessions : CurOf(t)' = CurOf(t)
  BY <1>2 DEF TopicOf, CurOf
<1>4. \A t \in Sessions : TodoOf(t)' = TodoOf(t)
  BY <1>1 DEF TodoOf
<1> QED
  BY <1>2, <1>3, <1>4, MapsToChurn

LEMMA NextMapsToNext ==
    ASSUME TypeInv, DeliveryInv, StreamInv, [Next]_vars
    PROVE  [Stream!Next]_Stream!vars
<1>1. CASE UNCHANGED vars
  <2>1. UNCHANGED <<destToSubsMap, info, gor, npub, log, pc, msg, conn>>
    BY <1>1 DEF vars, procVars, sessVars, subVars, mapVars, heapVars, pubVars
  <2>2. /\ \A p \in Addr : TopicOf(p)' = TopicOf(p) /\ Reachable(p)' = Reachable(p)
        /\ \A t \in Sessions : CurOf(t)' = CurOf(t) /\ TodoOf(t)' = TodoOf(t)
    BY <2>1, StaysReachable DEF CurOf, TodoOf
  <2>3. /\ [p \in Addr |-> TopicOf(p)'] = [p \in Addr |-> TopicOf(p)]
        /\ [p \in Addr |-> Reachable(p)'] = [p \in Addr |-> Reachable(p)]
        /\ [t \in Sessions |-> CurOf(t)'] = [t \in Sessions |-> CurOf(t)]
        /\ [t \in Sessions |-> TodoOf(t)'] = [t \in Sessions |-> TodoOf(t)]
    BY <2>2
  <2> QED
    BY <2>1, <2>3 DEF Stream!vars, TopicOf, CurOf, TodoOf, Unsent
<1>2. CASE Next
  <2>1. PICK s \in Sessions :
           \/ \/ ReceiveStep(s)
              \/ SessionStep(s) /\ UNCHANGED subVars
              \/ TransactionStep(s) /\ UNCHANGED subVars
              \/ \E t \in Sessions : MapFault(s, t)
           \/ SubscribeStep(s) /\ UNCHANGED sessVars
    BY <1>2 DEF Next
  <2>2. SUFFICES \/ Stream!Churn
                 \/ \E p \in Addr : Stream!Open(p)
                 \/ Stream!Begin(s) \/ Stream!End(s)
                 \/ \E p \in Addr : Stream!Deliver(s, p) \/ Stream!LeaveOut(s, p)
    BY <2>1 DEF Stream!Next
  <2>3. CASE \/ ReceiveStep(s)
             \/ SessionStep(s) /\ UNCHANGED subVars
             \/ TransactionStep(s) /\ UNCHANGED subVars
             \/ \E t \in Sessions : MapFault(s, t)
    <3>1. Calm(s) /\ UNCHANGED subVars
      BY <2>3, ElsewhereCalm
    <3>2. UNCHANGED <<info, gor, log, npub>>
      BY <3>1 DEF subVars, heapVars, pubVars
    <3> QED
      BY <3>1, <3>2, CalmMapsToChurn
  <2>4. CASE SubscribeStep(s) /\ UNCHANGED sessVars
    <3>0. UNCHANGED conn
      BY <2>4 DEF sessVars
    <3>1. CASE RegistryStep(s)
      BY <3>1, RegistryShrinks, RegistryCalm, CalmMapsToChurn
    <3>2. CASE AddInsert(s)
      <4>1. CASE destToSubsMap[arg[s].dest] = Nil
        <5>1. Calm(s) /\ UNCHANGED <<info, gor, log, npub>>
          BY <3>2, <4>1, RegistryCalm DEF AddInsert, pubVars
        <5> QED
          BY <5>1, CalmMapsToChurn
      <4> QED
        BY <3>2, <4>1, AddInsertMapsToOpen
    <3>3. CASE AckApply(s)
      <4>1. Calm(s) /\ UNCHANGED <<info, gor, log, npub>>
        BY <3>3, RegistryCalm DEF AckApply, pubVars
      <4> QED
        BY <4>1, CalmMapsToChurn
    <3>4. CASE PublishRange(s)
      <4>1. CASE msg[s].dest = Empty
        <5>1. UNCHANGED <<info, gor, log, npub>> /\ Fail(s) /\ pc[s] # "wait"
          BY <3>4, <4>1 DEF PublishRange, heapVars
        <5> QED
          BY <5>1, CalmMoves, CalmMapsToChurn
      <4> QED
        BY <3>0, <3>4, <4>1, PublishRangeMapsToBegin
    <3>5. CASE PublishWait(s)
      BY <3>0, <3>5, PublishWaitMapsToEnd
    <3>6. CASE \E p \in Addr : PublishNext(s, p)
      <4>1. PICK p \in Addr : PublishNext(s, p)
        BY <3>6
      <4>2. /\ gor[s][p] = "due" /\ UNCHANGED <<destToSubsMap, info>>
            /\ \/ GorMoves(s, p, "start")
               \/ p \notin Targets(msg[s].dest) /\ GorMoves(s, p, "none")
        BY <4>1 DEF PublishNext, GorMoves, heapVars, mapVars
      <4>3. {"start", "none"} \subseteq GorStates
        BY DEF GorStates
      <4>4. CASE GorMoves(s, p, "start")
        BY <4>2, <4>3, <4>4, GorMapsToChurn DEF Unsent
      <4>5. CASE p \notin Targets(msg[s].dest) /\ GorMoves(s, p, "none")
        <5>1. info[p].dest = msg[s].dest
          BY <4>2 DEF StreamInv, DueOK
        <5>2. ~Reachable(p)
          BY <4>5, <5>1, ReachableIsTarget
        <5> QED
          BY <3>0, <4>2, <4>3, <4>5, <5>2, GorMapsToLeaveOut DEF Unsent
      <4> QED
        BY <4>2, <4>4, <4>5
    <3>7. CASE \E p \in Addr : SendStep(s, p)
      <4>1. PICK p \in Addr : SendStep(s, p)
        BY <3>7
      <4>2. {"locked", "done", "failed"} \subseteq GorStates
        BY DEF GorStates
      <4>3. CASE SendLock(s, p)
        <5>1. GorMoves(s, p, "locked") /\ gor[s][p] = "start" /\ UNCHANGED info
          BY <4>3 DEF SendLock, GorMoves
        <5> QED
          BY <4>2, <5>1, GorMapsToChurn DEF Unsent
      <4>4. CASE SendDone(s, p)
        <5>1. GorMoves(s, p, "done") /\ gor[s][p] = "written" /\ UNCHANGED info
          BY <4>4 DEF SendDone, GorMoves
        <5> QED
          BY <4>2, <5>1, GorMapsToChurn DEF Unsent
      <4>5. CASE SendWrite(s, p)
        BY <3>0, <4>5, SendWriteMapsToDeliver
      <4>6. CASE SendFails(s, p)
        <5>1. /\ GorMoves(s, p, "failed") /\ gor[s][p] = "locked"
              /\ UNCHANGED <<destToSubsMap, info>>
          BY <4>6 DEF SendFails, GorMoves, mapVars
        <5>2. ~Reachable(p)
          BY <4>6 DEF SendFails, WriteFails, Reachable
        <5> QED
          BY <3>0, <4>2, <5>1, <5>2, GorMapsToLeaveOut DEF Unsent
      <4> QED
        BY <4>1, <4>3, <4>4, <4>5, <4>6 DEF SendStep
    <3> QED
      BY <2>4, <3>1, <3>2, <3>3, <3>4, <3>5, <3>6, <3>7
         DEF SubscribeStep, HandlerStep, RegistryStep
  <2> QED
    BY <2>1, <2>3, <2>4
<1> QED
  BY <1>1, <1>2

\* publish() with its unlocked maps, goroutines and retries implements the abstract
\* TopicStream: gapless numbered streams, every subscription of the destination dealt
\* with exactly once per call, and none left out that could be reached at that moment.
THEOREM PublishImplementsStream == Spec => ImplementsTopicStream
<1>1. Init => Stream!Init
  BY MapsToInit
<1>2. TypeInv /\ DeliveryInv /\ StreamInv /\ [Next]_vars => [Stream!Next]_Stream!vars
  BY NextMapsToNext
<1> QED
  BY <1>1, <1>2, TypeInvariant, DeliveryInvariant, StreamInvariant, PTL
     DEF Spec, ImplementsTopicStream, Stream!Spec
----------------------------------------------------------------------------
\* What is written to a subscription belongs to its destination.

\* One step writes at most one message to a subscription, of a call of publish() that
\* has yet to deal with it, and leaves the fields of every object alone.
OneMore ==
    \A p \in Addr :
        /\ info[p] # Nil => info'[p] = info[p]
        /\ \/ log'[p] = log[p]
           \/ \E s \in Sessions, e \in Entry :
                /\ gor[s][p] # "none" /\ e.msg = msg[s]
                /\ log'[p] = Append(log[p], e)

LEMMA NextWritesOneMore ==
    ASSUME TypeInv, DeliveryInv, StreamInv, [Next]_vars
    PROVE  OneMore
<1>1. CASE UNCHANGED vars
  BY <1>1 DEF vars, subVars, heapVars, pubVars, OneMore
<1>2. CASE Next
  <2>1. PICK s \in Sessions :
           \/ \/ ReceiveStep(s)
              \/ SessionStep(s) /\ UNCHANGED subVars
              \/ TransactionStep(s) /\ UNCHANGED subVars
              \/ \E t \in Sessions : MapFault(s, t)
           \/ SubscribeStep(s)
    BY <1>2 DEF Next
  <2>2. CASE \/ ReceiveStep(s)
             \/ SessionStep(s) /\ UNCHANGED subVars
             \/ TransactionStep(s) /\ UNCHANGED subVars
             \/ \E t \in Sessions : MapFault(s, t)
    BY <2>2, ElsewhereCalm DEF subVars, heapVars, pubVars, OneMore
  <2>3. CASE SubscribeStep(s)
    <3>1. CASE AddInsert(s)
      <4>1. info \in [Addr -> Info \cup {Nil}] /\ nInfo \in Nat /\ \A p \in Addr : p \in Nat
        BY LogTypes DEF TypeInv, TypeOK, SubTypeOK
      <4>2. \A p \in Addr : info[p] # Nil => p # nInfo + 1
        <5> SUFFICES ASSUME NEW p \in Addr, p = nInfo + 1 PROVE info[p] = Nil
          OBVIOUS
        <5>1. p > nInfo
          BY <4>1
        <5> QED BY <5>1 DEF StreamInv, HeapOK
      <4>3. UNCHANGED log
        BY <3>1 DEF AddInsert, pubVars
      <4>4. CASE info' = info
        BY <4>3, <4>4 DEF OneMore
      <4>5. CASE info' = [info EXCEPT ![nInfo + 1] =
                      [sess |-> s, dest |-> arg[s].dest, id |-> arg[s].id,
                       asked |-> arg[s].mode, ackMode |-> AckModeOf(arg[s].mode)]]
        <5>1. \A p \in Addr : p # nInfo + 1 => info'[p] = info[p]
          BY <4>1, <4>5
        <5> QED BY <4>2, <4>3, <5>1 DEF OneMore
      <4> QED BY <3>1, <4>4, <4>5 DEF AddInsert
    <3>2. CASE \E p \in Addr : SendWrite(s, p)
      <4>1. PICK p \in Addr : SendWrite(s, p)
        BY <3>2
      <4> DEFINE e == [by |-> s, pub |-> npub[s], ack |-> nextAckNum[p], msg |-> msg[s]]
      <4>2. /\ gor[s][p] = "locked" /\ log' = [log EXCEPT ![p] = Append(@, e)]
            /\ UNCHANGED info
        BY <4>1 DEF SendWrite, heapVars
      <4>3. e \in Entry
        BY LogTypes DEF Entry, TypeInv, TypeOK, ProcTypeOK
      <4>4. e.msg = msg[s]
        OBVIOUS
      <4> HIDE DEF e
      <4>5. log \in [Addr -> Seq(Entry)]
        BY DEF TypeInv, TypeOK, SubTypeOK
      <4>6. log'[p] = Append(log[p], e) /\ \A q \in Addr \ {p} : log'[q] = log[q]
        BY <4>2, <4>5
      <4> QED BY <4>2, <4>3, <4>4, <4>6 DEF OneMore
    <3>3. CASE ~AddInsert(s) /\ ~ \E p \in Addr : SendWrite(s, p)
      <4>1. UNCHANGED <<info, log>>
        BY <2>3, <3>3 DEF SubscribeStep, HandlerStep, AddCheck, AddReset, AddIndexDest,
                AddIndexSession, RemoveFindDest, RemoveCheckDest, RemoveFindInfo,
                RemoveFromSession, RemoveEntry, RemoveCheckEmpty, RemoveDest,
                RemoveIndexDest, CleanupBegin, CleanupNext, CleanupLast, PublishRange,
                PublishNext, PublishWait, AckCheck, AckLookup, AckApply, SendStep, SendLock,
                SendDone, SendFails, subVars, heapVars, pubVars
      <4> QED BY <4>1 DEF OneMore
    <3> QED BY <3>1, <3>2, <3>3
  <2> QED BY <2>1, <2>2, <2>3
<1> QED BY <1>1, <1>2

\* For any number of sessions, destinations and IDs, also IDs that clients share or
\* use again: a message is written to subscriptions of its destination only.
THEOREM DeliveredWhereSent == Spec => []DeliveredToItsDest
<1>1. Init => DeliveredToItsDest
  <2> SUFFICES ASSUME Init, NEW p \in Addr PROVE 1 .. Len(log[p]) = {}
    BY DEF DeliveredToItsDest
  <2>1. log[p] = <<>>
    BY DEF Init, SubInit
  <2>2. Len(log[p]) = 0
    BY <2>1
  <2> QED BY <2>2
<1>2. TypeInv /\ DeliveryInv /\ StreamInv /\ DeliveredToItsDest /\ [Next]_vars
        => DeliveredToItsDest'
  <2> SUFFICES ASSUME TypeInv, DeliveryInv, StreamInv, DeliveredToItsDest, [Next]_vars,
                      NEW p \in Addr, NEW k \in 1 .. Len(log'[p])
               PROVE  log'[p][k].msg.dest = info'[p].dest
    BY DEF DeliveredToItsDest
  <2>1. OneMore
    BY NextWritesOneMore
  <2>2. log[p] \in Seq(Entry) /\ Len(log[p]) \in Nat /\ p \in 1 .. MaxSubs /\ nInfo \in Nat /\ p \in Nat
    BY LogTypes DEF Addr
  <2>3. p =< nInfo => info[p] # Nil
    <3>1. p =< nInfo => p \in 1 .. nInfo
      BY <2>2, SubscribeAssumption
    <3>2. \A q \in 1 .. nInfo : info[q] \in Info
      BY DEF TypeInv, TypeOK, SubTypeOK
    <3> QED BY <3>1, <3>2, NilAssumption
  <2>4. ASSUME NEW j \in 1 .. Len(log[p])
        PROVE  log[p][j].msg.dest = info'[p].dest
    <3>1. log[p] # <<>>
      BY <2>2, <2>4
    <3>2. p =< nInfo
      BY <2>2, <3>1 DEF DeliveryInv, FreshOK
    <3> QED BY <2>1, <2>3, <3>2 DEF DeliveredToItsDest, OneMore
  <2>5. CASE log'[p] = log[p]
    BY <2>4, <2>5
  <2>6. CASE \E s \in Sessions, e \in Entry :
                /\ gor[s][p] # "none" /\ e.msg = msg[s]
                /\ log'[p] = Append(log[p], e)
    <3>1. PICK s \in Sessions, e \in Entry :
                /\ gor[s][p] # "none" /\ e.msg = msg[s]
                /\ log'[p] = Append(log[p], e)
      BY <2>6
    <3>2. /\ Len(log'[p]) = Len(log[p]) + 1 /\ log'[p][Len(log[p]) + 1] = e
          /\ \A j \in 1 .. Len(log[p]) : log'[p][j] = log[p][j]
      BY <2>2, <3>1
    <3>3. p =< nInfo /\ info[p].dest = msg[s].dest
      BY <3>1 DEF StreamInv, DueOK
    <3>4. info'[p].dest = msg[s].dest
      BY <2>1, <2>3, <3>3 DEF OneMore
    <3>5. CASE k = Len(log[p]) + 1
      BY <3>1, <3>2, <3>4, <3>5
    <3>6. CASE k # Len(log[p]) + 1
      <4>1. k \in 1 .. Len(log[p])
        BY <2>2, <3>2, <3>6
      <4> QED BY <4>1, <3>2, <2>4
    <3> QED BY <3>5, <3>6
  <2> QED BY <2>1, <2>5, <2>6 DEF OneMore
<1> QED BY <1>1, <1>2, TypeInvariant, DeliveryInvariant, StreamInvariant, PTL DEF Spec
=============================================================================
