---------------------------- MODULE SessionProofs ----------------------------
(***************************************************************************)
(* What a session promises its client, proved of the broker for any number *)
(* of sessions and any intervals: nothing is answered after a farewell,    *)
(* and repeated handshakes respect the configured heartbeat interval.      *)
(***************************************************************************)
EXTENDS DeliveryProofs, Server

USE DEF At

Farewell == {"ERROR", "RECEIPT"}

\* Once an ERROR or a RECEIPT was written, Start() is leaving its loop, or DISCONNECT
\* is about to close the connection, or nothing can be written any more.
PartedOK ==
    \A s \in Sessions : \A k \in 1 .. Len(out[s]) :
        out[s][k] \in Farewell => pc[s] \in {"return", "done", "ended", "bye2"} \/ conn[s] = "closed"

\* A session that was not accepted has no connection.
UnacceptedOK == \A s \in Sessions : pc[s] = "none" => conn[s] = "none"

\* An interval that respects the configured one.
AtFloor(n) == 0 < BrokerSendMsec /\ BrokerSendMsec =< n

\* The jobs are numbered, each was made with an interval that had been agreed, and the
\* last one with the interval in force when heartbeats are sent at all.
FloorOK ==
    \A s \in Sessions :
        /\ hbSend[s] = 0 \/ AtFloor(hbSend[s])
        /\ Len(every[s]) = hbJob[s]
        /\ jobs[s] \subseteq 1 .. hbJob[s]
        /\ \A j \in 1 .. hbJob[s] : AtFloor(every[s][j])
        /\ hbSend[s] # 0 /\ hbJob[s] # 0 => every[s][hbJob[s]] = hbSend[s]

SessionInv == PartedOK /\ UnacceptedOK /\ FarewellIsLast /\ FloorOK

\* A step that leaves a session's end and its beginning alone.
Elsewhere(s) ==
    \/ pc' = pc
    \/ /\ pc[s] \notin {"none", "return", "done", "ended", "bye2"}
       /\ pc'[s] \notin {"none", "done", "ended"}
       /\ \A t \in Sessions \ {s} : pc'[t] = pc[t]

LEMMA SessionKept ==
    ASSUME SessionInv, NEW s \in Sessions, Elsewhere(s), UNCHANGED sessVars
    PROVE  SessionInv'
<1>1. PartedOK'
  BY DEF SessionInv, PartedOK, Elsewhere, sessVars
<1>2. UnacceptedOK'
  BY DEF SessionInv, UnacceptedOK, Elsewhere, sessVars
<1>3. FarewellIsLast' /\ FloorOK'
  BY DEF SessionInv, FarewellIsLast, FloorOK, sessVars
<1> QED
  BY <1>1, <1>2, <1>3 DEF SessionInv

LEMMA Elsewhither ==
    ASSUME TypeInv, NEW s \in Sessions, pc[s] \notin {"none", "return", "done", "ended", "bye2"},
           \/ Return(s) \/ Fail(s)
           \/ \E l \in Labels \ {"none", "done", "ended"} : Continue(s, l) \/ Goto(s, l) \/ HandledAtOnce(s, l)
           \/ \E why : Panic(why)
    PROVE  Elsewhere(s)
BY DEF TypeInv, TypeOK, ProcTypeOK, Return, Fail, Continue, Goto, HandledAtOnce, Panic,
       Elsewhere

LEMMA ReceiveElsewhere ==
    ASSUME TypeInv, NEW s \in Sessions, ReceiveStep(s)
    PROVE  Elsewhere(s) /\ UNCHANGED sessVars
<1>1. UNCHANGED sessVars
  BY DEF ReceiveStep, Receive, Send, SubscribeTo, Unsubscribe, Ack, AckMalformed, Nack,
         Begin, Commit, Abort, EndTx, Disconnect
<1>2. pc[s] = "idle"
  BY DEF ReceiveStep, Receive, Send, SubscribeTo, Unsubscribe, Ack, AckMalformed, Nack,
         Begin, Commit, Abort, EndTx, Disconnect, MayReceive
<1>3. \/ \E l \in Labels \ {"none", "done", "ended"} : Goto(s, l) \/ HandledAtOnce(s, l)
      \/ \E why : Panic(why)
  BY DEF ReceiveStep, Receive, Send, SubscribeTo, Unsubscribe, Ack, AckMalformed, Nack,
         Begin, Commit, Abort, EndTx, Disconnect, Labels
<1> QED
  BY <1>1, <1>2, <1>3, Elsewhither

LEMMA TransactionElsewhere ==
    ASSUME TypeInv, NEW s \in Sessions, TransactionStep(s)
    PROVE  Elsewhere(s)
<1>1. pc[s] \notin {"none", "return", "done", "ended", "bye2"}
  BY DEF TransactionStep, StartTxCheck, StartTxStore, BufferTxCheck, BufferTxRead,
         BufferTxStore, ForeachTxCheck, ForeachTxRead, ForeachTxNext, ForeachTxLast,
         DropTxCheck, DropTxDelete
<1>2. Return(s) \/ Fail(s) \/ \E l \in Labels \ {"none", "done", "ended"} : Continue(s, l) \/ Goto(s, l)
  BY DEF TransactionStep, StartTxCheck, StartTxStore, BufferTxCheck, BufferTxRead,
         BufferTxStore, ForeachTxCheck, ForeachTxRead, ForeachTxNext, ForeachTxLast,
         DropTxCheck, DropTxDelete, Labels
<1> QED
  BY <1>1, <1>2, Elsewhither

LEMMA SubscribeElsewhere ==
    ASSUME TypeInv, NEW s \in Sessions, SubscribeStep(s)
    PROVE  Elsewhere(s)
<1>1. CASE \E p \in Addr : PublishNext(s, p) \/ SendStep(s, p)
  BY <1>1 DEF PublishNext, SendStep, SendLock, SendWrite, SendDone, SendFails, procVars,
              Elsewhere
<1>2. CASE ~ \E p \in Addr : PublishNext(s, p) \/ SendStep(s, p)
  <2>1. pc[s] \notin {"none", "return", "done", "ended", "bye2"}
    BY <1>2 DEF SubscribeStep, HandlerStep, AddCheck, AddReset, AddInsert, AddIndexDest,
                AddIndexSession, RemoveFindDest, RemoveCheckDest, RemoveFindInfo,
                RemoveFromSession, RemoveEntry, RemoveCheckEmpty, RemoveDest,
                RemoveIndexDest, CleanupBegin, CleanupNext, CleanupLast, PublishRange,
                PublishWait, AckCheck, AckLookup, AckApply
  <2>2. \/ Return(s) \/ Fail(s) \/ \E l \in Labels \ {"none", "done", "ended"} : Continue(s, l) \/ Goto(s, l)
        \/ \E why : Panic(why)
    BY <1>2 DEF SubscribeStep, HandlerStep, AddCheck, AddReset, AddInsert, AddIndexDest,
                AddIndexSession, RemoveFindDest, RemoveCheckDest, RemoveFindInfo,
                RemoveFromSession, RemoveEntry, RemoveCheckEmpty, RemoveDest,
                RemoveIndexDest, CleanupBegin, CleanupNext, CleanupLast, PublishRange,
                PublishWait, AckCheck, AckLookup, AckApply, RemoveError, Labels
  <2> QED
    BY <2>1, <2>2, Elsewhither
<1> QED
  BY <1>1, <1>2

----------------------------------------------------------------------------
\* The steps of the session.

\* A control frame that s writes while it can write and is not parted is its last one.
LEMMA WriteKeeps ==
    ASSUME TypeInv, SessionInv, NEW s \in Sessions,
           NEW f \in {"CONNECTED", "RECEIPT", "ERROR"},
           pc[s] \in {"idle", "bye1"}, WriteSucceeds(s),
           out' = [out EXCEPT ![s] = Append(@, f)]
    PROVE  /\ FarewellIsLast'
           /\ \A k \in 1 .. Len(out'[s]) : out'[s][k] \in Farewell => f \in Farewell
           /\ \A t \in Sessions \ {s} : out'[t] = out[t]
<1>1. /\ out \in [Sessions -> Seq({"CONNECTED", "RECEIPT", "ERROR"})]
      /\ Len(out[s]) \in Nat
  <2>1. out \in [Sessions -> Seq({"CONNECTED", "RECEIPT", "ERROR"})]
    BY DEF TypeInv, TypeOK, SessTypeOK
  <2> QED
    BY <2>1
<1>2. /\ out'[s] = Append(out[s], f) /\ Len(out'[s]) = Len(out[s]) + 1
      /\ \A t \in Sessions \ {s} : out'[t] = out[t]
      /\ \A k \in 1 .. Len(out[s]) : out'[s][k] = out[s][k]
      /\ out'[s][Len(out[s]) + 1] = f
  BY <1>1
<1>3. \A k \in 1 .. Len(out[s]) : out[s][k] \notin Farewell
  BY DEF SessionInv, PartedOK, WriteSucceeds
<1>4. \A k \in 1 .. Len(out'[s]) : k # Len(out[s]) + 1 => out'[s][k] \notin Farewell
  BY <1>1, <1>2, <1>3
<1>5. FarewellIsLast'
  <2>1. SUFFICES ASSUME NEW t \in Sessions, NEW k \in 1 .. Len(out'[t]),
                        out'[t][k] \in Farewell
                 PROVE  k = Len(out'[t])
    BY DEF FarewellIsLast, Farewell
  <2>2. CASE t = s
    BY <1>2, <1>4, <2>1, <2>2
  <2>3. CASE t # s
    BY <1>2, <2>1, <2>3 DEF SessionInv, FarewellIsLast, Farewell
  <2> QED
    BY <2>2, <2>3
<1> QED
  BY <1>2, <1>4, <1>5

\* handleConnect() and Start() when they answer a frame, and DISCONNECT's RECEIPT.
LEMMA AnswerKeeps ==
    ASSUME TypeInv, SessionInv, NEW s \in Sessions,
           NEW f \in {"CONNECTED", "RECEIPT", "ERROR"}, NEW l \in Labels \ {"none"},
           pc[s] \in {"idle", "bye1"}, Goto(s, l), UNCHANGED conn,
           \/ /\ WriteSucceeds(s)
              /\ out' = [out EXCEPT ![s] = Append(@, f)]
              /\ f \in Farewell => l \in {"return", "bye2"}
           \/ UNCHANGED out
    PROVE  PartedOK' /\ UnacceptedOK' /\ FarewellIsLast'
<1>1. /\ pc'[s] = l /\ \A t \in Sessions \ {s} : pc'[t] = pc[t]
  BY DEF Goto, TypeInv, TypeOK, ProcTypeOK
<1>2. UnacceptedOK'
  BY <1>1 DEF SessionInv, UnacceptedOK
<1>3. CASE UNCHANGED out
  BY <1>1, <1>2, <1>3 DEF SessionInv, PartedOK, FarewellIsLast
<1>4. CASE /\ WriteSucceeds(s)
           /\ out' = [out EXCEPT ![s] = Append(@, f)]
           /\ f \in Farewell => l \in {"return", "bye2"}
  <2>1. /\ FarewellIsLast'
        /\ \A k \in 1 .. Len(out'[s]) : out'[s][k] \in Farewell => f \in Farewell
        /\ \A t \in Sessions \ {s} : out'[t] = out[t]
    BY <1>4, WriteKeeps
  <2>2. PartedOK'
    BY <1>1, <1>4, <2>1 DEF SessionInv, PartedOK
  <2> QED
    BY <1>2, <2>1, <2>2
<1> QED
  BY <1>3, <1>4

\* A handshake keeps FloorOK: an interval that was 0 stays 0, else it is not lowered, and a
\* job is added only with the interval that was agreed.
LEMMA NegotiateKeepsFloor ==
    ASSUME SessTypeOK, FloorOK, NEW s \in Sessions, NEW hb \in HbHeaders \cup {Nil},
           NegotiateHeartbeats(s, hb)
    PROVE  FloorOK'
<1>1. CASE UNCHANGED hbVars
  BY <1>1 DEF FloorOK, hbVars
<1>2. CASE hb # Nil
  <2>1. /\ hbSend \in [Sessions -> Nat] /\ hb[2] \in Nat
        /\ hbJob \in [Sessions -> Nat] /\ jobs \in [Sessions -> SUBSET Nat]
        /\ every \in [Sessions -> Seq(Nat)]
    BY <1>2, SessionAssumption DEF SessTypeOK
  <2>2. hbSend' = [hbSend EXCEPT ![s] = Negotiate(@, hb[2])]
    BY <1>2 DEF NegotiateHeartbeats
  <2>3. /\ hbSend'[s] = Negotiate(hbSend[s], hb[2])
        /\ \A t \in Sessions \ {s} : hbSend'[t] = hbSend[t]
    BY <2>1, <2>2
  <2>4. \/ hbSend'[s] = 0
        \/ hbSend'[s] \in Nat \ {0} /\ hbSend[s] # 0 /\ hbSend'[s] >= hbSend[s]
    BY <2>1, <2>3 DEF Negotiate
  <2>5. hbSend'[s] = 0 \/ AtFloor(hbSend'[s])
    <3>1. hbSend[s] \in Nat /\ BrokerSendMsec \in Nat
      BY <2>1, SessionAssumption
    <3>2. hbSend[s] = 0 \/ AtFloor(hbSend[s])
      BY DEF FloorOK
    <3> QED
      BY <2>4, <3>1, <3>2 DEF AtFloor
  <2>6. CASE hbSend'[s] = 0
    <3>1. UNCHANGED <<hbJob, jobs, every>>
      BY <1>2, <2>6 DEF NegotiateHeartbeats
    <3> QED
      BY <2>3, <2>6, <3>1 DEF FloorOK
  <2>7. CASE hbSend'[s] # 0
    <3>1. /\ hbJob' = [hbJob EXCEPT ![s] = @ + 1]
          /\ jobs' = [jobs EXCEPT ![s] = @ \cup {hbJob'[s]}]
          /\ every' = [every EXCEPT ![s] = Append(@, hbSend'[s])]
      BY <1>2, <2>7 DEF NegotiateHeartbeats
    <3>2. /\ hbJob'[s] = hbJob[s] + 1
          /\ jobs'[s] = jobs[s] \cup {hbJob[s] + 1}
          /\ every'[s] = Append(every[s], hbSend'[s])
      BY <2>1, <3>1
    <3>3. /\ every[s] \in Seq(Nat) /\ Len(every[s]) = hbJob[s] /\ hbJob[s] \in Nat
          /\ jobs[s] \subseteq 1 .. hbJob[s]
      BY <2>1 DEF FloorOK
    <3>4. /\ Len(every'[s]) = hbJob[s] + 1
          /\ \A j \in 1 .. hbJob[s] : every'[s][j] = every[s][j]
          /\ every'[s][hbJob[s] + 1] = hbSend'[s]
      BY <2>4, <2>7, <3>2, <3>3
    <3>5. \A j \in 1 .. hbJob'[s] : AtFloor(every'[s][j])
      <4> SUFFICES ASSUME NEW j \in 1 .. hbJob'[s] PROVE AtFloor(every'[s][j])
        OBVIOUS
      <4>1. CASE j = hbJob[s] + 1
        BY <2>5, <2>7, <3>4, <4>1
      <4>2. CASE j # hbJob[s] + 1
        <5>1. j \in 1 .. hbJob[s]
          BY <3>2, <3>3, <4>2
        <5> QED
          BY <3>4, <5>1 DEF FloorOK
      <4> QED
        BY <4>1, <4>2
    <3>6. jobs'[s] \subseteq 1 .. hbJob'[s]
      BY <3>2, <3>3
    <3>7. \A t \in Sessions \ {s} :
             hbJob'[t] = hbJob[t] /\ jobs'[t] = jobs[t] /\ every'[t] = every[t]
      BY <2>1, <3>1
    <3>8. Len(every'[s]) = hbJob'[s] /\ every'[s][hbJob'[s]] = hbSend'[s]
      BY <3>2, <3>4
    <3> QED
      BY <2>3, <2>5, <3>5, <3>6, <3>7, <3>8 DEF FloorOK
  <2> QED
    BY <2>6, <2>7
<1> QED
  BY <1>1, <1>2 DEF NegotiateHeartbeats

\* FloorOK says what JobsKeepFloor says of the jobs that the scheduler holds.
LEMMA FloorImplies ==
    ASSUME SessTypeOK, FloorOK
    PROVE  JobsKeepFloor
<1> SUFFICES ASSUME NEW s \in Sessions
             PROVE  /\ \A j \in jobs[s] :
                           0 < BrokerSendMsec /\ BrokerSendMsec =< every[s][j]
                    /\ hbSend[s] # 0 /\ hbJob[s] # 0 => every[s][hbJob[s]] = hbSend[s]
  BY DEF JobsKeepFloor
<1>1. /\ jobs[s] \subseteq 1 .. hbJob[s]
      /\ \A j \in 1 .. hbJob[s] : AtFloor(every[s][j])
      /\ hbSend[s] # 0 /\ hbJob[s] # 0 => every[s][hbJob[s]] = hbSend[s]
  BY DEF FloorOK
<1>2. \A j \in jobs[s] : 0 < BrokerSendMsec /\ BrokerSendMsec =< every[s][j]
  BY <1>1 DEF AtFloor
<1> QED
  BY <1>1, <1>2

LEMMA SessionStepKeeps ==
    ASSUME TypeInv, SessionInv, NEW s \in Sessions, SessionStep(s)
    PROVE  SessionInv'
<1>1. /\ pc \in [Sessions -> Labels] /\ SessTypeOK
      /\ conn \in [Sessions -> {"none", "open", "gone", "closed"}]
  BY DEF TypeInv, TypeOK, ProcTypeOK, SessTypeOK
<1>2. CASE Accept(s)
  <2>1. /\ pc[s] = "none" /\ UNCHANGED <<out, hbVars>>
        /\ pc' = [pc EXCEPT ![s] = "idle"] /\ conn' = [conn EXCEPT ![s] = "open"]
    BY <1>2 DEF Accept, Continue, Goto, hbVars
  <2>2. conn[s] # "closed"
    BY <2>1 DEF SessionInv, UnacceptedOK
  <2>3. PartedOK' /\ UnacceptedOK'
    BY <1>1, <2>1, <2>2 DEF SessionInv, PartedOK, UnacceptedOK
  <2>4. FarewellIsLast' /\ FloorOK'
    BY <2>1 DEF SessionInv, FarewellIsLast, FloorOK, hbVars
  <2> QED
    BY <2>3, <2>4 DEF SessionInv
<1>3. CASE PeerLeaves(s)
  <2>1. /\ conn[s] = "open" /\ UNCHANGED <<pc, out, hbVars>>
        /\ conn' = [conn EXCEPT ![s] = "gone"]
    BY <1>3 DEF PeerLeaves, procVars, hbVars
  <2>2. PartedOK' /\ UnacceptedOK'
    BY <1>1, <2>1 DEF SessionInv, PartedOK, UnacceptedOK
  <2>3. FarewellIsLast' /\ FloorOK'
    BY <2>1 DEF SessionInv, FarewellIsLast, FloorOK, hbVars
  <2> QED
    BY <2>2, <2>3 DEF SessionInv
<1>4. CASE \E hb \in HbHeaders \cup {Nil} : Connect(s, hb)
  <2>1. PICK hb \in HbHeaders \cup {Nil} : Connect(s, hb)
    BY <1>4
  <2>2. FloorOK'
    BY <1>1, <2>1, NegotiateKeepsFloor DEF Connect, SessionInv
  <2>3. PICK l \in {"idle", "return"} :
           /\ pc[s] = "idle" /\ Goto(s, l) /\ UNCHANGED conn
           /\ \/ WriteSucceeds(s) /\ out' = [out EXCEPT ![s] = Append(@, "CONNECTED")]
              \/ UNCHANGED out
    BY <2>1 DEF Connect, MayReceive, HandledAtOnce
  <2>4. PartedOK' /\ UnacceptedOK' /\ FarewellIsLast'
    BY <2>3, AnswerKeeps DEF Labels, Farewell
  <2> QED
    BY <2>2, <2>4 DEF SessionInv
<1>5. CASE ConnectDenied(s) \/ InvalidFrame(s) \/ ByeReceipt(s)
  <2>1. FloorOK'
    BY <1>5 DEF ConnectDenied, InvalidFrame, ByeReceipt, hbVars, SessionInv, FloorOK
  <2>2. PICK f \in {"ERROR", "RECEIPT"}, l \in {"return", "bye2"} :
           /\ pc[s] \in {"idle", "bye1"} /\ Goto(s, l) /\ UNCHANGED conn
           /\ \/ WriteSucceeds(s) /\ out' = [out EXCEPT ![s] = Append(@, f)]
              \/ UNCHANGED out
    BY <1>5 DEF ConnectDenied, InvalidFrame, ByeReceipt, SendIgnoringError, MayReceive,
                HandledAtOnce, Continue
  <2>3. PartedOK' /\ UnacceptedOK' /\ FarewellIsLast'
    BY <2>2, AnswerKeeps DEF Labels, Farewell
  <2> QED
    BY <2>1, <2>3 DEF SessionInv
<1>6. CASE ConnectRefused(s) \/ UndecodableFrame(s) \/ EndOfStream(s) \/ ScannerStops(s)
  <2>1. pc[s] = "idle" /\ UNCHANGED sessVars
    BY <1>6 DEF ConnectRefused, UndecodableFrame, EndOfStream, ScannerStops, MayReceive
  <2>2. \/ Fail(s) \/ \E l \in Labels \ {"none", "done", "ended"} : HandledAtOnce(s, l)
        \/ \E why : Panic(why)
    BY <1>6 DEF ConnectRefused, UndecodableFrame, EndOfStream, ScannerStops, Labels
  <2> QED
    BY <2>1, <2>2, Elsewhither, SessionKept
<1>7. CASE ByeClose(s) \/ Cleanup(s)
  <2>1. /\ conn' = [conn EXCEPT ![s] = "closed"] /\ UNCHANGED <<out, hbVars>>
        /\ \E l \in {"idle", "done"} : pc' = [pc EXCEPT ![s] = l]
    BY <1>7 DEF ByeClose, Cleanup, Return, Continue, Goto, hbVars
  <2>2. PartedOK' /\ UnacceptedOK'
    BY <1>1, <2>1 DEF SessionInv, PartedOK, UnacceptedOK
  <2>3. FarewellIsLast' /\ FloorOK'
    BY <2>1 DEF SessionInv, FarewellIsLast, FloorOK, hbVars
  <2> QED
    BY <2>2, <2>3 DEF SessionInv
<1>8. CASE RemoveJob(s)
  <2>1. /\ pc[s] = "done" /\ pc' = [pc EXCEPT ![s] = "ended"]
        /\ UNCHANGED <<conn, out, hbSend, hbJob, every>>
        /\ jobs' = [jobs EXCEPT ![s] = @ \ {hbJob[s]}]
    BY <1>8 DEF RemoveJob, Continue, Goto
  <2>2. PartedOK' /\ UnacceptedOK' /\ FarewellIsLast'
    BY <1>1, <2>1 DEF SessionInv, PartedOK, UnacceptedOK, FarewellIsLast
  <2>3. \A t \in Sessions : jobs'[t] \subseteq jobs[t]
    BY <1>1, <2>1 DEF SessTypeOK
  <2>4. FloorOK'
    BY <2>1, <2>3 DEF SessionInv, FloorOK
  <2> QED
    BY <2>2, <2>4 DEF SessionInv
<1> QED
  BY <1>2, <1>3, <1>4, <1>5, <1>6, <1>7, <1>8 DEF SessionStep

----------------------------------------------------------------------------
LEMMA SessionInvInit == Init => SessionInv
<1> SUFFICES ASSUME Init PROVE SessionInv
  OBVIOUS
<1>1. \A s \in Sessions : 1 .. Len(out[s]) = {}
  <2> SUFFICES ASSUME NEW s \in Sessions PROVE 1 .. Len(out[s]) = {}
    OBVIOUS
  <2>1. out[s] = <<>>
    BY DEF Init, SessInit
  <2>2. Len(out[s]) = 0
    BY <2>1
  <2> QED
    BY <2>2
<1>2. PartedOK /\ UnacceptedOK /\ FarewellIsLast
  BY <1>1 DEF PartedOK, UnacceptedOK, FarewellIsLast, Init, SessInit
<1>3. FloorOK
  <2> SUFFICES ASSUME NEW s \in Sessions
               PROVE  /\ hbSend[s] = 0 \/ AtFloor(hbSend[s])
                      /\ Len(every[s]) = hbJob[s] /\ hbJob[s] = 0
                      /\ jobs[s] \subseteq 1 .. hbJob[s] /\ 1 .. hbJob[s] = {}
    BY DEF FloorOK
  <2>1. hbSend[s] = BrokerSendMsec /\ every[s] = <<>> /\ hbJob[s] = 0 /\ jobs[s] = {}
    BY DEF Init, SessInit
  <2>2. hbSend[s] = 0 \/ AtFloor(hbSend[s])
    BY <2>1, SessionAssumption DEF AtFloor
  <2>3. Len(every[s]) = 0
    BY <2>1
  <2>4. 1 .. hbJob[s] = {}
    BY <2>1
  <2> QED
    BY <2>1, <2>2, <2>3, <2>4
<1> QED
  BY <1>2, <1>3 DEF SessionInv

LEMMA SessionInvNext ==
    ASSUME TypeInv, SessionInv, [Next]_vars
    PROVE  SessionInv'
<1>1. CASE UNCHANGED vars
  <2>1. UNCHANGED <<pc, conn, out, hbVars>>
    BY <1>1 DEF vars, procVars, sessVars, hbVars
  <2> QED
    BY <2>1 DEF SessionInv, PartedOK, UnacceptedOK, FarewellIsLast, FloorOK, hbVars
<1>2. CASE Next
  <2>1. PICK s \in Sessions :
          \/ ReceiveStep(s)
          \/ SessionStep(s)
          \/ SubscribeStep(s) /\ UNCHANGED sessVars
          \/ TransactionStep(s) /\ UNCHANGED sessVars
          \/ \E t \in Sessions : MapFault(s, t)
    BY <1>2 DEF Next
  <2>2. CASE ReceiveStep(s)
    BY <2>2, ReceiveElsewhere, SessionKept
  <2>3. CASE SessionStep(s)
    BY <2>3, SessionStepKeeps
  <2>4. CASE SubscribeStep(s) /\ UNCHANGED sessVars
    BY <2>4, SubscribeElsewhere, SessionKept
  <2>5. CASE TransactionStep(s) /\ UNCHANGED sessVars
    BY <2>5, TransactionElsewhere, SessionKept
  <2>6. CASE \E t \in Sessions : MapFault(s, t)
    <3>1. Elsewhere(s) /\ UNCHANGED sessVars
      BY <2>6 DEF MapFault, Panic, Elsewhere
    <3> QED
      BY <3>1, SessionKept
  <2> QED
    BY <2>1, <2>2, <2>3, <2>4, <2>5, <2>6
<1> QED
  BY <1>1, <1>2

\* The inductive invariant holds in every reachable state.
LEMMA SessionInvariant == Spec => []SessionInv
<1>1. Init => SessionInv
  BY SessionInvInit
<1>2. TypeInv /\ SessionInv /\ [Next]_vars => SessionInv'
  BY SessionInvNext
<1> QED
  BY <1>1, <1>2, TypeInvariant, PTL DEF Spec

\* However many frames a client has pipelined behind its DISCONNECT or behind a frame
\* that is refused, none is answered after the RECEIPT or the ERROR.
THEOREM FarewellComesLast == Spec => []FarewellIsLast
<1>1. SessionInv => FarewellIsLast
  BY DEF SessionInv
<1> QED
  BY <1>1, SessionInvariant, PTL

\* For all configured intervals and all heart-beat headers, none of a session's jobs is
\* scheduled below the configured interval, however many times negotiateHeartbeats()
\* starts from the result of an earlier negotiation, and the job that cleanup() knows of
\* has the interval that was announced last.
THEOREM JobsNeverFaster == Spec => []JobsKeepFloor
<1>1. TypeInv /\ SessionInv => JobsKeepFloor
  BY FloorImplies DEF SessionInv, TypeInv, TypeOK
<1> QED
  BY <1>1, TypeInvariant, SessionInvariant, PTL

----------------------------------------------------------------------------
\* The end of a session and of the process.

\* The scheduler holds every job that was made for a session, until cleanup() removes
\* the last one, after it has closed the connection.
JobsOK ==
    \A s \in Sessions :
        /\ jobs[s] = 1 .. (IF pc[s] = "ended" THEN hbJob[s] - 1 ELSE hbJob[s])
        /\ pc[s] = "none" => hbJob[s] = 0
        /\ pc[s] \in {"done", "ended"} => conn[s] = "closed"

LEMMA JobsInit == Init => JobsOK
<1> SUFFICES ASSUME Init, NEW s \in Sessions
             PROVE  jobs[s] = 1 .. hbJob[s] /\ pc[s] = "none" /\ hbJob[s] = 0
  BY DEF JobsOK
<1>1. jobs[s] = {} /\ hbJob[s] = 0 /\ pc[s] = "none"
  BY DEF Init, ProcInit, SessInit
<1> QED
  BY <1>1

LEMMA JobsKept ==
    ASSUME JobsOK, NEW s \in Sessions, Elsewhere(s), UNCHANGED <<conn, hbJob, jobs>>
    PROVE  JobsOK'
BY DEF JobsOK, Elsewhere

LEMMA ConnectKeepsJobs ==
    ASSUME TypeInv, JobsOK, NEW s \in Sessions, NEW hb \in HbHeaders \cup {Nil}, Connect(s, hb)
    PROVE  JobsOK'
<1>1. /\ pc \in [Sessions -> Labels] /\ hbJob \in [Sessions -> Nat]
      /\ jobs \in [Sessions -> SUBSET Nat]
  BY DEF TypeInv, TypeOK, ProcTypeOK, SessTypeOK
<1>2. pc[s] = "idle" /\ UNCHANGED conn
  BY DEF Connect, MayReceive
<1>3. /\ pc'[s] \in {"idle", "return"} /\ \A t \in Sessions \ {s} : pc'[t] = pc[t]
  BY <1>1 DEF Connect, HandledAtOnce, Goto
<1>4. CASE UNCHANGED <<hbJob, jobs>>
  BY <1>2, <1>3, <1>4 DEF JobsOK
<1>5. CASE /\ hbJob' = [hbJob EXCEPT ![s] = @ + 1]
           /\ jobs' = [jobs EXCEPT ![s] = @ \cup {hbJob'[s]}]
  <2>1. hbJob'[s] = hbJob[s] + 1 /\ jobs'[s] = jobs[s] \cup {hbJob[s] + 1}
    BY <1>1, <1>5
  <2>2. jobs[s] = 1 .. hbJob[s] /\ hbJob[s] \in Nat
    BY <1>1, <1>2 DEF JobsOK
  <2>3. jobs'[s] = 1 .. hbJob'[s]
    BY <2>1, <2>2
  <2>4. \A t \in Sessions \ {s} : hbJob'[t] = hbJob[t] /\ jobs'[t] = jobs[t]
    BY <1>1, <1>5
  <2> QED
    BY <1>2, <1>3, <2>3, <2>4 DEF JobsOK
<1> QED
  BY <1>4, <1>5 DEF Connect, NegotiateHeartbeats, hbVars

LEMMA RemoveKeepsJobs ==
    ASSUME TypeInv, JobsOK, NEW s \in Sessions, RemoveJob(s)
    PROVE  JobsOK'
<1>1. /\ pc \in [Sessions -> Labels] /\ hbJob \in [Sessions -> Nat]
      /\ jobs \in [Sessions -> SUBSET Nat]
  BY DEF TypeInv, TypeOK, ProcTypeOK, SessTypeOK
<1>2. /\ pc[s] = "done" /\ pc' = [pc EXCEPT ![s] = "ended"] /\ UNCHANGED <<conn, hbJob>>
      /\ jobs' = [jobs EXCEPT ![s] = @ \ {hbJob[s]}]
  BY DEF RemoveJob, Continue, Goto
<1>3. jobs[s] = 1 .. hbJob[s] /\ hbJob[s] \in Nat
  BY <1>1, <1>2 DEF JobsOK
<1>4. jobs'[s] = 1 .. hbJob[s] - 1
  BY <1>1, <1>2, <1>3
<1>5. pc'[s] = "ended" /\ conn[s] = "closed"
  BY <1>1, <1>2 DEF JobsOK
<1>6. \A t \in Sessions \ {s} : pc'[t] = pc[t] /\ jobs'[t] = jobs[t]
  BY <1>1, <1>2
<1> QED
  BY <1>2, <1>4, <1>5, <1>6 DEF JobsOK

LEMMA SessionStepKeepsJobs ==
    ASSUME TypeInv, JobsOK, NEW s \in Sessions, SessionStep(s)
    PROVE  JobsOK'
<1>1. /\ pc \in [Sessions -> Labels]
      /\ conn \in [Sessions -> {"none", "open", "gone", "closed"}]
  BY DEF TypeInv, TypeOK, ProcTypeOK, SessTypeOK
<1>2. CASE Accept(s) \/ PeerLeaves(s)
  <2>1. /\ UNCHANGED <<hbJob, jobs>>
        /\ \/ pc[s] = "none" /\ pc' = [pc EXCEPT ![s] = "idle"]
              /\ conn' = [conn EXCEPT ![s] = "open"]
           \/ /\ pc' = pc /\ conn[s] = "open"
              /\ conn' = [conn EXCEPT ![s] = "gone"]
    BY <1>2 DEF Accept, PeerLeaves, Continue, Goto, hbVars, procVars
  <2> QED
    BY <1>1, <2>1 DEF JobsOK
<1>3. CASE \E hb \in HbHeaders \cup {Nil} : Connect(s, hb)
  BY <1>3, ConnectKeepsJobs
<1>4. CASE \/ ConnectDenied(s) \/ ConnectRefused(s) \/ InvalidFrame(s) \/ UndecodableFrame(s)
           \/ ByeReceipt(s) \/ EndOfStream(s) \/ ScannerStops(s)
  <2>1. UNCHANGED <<conn, hbJob, jobs>> /\ pc[s] \in {"idle", "bye1"}
    BY <1>4 DEF ConnectDenied, ConnectRefused, InvalidFrame, UndecodableFrame, ByeReceipt,
                EndOfStream, ScannerStops, MayReceive, sessVars, hbVars
  <2>2. \/ Fail(s)
        \/ \E l \in Labels \ {"none", "done", "ended"} : Continue(s, l) \/ HandledAtOnce(s, l)
        \/ \E why : Panic(why)
    BY <1>4 DEF ConnectDenied, ConnectRefused, InvalidFrame, UndecodableFrame, ByeReceipt,
                EndOfStream, ScannerStops, Labels
  <2> QED
    BY <2>1, <2>2, Elsewhither, JobsKept
<1>5. CASE ByeClose(s)
  <2>1. /\ UNCHANGED <<hbJob, jobs>> /\ pc[s] = "bye2" /\ pc' = [pc EXCEPT ![s] = "idle"]
        /\ conn' = [conn EXCEPT ![s] = "closed"]
    BY <1>5 DEF ByeClose, Return, Goto, hbVars
  <2> QED
    BY <1>1, <2>1 DEF JobsOK
<1>6. CASE Cleanup(s)
  <2>1. /\ UNCHANGED <<hbJob, jobs>> /\ pc[s] = "return" /\ pc' = [pc EXCEPT ![s] = "done"]
        /\ conn' = [conn EXCEPT ![s] = "closed"]
    BY <1>6 DEF Cleanup, Continue, Goto, hbVars
  <2> QED
    BY <1>1, <2>1 DEF JobsOK
<1>7. CASE RemoveJob(s)
  BY <1>7, RemoveKeepsJobs
<1> QED
  BY <1>2, <1>3, <1>4, <1>5, <1>6, <1>7 DEF SessionStep

LEMMA JobsNext ==
    ASSUME TypeInv, JobsOK, [Next]_vars
    PROVE  JobsOK'
<1>1. CASE UNCHANGED vars
  BY <1>1 DEF vars, procVars, sessVars, JobsOK
<1>2. CASE Next
  <2>1. PICK s \in Sessions :
          \/ ReceiveStep(s)
          \/ SessionStep(s)
          \/ SubscribeStep(s) /\ UNCHANGED sessVars
          \/ TransactionStep(s) /\ UNCHANGED sessVars
          \/ \E t \in Sessions : MapFault(s, t)
    BY <1>2 DEF Next
  <2>2. CASE SessionStep(s)
    BY <2>2, SessionStepKeepsJobs
  <2>3. CASE ~SessionStep(s)
    <3>1. Elsewhere(s) /\ UNCHANGED sessVars
      BY <2>1, <2>3, ReceiveElsewhere, SubscribeElsewhere, TransactionElsewhere
         DEF MapFault, Panic, Elsewhere
    <3> QED
      BY <3>1, JobsKept DEF sessVars
  <2> QED
    BY <2>2, <2>3
<1> QED
  BY <1>1, <1>2

LEMMA JobsInvariant == Spec => []JobsOK
<1>1. Init => JobsOK
  BY JobsInit
<1>2. TypeInv /\ JobsOK /\ [Next]_vars => JobsOK'
  BY JobsNext
<1> QED
  BY <1>1, <1>2, TypeInvariant, PTL DEF Spec

\* The process with its listener and its signals only restricts when sessions start:
\* whatever holds of the broker holds of it too.
THEOREM ServerIsBroker == ServerSpec => Spec
<1>1. ServerInit => Init
  BY DEF ServerInit
<1>2. [ServerNext]_allVars => [Next]_vars
  <2>1. ServerNext => Next \/ UNCHANGED vars
    BY DEF ServerNext, Shutdown, Serving, ServeBegin, AcceptClosed, WaitSessions,
           AcceptError, BrokerStep
  <2>2. UNCHANGED allVars => UNCHANGED vars
    BY DEF allVars
  <2> QED
    BY <2>1, <2>2
<1> QED
  BY <1>1, <1>2, PTL DEF ServerSpec, Spec

\* ListenAndServe of the TCP broker returns when no session runs.
ReturnOK == serve = "returned" /\ transport = "TCP" => \A s \in Sessions : ~Running(s)

LEMMA ServerInvInit == ServerInit => ServerTypeOK /\ ReturnOK
BY ServerAssumption DEF ServerInit, ServerTypeOK, ReturnOK, TransportOf

LEMMA ServerInvNext ==
    ASSUME ServerTypeOK, ReturnOK, [ServerNext]_allVars
    PROVE  ServerTypeOK' /\ ReturnOK'
<1>1. CASE UNCHANGED allVars
  BY <1>1 DEF allVars, serverVars, vars, procVars, ServerTypeOK, ReturnOK, Running
<1>2. CASE ServerNext
  <2>1. \/ Shutdown \/ ServeBegin \/ AcceptClosed \/ AcceptError \/ WaitSessions
        \/ BrokerStep
    BY <1>2 DEF ServerNext, Serving
  <2>2. ServerTypeOK'
    BY <2>1 DEF Shutdown, ServeBegin, AcceptClosed, AcceptError, WaitSessions, BrokerStep,
                serverVars, ServerTypeOK
  <2>3. CASE WaitSessions
    BY <2>2, <2>3 DEF WaitSessions, ReturnOK, Running, vars, procVars
  <2>4. CASE Shutdown \/ ServeBegin \/ AcceptClosed \/ AcceptError \/ BrokerStep
    <3>1. serve # "returned"
      BY <1>2 DEF ServerNext
    <3>2. ~(serve' = "returned" /\ transport' = "TCP")
      BY <2>4, <3>1 DEF Shutdown, ServeBegin, AcceptClosed, AcceptError, BrokerStep, serverVars
    <3> QED
      BY <2>2, <3>2 DEF ReturnOK
  <2> QED
    BY <2>1, <2>2, <2>3, <2>4
<1> QED
  BY <1>1, <1>2

LEMMA ServerInvariant == ServerSpec => [](ServerTypeOK /\ ReturnOK)
BY ServerInvInit, ServerInvNext, PTL DEF ServerSpec

\* The default transport is filled in (startBroker), and the listener and ListenAndServe
\* are always in one of their states.
THEOREM ServerTypeCorrect == ServerSpec => []ServerTypeOK
BY ServerInvariant, PTL

\* When ListenAndServe of the TCP broker returns, after Shutdown or after an error of
\* Accept, every session has closed its connection, and has removed the heartbeat job it
\* knows of or is just about to: what else is left in the scheduler belongs to handshakes
\* that were repeated, for any number of sessions and of handshakes (wgSessions.Wait,
\* and the order of Close(), Done() and RemoveByReference() in cleanup).
THEOREM ReturnsGracefully == ServerSpec => []GracefulReturn
<1>1. TypeInv /\ SessionInv /\ JobsOK /\ ReturnOK => GracefulReturn
  <2>1. SUFFICES ASSUME TypeInv, SessionInv, JobsOK, NEW s \in Sessions, ~Running(s)
                 PROVE  /\ conn[s] \in {"none", "closed"}
                        /\ jobs[s] = 1 .. (IF At(s, "done") THEN hbJob[s] ELSE hbJob[s] - 1)
    BY DEF ReturnOK, GracefulReturn
  <2>2. CASE pc[s] = "none"
    <3>1. conn[s] = "none" /\ hbJob[s] = 0 /\ jobs[s] = 1 .. hbJob[s]
      BY <2>1, <2>2 DEF SessionInv, UnacceptedOK, JobsOK
    <3>2. 1 .. 0 = 1 .. 0 - 1
      OBVIOUS
    <3> QED
      BY <3>1, <3>2
  <2>3. CASE pc[s] \in {"done", "ended"}
    BY <2>1, <2>3 DEF JobsOK
  <2> QED
    BY <2>1, <2>2, <2>3 DEF Running
<1> QED
  BY <1>1, TypeInvariant, SessionInvariant, JobsInvariant, ServerIsBroker, ServerInvariant, PTL
----------------------------------------------------------------------------
\* The locks of the subscriptions.

\* For any number of publishers, subscriptions, failed writes and ACKs: one goroutine at a
\* time is past Lock() for a subscription, and neither the early return of sendIt nor the
\* end of its publish() leaves the lock behind (the deferred Unlock(), subscribe.go:106).
THEOREM OneSenderPerLock == Spec => []LockOfOneSender
<1>1. DeliveryInv => LockOfOneSender
  <2> SUFFICES ASSUME DeliveryInv, NEW s \in Sessions, NEW p \in Addr
               PROVE  /\ gor[s][p] \in {"locked", "written"} => mutex[p] = s
                      /\ mutex[p] = s => At(s, "wait") /\ gor[s][p] \in {"locked", "written"}
    BY DEF LockOfOneSender
  <2>1. gor[s][p] \in {"locked", "written"} <=> mutex[p] = s
    BY DEF DeliveryInv, LockOK
  <2>2. gor[s][p] # "none" => pc[s] = "wait"
    BY DEF DeliveryInv, IdleOK
  <2> QED
    BY <2>1, <2>2
<1> QED
  BY <1>1, DeliveryInvariant, PTL

\* What is proved of the broker holds in the process that listens and shuts down: it only
\* lets sessions begin at fewer moments (the accept loop, tcp.go:36, and ListenAndServe, :57).
THEOREM ServingKeepsPromises ==
    ServerSpec => [](FarewellIsLast /\ JobsKeepFloor /\ DeliveredToItsDest /\ LockOfOneSender)
  BY ServerIsBroker, FarewellComesLast, JobsNeverFaster, DeliveredWhereSent,
     OneSenderPerLock, PTL
=============================================================================
