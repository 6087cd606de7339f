---------------------------- MODULE BrokerProofs ----------------------------
(***************************************************************************)
(* Proofs about the broker for any number of sessions, destinations, IDs,  *)
(* frames and subscriptions, and any width of the acknowledgement number.  *)
(***************************************************************************)
EXTENDS Broker, TLAPS

(***************************************************************************)
(* What the goroutine of a session may rely on at each place: the headers  *)
(* it has checked are not empty, and the pointer it looked up is there.    *)
(***************************************************************************)
NamesSubscription ==
    {"add2", "add3", "add4", "add5", "rm2", "rm3", "rm4", "rm5", "rm6", "rm7",
     "rm8", "ack1", "ack2"}

NamesTransaction == {"beg2", "buf2", "buf3", "com2", "abt2"}

ArgsOK ==
    \A s \in Sessions :
        /\ pc[s] \in NamesSubscription => arg[s].dest \in Dests /\ arg[s].id \in SubsIDs
        /\ pc[s] \in NamesTransaction => arg[s].tx \in TxIDs
        /\ pc[s] \in {"rm4", "ack3"} => ptr[s] # Nil

TypeInv == TypeOK /\ ArgsOK

USE DEF At

----------------------------------------------------------------------------
\* Frames.

LEMMA BlankType ==
    ASSUME NEW s \in Sessions, NEW n \in Nat
    PROVE  Blank(s, n) \in Frame
BY DEF Blank, Frame, Cmds, AckModes

LEMMA FrameFields ==
    ASSUME NEW f \in Frame
    PROVE  /\ f.no \in Nat /\ f.dest \in Dests \cup {Empty}
           /\ f.id \in SubsIDs \cup {Empty} /\ f.tx \in TxIDs \cup {Empty}
           /\ f.mode \in AckModes /\ f.ack \in Nat
BY DEF Frame

LEMMA FrameDest ==
    ASSUME NEW f \in Frame, NEW d \in Dests
    PROVE  /\ [f EXCEPT !.dest = d] \in Frame
           /\ [f EXCEPT !.dest = d].dest = d
           /\ [f EXCEPT !.dest = d].id = f.id
BY DEF Frame

LEMMA FrameUpdates ==
    ASSUME NEW f \in Frame
    PROVE  /\ \A i \in SubsIDs \cup {Empty} : [f EXCEPT !.id = i] \in Frame
           /\ \A t \in TxIDs \cup {Empty} : [f EXCEPT !.tx = t] \in Frame
           /\ \A d \in Dests \cup {Empty}, t \in TxIDs \cup {Empty} :
                 [f EXCEPT !.dest = d, !.tx = t] \in Frame
           /\ \A d \in Dests \cup {Empty}, i \in SubsIDs \cup {Empty}, m \in AckModes :
                 [f EXCEPT !.dest = d, !.id = i, !.mode = m] \in Frame
BY DEF Frame

----------------------------------------------------------------------------
\* Control: how the operators of Process move a goroutine.

\* The conjuncts of ArgsOK about one session.
ArgsOf(s) ==
    /\ pc[s] \in NamesSubscription => arg[s].dest \in Dests /\ arg[s].id \in SubsIDs
    /\ pc[s] \in NamesTransaction => arg[s].tx \in TxIDs
    /\ pc[s] \in {"rm4", "ack3"} => ptr[s] # Nil

LEMMA GotoType ==
    ASSUME ProcTypeOK, NEW s \in Sessions, NEW l \in Labels, Goto(s, l),
           NEW f \in Frame, NEW m \in Frame,
           arg' = [arg EXCEPT ![s] = f], msg' = [msg EXCEPT ![s] = m],
           UNCHANGED status
    PROVE  /\ ProcTypeOK'
           /\ pc'[s] = l /\ arg'[s] = f
           /\ \A t \in Sessions \ {s} : pc'[t] = pc[t] /\ arg'[t] = arg[t]
BY DEF ProcTypeOK, Goto

LEMMA ContinueType ==
    ASSUME ProcTypeOK, NEW s \in Sessions, NEW l \in Labels, Continue(s, l)
    PROVE  /\ ProcTypeOK'
           /\ pc'[s] = l /\ arg' = arg
           /\ \A t \in Sessions \ {s} : pc'[t] = pc[t]
BY DEF ProcTypeOK, Continue, Goto

LEMMA ReturnType ==
    ASSUME ProcTypeOK, NEW s \in Sessions, Return(s) \/ Fail(s)
    PROVE  /\ ProcTypeOK'
           /\ pc'[s] \in {"idle", "return"}
           /\ \A t \in Sessions \ {s} : pc'[t] = pc[t] /\ arg'[t] = arg[t]
<1>1. arg[s].no \in Nat
  BY FrameFields DEF ProcTypeOK
<1>2. Blank(s, arg[s].no) \in Frame /\ Blank(s, 0) \in Frame
  BY <1>1, BlankType
<1> QED
  BY <1>2 DEF ProcTypeOK, Return, Fail, Goto, Labels

LEMMA HandledType ==
    ASSUME ProcTypeOK, NEW s \in Sessions, NEW l \in {"idle", "return"},
           HandledAtOnce(s, l)
    PROVE  /\ ProcTypeOK'
           /\ pc'[s] \in {"idle", "return"}
           /\ \A t \in Sessions \ {s} : pc'[t] = pc[t] /\ arg'[t] = arg[t]
<1>1. arg[s].no + 1 \in Nat
  BY FrameFields DEF ProcTypeOK
<1>2. Blank(s, arg[s].no + 1) \in Frame
  BY <1>1, BlankType
<1> QED
  BY <1>2 DEF ProcTypeOK, HandledAtOnce, Goto, Labels

LEMMA PanicType ==
    ASSUME ProcTypeOK, NEW why \in Deaths, Panic(why)
    PROVE  ProcTypeOK' /\ pc' = pc /\ arg' = arg
BY DEF ProcTypeOK, Panic

\* A step that leaves a session somewhere ArgsOK asks nothing, and other sessions
\* alone, keeps ArgsOK.
LEMMA ArgsKept ==
    ASSUME ArgsOK, NEW s \in Sessions,
           \A t \in Sessions \ {s} : pc'[t] = pc[t] /\ arg'[t] = arg[t] /\ ptr'[t] = ptr[t],
           ArgsOf(s)'
    PROVE  ArgsOK'
BY DEF ArgsOK, ArgsOf

----------------------------------------------------------------------------
\* Type correctness, component by component.

LEMMA SessUnchanged ==
    ASSUME SessTypeOK, UNCHANGED sessVars PROVE SessTypeOK'
BY DEF SessTypeOK, sessVars

LEMMA SubUnchanged ==
    ASSUME SubTypeOK, UNCHANGED subVars PROVE SubTypeOK' /\ ptr' = ptr
BY DEF SubTypeOK, subVars, mapVars, heapVars, localVars, pubVars

LEMMA TxUnchanged ==
    ASSUME TxTypeOK, UNCHANGED txVars PROVE TxTypeOK'
BY DEF TxTypeOK, txVars

LEMMA ClientUnchanged ==
    ASSUME TypeOK, UNCHANGED clientVars, ProcTypeOK', SessTypeOK', SubTypeOK', TxTypeOK'
    PROVE  TypeOK'
BY DEF TypeOK, clientVars

\* The control frames a session writes.
LEMMA OutType ==
    ASSUME SessTypeOK, NEW s \in Sessions, NEW f \in {"CONNECTED", "RECEIPT", "ERROR"},
           out' = [out EXCEPT ![s] = Append(@, f)] \/ UNCHANGED out
    PROVE  out' \in [Sessions -> Seq({"CONNECTED", "RECEIPT", "ERROR"})]
<1>1. out \in [Sessions -> Seq({"CONNECTED", "RECEIPT", "ERROR"})]
  BY DEF SessTypeOK
<1>2. Append(out[s], f) \in Seq({"CONNECTED", "RECEIPT", "ERROR"})
  BY <1>1
<1> QED
  BY <1>1, <1>2

LEMMA SessionStepType ==
    ASSUME TypeInv, NEW s \in Sessions, SessionStep(s),
           UNCHANGED <<subVars, txVars, clientVars>>
    PROVE  TypeInv'
<1>1. ProcTypeOK /\ SessTypeOK /\ SubTypeOK /\ TxTypeOK /\ ArgsOK
  BY DEF TypeInv, TypeOK
<1>2. SubTypeOK' /\ TxTypeOK' /\ ptr' = ptr
  BY <1>1, SubUnchanged, TxUnchanged
<1>3. SUFFICES /\ ProcTypeOK' /\ SessTypeOK' /\ ArgsOf(s)'
               /\ \A t \in Sessions \ {s} : pc'[t] = pc[t] /\ arg'[t] = arg[t]
  BY <1>1, <1>2, ArgsKept, ClientUnchanged DEF TypeInv
<1> USE DEF ArgsOf, NamesSubscription, NamesTransaction
<1>4. CASE Accept(s)
  <2>1. "idle" \in Labels /\ Continue(s, "idle")
    BY <1>4 DEF Accept, Labels
  <2>2. SessTypeOK'
    BY <1>1, <1>4 DEF Accept, SessTypeOK, hbVars
  <2> QED
    BY <1>1, <2>1, <2>2, ContinueType
<1>5. CASE PeerLeaves(s)
  <2>1. ProcTypeOK' /\ pc' = pc /\ arg' = arg
    BY <1>1, <1>5 DEF PeerLeaves, ProcTypeOK, procVars
  <2>2. SessTypeOK'
    BY <1>1, <1>5 DEF PeerLeaves, SessTypeOK, hbVars
  <2> QED
    BY <1>1, <1>2, <2>1, <2>2 DEF ArgsOK
<1>6. ASSUME NEW hb \in HbHeaders \cup {Nil}, Connect(s, hb)
      PROVE  /\ ProcTypeOK' /\ SessTypeOK' /\ ArgsOf(s)'
             /\ \A t \in Sessions \ {s} : pc'[t] = pc[t] /\ arg'[t] = arg[t]
  <2>1. HandledAtOnce(s, "idle") \/ HandledAtOnce(s, "return")
    BY <1>6 DEF Connect
  <2>2. out' \in [Sessions -> Seq({"CONNECTED", "RECEIPT", "ERROR"})]
    BY <1>1, <1>6, OutType DEF Connect
  <2>3. \A a, b \in Nat : Negotiate(a, b) \in Nat
    BY DEF Negotiate
  <2>4. hb # Nil => hb[1] \in Nat /\ hb[2] \in Nat
    BY SessionAssumption
  <2>5. /\ hbSend' \in [Sessions -> Nat] /\ hbRecv' \in [Sessions -> Nat]
        /\ hbJob' \in [Sessions -> Nat] /\ jobs' \in [Sessions -> SUBSET Nat]
        /\ every' \in [Sessions -> Seq(Nat)]
    <3>1. CASE hb = Nil
      BY <3>1, <1>1, <1>6 DEF Connect, NegotiateHeartbeats, hbVars, SessTypeOK
    <3>2. CASE hb # Nil
      <4>1. /\ hbRecv' = [hbRecv EXCEPT ![s] = Negotiate(hbRecv[s], hb[1])]
            /\ hbSend' = [hbSend EXCEPT ![s] = Negotiate(hbSend[s], hb[2])]
            /\ \/ UNCHANGED <<hbJob, jobs, every>>
               \/ /\ hbJob' = [hbJob EXCEPT ![s] = hbJob[s] + 1]
                  /\ jobs' = [jobs EXCEPT ![s] = jobs[s] \cup {hbJob'[s]}]
                  /\ every' = [every EXCEPT ![s] = Append(every[s], hbSend'[s])]
        BY <3>2, <1>6 DEF Connect, NegotiateHeartbeats
      <4>2. /\ hbSend \in [Sessions -> Nat] /\ hbRecv \in [Sessions -> Nat]
            /\ hbJob \in [Sessions -> Nat] /\ jobs \in [Sessions -> SUBSET Nat]
            /\ every \in [Sessions -> Seq(Nat)]
        BY <1>1 DEF SessTypeOK
      <4>3. Negotiate(hbRecv[s], hb[1]) \in Nat /\ Negotiate(hbSend[s], hb[2]) \in Nat
        BY <2>3, <2>4, <3>2, <4>2
      <4>4. hbSend'[s] \in Nat /\ Append(every[s], hbSend'[s]) \in Seq(Nat)
        BY <4>1, <4>2, <4>3
      <4>5. every' \in [Sessions -> Seq(Nat)]
        BY <4>1, <4>2, <4>4
      <4>6. hbSend' \in [Sessions -> Nat] /\ hbRecv' \in [Sessions -> Nat]
        BY <4>1, <4>2, <4>3
      <4>7. hbJob' \in [Sessions -> Nat] /\ jobs' \in [Sessions -> SUBSET Nat]
        <5>1. \/ UNCHANGED <<hbJob, jobs>>
              \/ /\ hbJob' = [hbJob EXCEPT ![s] = hbJob[s] + 1]
                 /\ jobs' = [jobs EXCEPT ![s] = jobs[s] \cup {hbJob'[s]}]
          BY <4>1
        <5>2. /\ hbJob \in [Sessions -> Nat] /\ jobs \in [Sessions -> SUBSET Nat]
              /\ hbJob[s] + 1 \in Nat
          BY <4>2
        <5>3. hbJob' \in [Sessions -> Nat]
          BY <5>1, <5>2
        <5>4. jobs[s] \cup {hbJob'[s]} \in SUBSET Nat
          BY <5>2, <5>3
        <5> QED
          BY <5>1, <5>2, <5>3, <5>4
      <4> QED
        BY <4>5, <4>6, <4>7
    <3> QED
      BY <3>1, <3>2
  <2>6. SessTypeOK'
    BY <1>1, <1>6, <2>2, <2>5 DEF Connect, SessTypeOK
  <2> QED
    BY <1>1, <2>1, <2>6, HandledType
<1>7. CASE ConnectDenied(s) \/ InvalidFrame(s)
  <2>1. HandledAtOnce(s, "return")
    BY <1>7 DEF ConnectDenied, InvalidFrame
  <2>2. out' \in [Sessions -> Seq({"CONNECTED", "RECEIPT", "ERROR"})]
    BY <1>1, <1>7, OutType DEF ConnectDenied, InvalidFrame, SendIgnoringError
  <2>3. SessTypeOK'
    BY <1>1, <1>7, <2>2 DEF ConnectDenied, InvalidFrame, SessTypeOK, hbVars
  <2> QED
    BY <1>1, <2>1, <2>3, HandledType
<1>8. CASE ConnectRefused(s) \/ ScannerStops(s)
  <2>1. HandledAtOnce(s, "return") /\ UNCHANGED sessVars
    BY <1>8 DEF ConnectRefused, ScannerStops
  <2> QED
    BY <1>1, <2>1, HandledType, SessUnchanged
<1>9. CASE UndecodableFrame(s)
  <2>1. "nil frame" \in Deaths /\ Panic("nil frame") /\ UNCHANGED sessVars
    BY <1>9 DEF UndecodableFrame, Deaths
  <2> QED
    BY <1>1, <1>2, <2>1, PanicType, SessUnchanged DEF ArgsOK
<1>10. CASE ByeReceipt(s)
  <2>1. "bye2" \in Labels /\ Continue(s, "bye2")
    BY <1>10 DEF ByeReceipt, Labels
  <2>2. out' \in [Sessions -> Seq({"CONNECTED", "RECEIPT", "ERROR"})]
    BY <1>1, <1>10, OutType DEF ByeReceipt, SendIgnoringError
  <2>3. SessTypeOK'
    BY <1>1, <1>10, <2>2 DEF ByeReceipt, SessTypeOK, hbVars
  <2> QED
    BY <1>1, <2>1, <2>3, ContinueType
<1>11. CASE ByeClose(s)
  <2>1. Return(s)
    BY <1>11 DEF ByeClose
  <2>2. SessTypeOK'
    BY <1>1, <1>11 DEF ByeClose, SessTypeOK, hbVars
  <2> QED
    BY <1>1, <2>1, <2>2, ReturnType
<1>12. CASE EndOfStream(s)
  <2>1. Fail(s) /\ UNCHANGED sessVars
    BY <1>12 DEF EndOfStream
  <2> QED
    BY <1>1, <2>1, ReturnType, SessUnchanged
<1>13. CASE Cleanup(s)
  <2>1. "done" \in Labels /\ Continue(s, "done")
    BY <1>13 DEF Cleanup, Labels
  <2>2. SessTypeOK'
    BY <1>1, <1>13 DEF Cleanup, SessTypeOK, hbVars
  <2> QED
    BY <1>1, <2>1, <2>2, ContinueType
<1>14. CASE RemoveJob(s)
  <2>1. "ended" \in Labels /\ Continue(s, "ended")
    BY <1>14 DEF RemoveJob, Labels
  <2>2. SessTypeOK'
    BY <1>1, <1>14 DEF RemoveJob, SessTypeOK
  <2> QED
    BY <1>1, <2>1, <2>2, ContinueType
<1> QED
  BY <1>4, <1>5, <1>6, <1>7, <1>8, <1>9, <1>10, <1>11, <1>12, <1>13, <1>14
     DEF SessionStep

\* What the store of a frame does to the slices: the one of the call is given up, and
\* of another call for the same transaction one frame may be overwritten.
LEMMA BufferTxStoreSlices ==
    ASSUME TxTypeOK, NEW s \in Sessions, arg[s] \in Frame, BufferTxStore(s)
    PROVE  /\ slice' \in [Sessions -> Seq(Frame)]
           /\ slice'[s] = <<>>
           /\ \A u \in Sessions \ {s} :
                 \/ slice'[u] = slice[u]
                 \/ /\ arg[u].tx = arg[s].tx
                    /\ \E k \in 1 .. Len(slice[u]) :
                          slice'[u] = [slice[u] EXCEPT ![k] = arg[s]]
<1>1. PICK q \in [Sessions -> UNION {SlicesAfter(s, u) : u \in Sessions}] :
         /\ \A u \in Sessions : q[u] \in SlicesAfter(s, u)
         /\ slice' = [q EXCEPT ![s] = <<>>]
  BY DEF BufferTxStore
<1>2. slice \in [Sessions -> Seq(Frame)]
  BY DEF TxTypeOK
<1>3. \A f \in Seq(Frame) : \A k \in 1 .. Len(f) : [f EXCEPT ![k] = arg[s]] \in Seq(Frame)
  OBVIOUS
<1>4. ASSUME NEW u \in Sessions
      PROVE  /\ q[u] \in Seq(Frame)
             /\ \/ q[u] = slice[u]
                \/ /\ arg[u].tx = arg[s].tx
                   /\ \E k \in 1 .. Len(slice[u]) : q[u] = [slice[u] EXCEPT ![k] = arg[s]]
  <2>1. \/ q[u] = slice[u]
        \/ /\ arg[u].tx = arg[s].tx
           /\ \E k \in 1 .. Len(slice[u]) : q[u] = [slice[u] EXCEPT ![k] = arg[s]]
    BY <1>1 DEF SlicesAfter
  <2> QED
    BY <1>2, <1>3, <2>1
<1>5. DOMAIN q = Sessions /\ q \in [Sessions -> Seq(Frame)]
  BY <1>1, <1>4
<1>6. <<>> \in Seq(Frame)
  OBVIOUS
<1> QED
  BY <1>1, <1>4, <1>5, <1>6

LEMMA TransactionStepType ==
    ASSUME TypeInv, NEW s \in Sessions, TransactionStep(s),
           UNCHANGED <<sessVars, subVars, clientVars>>
    PROVE  TypeInv'
<1>1. ProcTypeOK /\ SessTypeOK /\ SubTypeOK /\ TxTypeOK /\ ArgsOK
  BY DEF TypeInv, TypeOK
<1>2. SubTypeOK' /\ SessTypeOK' /\ ptr' = ptr
  BY <1>1, SubUnchanged, SessUnchanged
<1>3. SUFFICES /\ ProcTypeOK' /\ TxTypeOK' /\ ArgsOf(s)'
               /\ \A t \in Sessions \ {s} : pc'[t] = pc[t] /\ arg'[t] = arg[t]
  BY <1>1, <1>2, ArgsKept, ClientUnchanged DEF TypeInv
<1>4. arg[s] \in Frame /\ arg[s].tx \in TxIDs \cup {Empty}
  BY <1>1, FrameFields DEF ProcTypeOK
<1> USE DEF ArgsOf, NamesSubscription, NamesTransaction
<1>5. CASE StartTxCheck(s) \/ BufferTxCheck(s) \/ ForeachTxCheck(s) \/ DropTxCheck(s)
  <2>1. TxTypeOK'
    BY <1>1, <1>5, TxUnchanged DEF StartTxCheck, BufferTxCheck, ForeachTxCheck, DropTxCheck
  <2>2. CASE Fail(s)
    BY <1>1, <2>1, <2>2, ReturnType
  <2>3. CASE ~Fail(s)
    <3>1. /\ arg[s].tx \in TxIDs
          /\ \E l \in {"beg2", "buf2", "com2", "abt2"} : Continue(s, l)
      BY <1>4, <1>5, <2>3
         DEF StartTxCheck, BufferTxCheck, ForeachTxCheck, DropTxCheck, Absent
    <3>2. PICK l \in {"beg2", "buf2", "com2", "abt2"} : Continue(s, l)
      BY <3>1
    <3>3. l \in Labels
      BY DEF Labels
    <3> QED
      BY <1>1, <2>1, <3>1, <3>2, <3>3, ContinueType
  <2> QED
    BY <2>2, <2>3
<1>6. CASE StartTxStore(s) \/ DropTxDelete(s)
  <2>1. Return(s)
    BY <1>6 DEF StartTxStore, DropTxDelete
  <2>2. TxTypeOK'
    <3>1. <<>> \in Seq(Frame)
      OBVIOUS
    <3>2. \E v \in Seq(Frame) \cup {Nil} : txBuffer' = [txBuffer EXCEPT ![arg[s].tx] = v]
      BY <1>6, <3>1 DEF StartTxStore, DropTxDelete
    <3>3. slice' = slice
      BY <1>6 DEF StartTxStore, DropTxDelete
    <3> QED
      BY <1>1, <3>2, <3>3 DEF TxTypeOK
  <2> QED
    BY <1>1, <2>1, <2>2, ReturnType
<1>7. CASE BufferTxRead(s)
  <2>1. "buf3" \in Labels /\ Continue(s, "buf3") /\ arg[s].tx \in TxIDs
    BY <1>1, <1>7 DEF BufferTxRead, Labels, ArgsOK
  <2>2. Frames(arg[s].tx) \in Seq(Frame)
    BY <1>1, <2>1 DEF Frames, TxTypeOK
  <2>3. TxTypeOK'
    BY <1>1, <1>7, <2>2 DEF BufferTxRead, TxTypeOK
  <2> QED
    BY <1>1, <2>1, <2>3, ContinueType
<1>8. CASE BufferTxStore(s)
  <2>1. Return(s)
    BY <1>8 DEF BufferTxStore
  <2>2. Append(slice[s], arg[s]) \in Seq(Frame)
    BY <1>1, <1>4 DEF TxTypeOK
  <2>3. TxTypeOK'
    <3>1. slice' \in [Sessions -> Seq(Frame)]
      BY <1>1, <1>4, <1>8, BufferTxStoreSlices
    <3>2. txBuffer' = [txBuffer EXCEPT ![arg[s].tx] = Append(slice[s], arg[s])]
      BY <1>8 DEF BufferTxStore
    <3> QED
      BY <1>1, <2>2, <3>1, <3>2 DEF TxTypeOK
  <2> QED
    BY <1>1, <2>1, <2>3, ReturnType
<1>9. CASE ForeachTxRead(s)
  <2>1. "foreach" \in Labels /\ Continue(s, "foreach") /\ arg[s].tx \in TxIDs
    BY <1>1, <1>9 DEF ForeachTxRead, Labels, ArgsOK
  <2>2. Frames(arg[s].tx) \in Seq(Frame)
    BY <1>1, <2>1 DEF Frames, TxTypeOK
  <2>3. TxTypeOK'
    BY <1>1, <1>9, <2>2 DEF ForeachTxRead, TxTypeOK
  <2> QED
    BY <1>1, <2>1, <2>3, ContinueType
<1>10. CASE ForeachTxNext(s)
  <2>1. slice[s] \in Seq(Frame) /\ slice[s] # <<>>
    BY <1>1, <1>10 DEF ForeachTxNext, TxTypeOK
  <2>2. Head(slice[s]) \in Frame /\ Tail(slice[s]) \in Seq(Frame)
    BY <2>1
  <2>3. /\ msg' \in [Sessions -> Frame] /\ "pub" \in Labels
        /\ Goto(s, "pub") /\ UNCHANGED <<status, arg>>
    BY <1>1, <1>10, <2>2 DEF ForeachTxNext, ProcTypeOK, Labels
  <2>4. ProcTypeOK'
    BY <1>1, <2>3 DEF ProcTypeOK, Goto
  <2>5. TxTypeOK'
    BY <1>1, <1>10, <2>2 DEF ForeachTxNext, TxTypeOK
  <2> QED
    BY <1>1, <2>3, <2>4, <2>5 DEF Goto, ProcTypeOK
<1>11. CASE ForeachTxLast(s)
  <2>1. Return(s) /\ UNCHANGED txVars
    BY <1>11 DEF ForeachTxLast
  <2> QED
    BY <1>1, <2>1, ReturnType, TxUnchanged
<1> QED
  BY <1>5, <1>6, <1>7, <1>8, <1>9, <1>10, <1>11 DEF TransactionStep

----------------------------------------------------------------------------
\* The registry of subscriptions.

LEMMA LookupType ==
    ASSUME SubTypeOK, NEW d \in Dests, NEW i \in SubsIDs
    PROVE  Lookup(d, i) \in (1 .. nInfo) \cup {Nil}
BY DEF SubTypeOK, Lookup

\* The maps and the sessions' places in their handlers are all that changes.
MapsType ==
    /\ destToSubsMap' \in [Dests -> [SubsIDs -> (1 .. nInfo) \cup {Nil}] \cup {Nil}]
    /\ sessToSubsMap' \in [Sessions -> (SUBSET SubsIDs) \cup {Nil}]
    /\ subsToDestMap' \in [SubsIDs -> Dests \cup {Nil}]

LEMMA MapStepType ==
    ASSUME SubTypeOK, MapsType, UNCHANGED <<heapVars, pubVars>>,
           ptr' \in [Sessions -> (1 .. nInfo) \cup {Nil}],
           rmIDs' \in [Sessions -> SUBSET SubsIDs]
    PROVE  SubTypeOK'
BY DEF SubTypeOK, MapsType, heapVars, pubVars

LEMMA MapsUnchanged ==
    ASSUME SubTypeOK
    PROVE  /\ UNCHANGED destToSubsMap =>
                destToSubsMap' \in [Dests -> [SubsIDs -> (1 .. nInfo) \cup {Nil}] \cup {Nil}]
           /\ UNCHANGED sessToSubsMap =>
                sessToSubsMap' \in [Sessions -> (SUBSET SubsIDs) \cup {Nil}]
           /\ UNCHANGED subsToDestMap => subsToDestMap' \in [SubsIDs -> Dests \cup {Nil}]
           /\ UNCHANGED ptr => ptr' \in [Sessions -> (1 .. nInfo) \cup {Nil}]
           /\ UNCHANGED rmIDs => rmIDs' \in [Sessions -> SUBSET SubsIDs]
BY DEF SubTypeOK

\* Where a goroutine may go on from inside addSubscription, removeSubscription,
\* cleanupSubscriptions and processAck, with its checked headers.
LEMMA ContinueArgs ==
    ASSUME ProcTypeOK, ArgsOK, NEW s \in Sessions, NEW l \in Labels, Continue(s, l),
           l \in NamesSubscription => arg[s].dest \in Dests /\ arg[s].id \in SubsIDs,
           l \in NamesTransaction => arg[s].tx \in TxIDs,
           l \in {"rm4", "ack3"} => ptr'[s] # Nil,
           \A t \in Sessions \ {s} : ptr'[t] = ptr[t]
    PROVE  ProcTypeOK' /\ ArgsOK'
<1>1. /\ ProcTypeOK' /\ pc'[s] = l /\ arg' = arg
      /\ \A t \in Sessions \ {s} : pc'[t] = pc[t]
  BY ContinueType
<1>2. ArgsOf(s)'
  BY <1>1 DEF ArgsOf
<1> QED
  BY <1>1, <1>2, ArgsKept

LEMMA LeaveArgs ==
    ASSUME ProcTypeOK, ArgsOK, NEW s \in Sessions, Return(s) \/ Fail(s),
           \A t \in Sessions \ {s} : ptr'[t] = ptr[t]
    PROVE  ProcTypeOK' /\ ArgsOK'
<1>1. /\ ProcTypeOK' /\ pc'[s] \in {"idle", "return"}
      /\ \A t \in Sessions \ {s} : pc'[t] = pc[t] /\ arg'[t] = arg[t]
  BY ReturnType
<1>2. ArgsOf(s)'
  BY <1>1 DEF ArgsOf, NamesSubscription, NamesTransaction
<1> QED
  BY <1>1, <1>2, ArgsKept

LEMMA PanicArgs ==
    ASSUME ProcTypeOK, ArgsOK, NEW why \in Deaths, Panic(why),
           \A t \in Sessions : ptr'[t] = ptr[t]
    PROVE  ProcTypeOK' /\ ArgsOK'
BY PanicType DEF ArgsOK

LEMMA AddStepType ==
    ASSUME ProcTypeOK, SubTypeOK, ArgsOK, NEW s \in Sessions,
           \/ AddCheck(s) \/ AddReset(s) \/ AddInsert(s)
           \/ AddIndexDest(s) \/ AddIndexSession(s)
    PROVE  ProcTypeOK' /\ SubTypeOK' /\ ArgsOK'
<1>1. /\ arg[s].dest \in Dests \cup {Empty} /\ arg[s].id \in SubsIDs \cup {Empty}
      /\ arg[s].mode \in AckModes
  BY FrameFields DEF ProcTypeOK
<1>2. CASE AddCheck(s)
  <2>1. SubTypeOK' /\ ptr' = ptr
    BY <1>2, SubUnchanged DEF AddCheck
  <2>2. CASE arg[s].id = Empty \/ arg[s].dest = Empty
    BY <1>2, <2>1, <2>2, LeaveArgs DEF AddCheck
  <2>3. CASE ~(arg[s].id = Empty \/ arg[s].dest = Empty)
    <3>1. PICK l \in {"add2", "add3"} : Continue(s, l)
      BY <1>2, <2>3 DEF AddCheck
    <3> QED
      BY <1>1, <2>1, <2>3, <3>1, ContinueArgs DEF Labels, NamesTransaction
  <2> QED
    BY <2>2, <2>3
<1>3. CASE AddReset(s)
  <2>1. arg[s].dest \in Dests /\ arg[s].id \in SubsIDs
    BY <1>3 DEF AddReset, ArgsOK, NamesSubscription
  <2>2. NoSubs \in [SubsIDs -> (1 .. nInfo) \cup {Nil}]
    BY DEF NoSubs
  <2>3. MapsType
    BY <1>3, <2>1, <2>2, MapsUnchanged DEF AddReset, MapsType, SubTypeOK
  <2>4. SubTypeOK' /\ ptr' = ptr
    BY <1>3, <2>3, MapStepType, MapsUnchanged DEF AddReset, localVars
  <2> QED
    BY <1>3, <2>1, <2>4, ContinueArgs DEF AddReset, Labels, NamesTransaction
<1>4. CASE AddInsert(s)
  <2>1. arg[s].dest \in Dests /\ arg[s].id \in SubsIDs
    BY <1>4 DEF AddInsert, ArgsOK, NamesSubscription
  <2>2. CASE destToSubsMap[arg[s].dest] = Nil
    <3>1. Panic("nil map") /\ UNCHANGED subVars
      BY <1>4, <2>2 DEF AddInsert, subVars, mapVars, heapVars, localVars
    <3> QED
      BY <3>1, PanicArgs, SubUnchanged DEF Deaths
  <2>3. CASE destToSubsMap[arg[s].dest] # Nil
    <3> DEFINE p == nInfo + 1
               r == [sess |-> s, dest |-> arg[s].dest, id |-> arg[s].id,
                     asked |-> arg[s].mode, ackMode |-> AckModeOf(arg[s].mode)]
    <3>1. /\ nInfo < MaxSubs /\ nInfo' = p
          /\ info' = [info EXCEPT ![p] = r]
          /\ nextAckNum' = [nextAckNum EXCEPT ![p] = 0]
          /\ pendingAckBitmap' = [pendingAckBitmap EXCEPT ![p] = {}]
          /\ destToSubsMap' = [destToSubsMap EXCEPT ![arg[s].dest] =
                 [destToSubsMap[arg[s].dest] EXCEPT ![arg[s].id] = p]]
          /\ Continue(s, "add4")
      BY <1>4, <2>3 DEF AddInsert
    <3>2. UNCHANGED <<sessToSubsMap, subsToDestMap, localVars, pubVars, mutex>>
      BY <1>4 DEF AddInsert
    <3>3. r \in Info
      BY <1>1, <2>1 DEF Info, AckModeOf, AckModes
    <3>4. nInfo \in Nat /\ MaxSubs \in Nat /\ AckMod \in Nat \ {0} /\ p \in Addr
      BY <3>1, SubscribeAssumption DEF SubTypeOK, Addr
    <3>5. /\ nInfo' \in 0 .. MaxSubs /\ p \in 1 .. nInfo'
          /\ \A q \in 1 .. nInfo' : q \in 1 .. nInfo \/ q = p
          /\ \A q \in 1 .. nInfo : q \in 1 .. nInfo'
      BY <3>1, <3>4 DEF Addr
    <3>6. destToSubsMap' \in [Dests -> [SubsIDs -> (1 .. nInfo') \cup {Nil}] \cup {Nil}]
      <4>1. \A d \in Dests : destToSubsMap[d] # Nil =>
               destToSubsMap[d] \in [SubsIDs -> (1 .. nInfo') \cup {Nil}]
        BY <3>5 DEF SubTypeOK
      <4>2. [destToSubsMap[arg[s].dest] EXCEPT ![arg[s].id] = p]
               \in [SubsIDs -> (1 .. nInfo') \cup {Nil}]
        BY <2>1, <2>3, <3>5, <4>1
      <4>3. destToSubsMap \in [Dests -> [SubsIDs -> (1 .. nInfo') \cup {Nil}] \cup {Nil}]
        BY <4>1 DEF SubTypeOK
      <4> QED
        BY <3>1, <4>2, <4>3
    <3>7. /\ info' \in [Addr -> Info \cup {Nil}]
          /\ \A q \in 1 .. nInfo' : info'[q] \in Info
      <4>1. info \in [Addr -> Info \cup {Nil}] /\ \A q \in 1 .. nInfo : info[q] \in Info
        BY DEF SubTypeOK
      <4>2. \A q \in 1 .. nInfo : q \in Addr /\ q # p
        BY <3>1, <3>4 DEF Addr
      <4> QED
        BY <3>1, <3>3, <3>4, <3>5, <4>1, <4>2
    <3>8. /\ nextAckNum' \in [Addr -> 0 .. AckMod - 1]
          /\ pendingAckBitmap' \in [Addr -> SUBSET (0 .. AckMod - 1)]
      BY <3>1, <3>4 DEF SubTypeOK
    <3>9. ptr' \in [Sessions -> (1 .. nInfo') \cup {Nil}]
      BY <3>2, <3>5 DEF SubTypeOK, localVars
    <3>10. SubTypeOK'
      BY <3>2, <3>5, <3>6, <3>7, <3>8, <3>9 DEF SubTypeOK, localVars, pubVars
    <3> QED
      BY <2>1, <3>1, <3>2, <3>10, ContinueArgs DEF Labels, NamesTransaction, localVars
  <2> QED
    BY <2>2, <2>3
<1>5. CASE AddIndexDest(s)
  <2>1. arg[s].dest \in Dests /\ arg[s].id \in SubsIDs
    BY <1>5 DEF AddIndexDest, ArgsOK, NamesSubscription
  <2>2. MapsType
    BY <1>5, <2>1, MapsUnchanged DEF AddIndexDest, MapsType, SubTypeOK
  <2>3. SubTypeOK' /\ ptr' = ptr
    BY <1>5, <2>2, MapStepType, MapsUnchanged DEF AddIndexDest, localVars
  <2> QED
    BY <1>5, <2>1, <2>3, ContinueArgs DEF AddIndexDest, Labels, NamesTransaction
<1>6. CASE AddIndexSession(s)
  <2>1. arg[s].id \in SubsIDs
    BY <1>6 DEF AddIndexSession, ArgsOK, NamesSubscription
  <2>2. MapsType
    <3>1. sessToSubsMap' \in [Sessions -> (SUBSET SubsIDs) \cup {Nil}]
      BY <1>6, <2>1 DEF AddIndexSession, SubTypeOK
    <3> QED
      BY <1>6, <3>1, MapsUnchanged DEF AddIndexSession, MapsType
  <2>3. SubTypeOK' /\ ptr' = ptr
    BY <1>6, <2>2, MapStepType, MapsUnchanged DEF AddIndexSession, localVars
  <2> QED
    BY <1>6, <2>3, LeaveArgs DEF AddIndexSession
<1> QED
  BY <1>2, <1>3, <1>4, <1>5, <1>6

LEMMA RemoveErrorType ==
    ASSUME ProcTypeOK, SubTypeOK, ArgsOK, NEW s \in Sessions, RemoveError(s),
           UNCHANGED <<mapVars, heapVars, ptr, pubVars>>
    PROVE  ProcTypeOK' /\ SubTypeOK' /\ ArgsOK'
<1>1. SubTypeOK'
  BY DEF SubTypeOK, RemoveError, mapVars, heapVars, pubVars
<1>2. CASE Disconnecting(s)
  BY <1>1, <1>2, ContinueArgs DEF RemoveError, Labels, NamesSubscription, NamesTransaction
<1>3. CASE ~Disconnecting(s)
  BY <1>1, <1>3, LeaveArgs DEF RemoveError
<1> QED
  BY <1>2, <1>3

LEMMA RemoveStepType ==
    ASSUME ProcTypeOK, SubTypeOK, ArgsOK, NEW s \in Sessions,
           \/ RemoveFindDest(s) \/ RemoveCheckDest(s) \/ RemoveFindInfo(s)
           \/ RemoveFromSession(s) \/ RemoveEntry(s) \/ RemoveCheckEmpty(s)
           \/ RemoveDest(s) \/ RemoveIndexDest(s)
    PROVE  ProcTypeOK' /\ SubTypeOK' /\ ArgsOK'
<1>1. CASE RemoveFindDest(s)
  <2>1. arg[s] \in Frame /\ arg[s].id \in SubsIDs \cup {Empty}
    BY FrameFields DEF ProcTypeOK
  <2> DEFINE d == IF arg[s].id = Empty THEN Nil ELSE subsToDestMap[arg[s].id]
  <2>2. CASE d = Nil
    BY <1>1, <2>2, RemoveErrorType DEF RemoveFindDest
  <2>3. CASE d # Nil
    <3>1. arg[s].id \in SubsIDs /\ d \in Dests
      BY <2>1, <2>3 DEF SubTypeOK
    <3>2. /\ arg' = [arg EXCEPT ![s] = [arg[s] EXCEPT !.dest = d]]
          /\ Goto(s, "rm2") /\ UNCHANGED <<status, msg, rmIDs>>
          /\ UNCHANGED <<mapVars, heapVars, ptr, pubVars>>
      BY <1>1, <2>3 DEF RemoveFindDest
    <3>3. SubTypeOK'
      BY <3>2 DEF SubTypeOK, mapVars, heapVars, pubVars
    <3> DEFINE f == [arg[s] EXCEPT !.dest = d]
    <3>4. f \in Frame /\ f.dest = d /\ f.id = arg[s].id
      <4> HIDE DEF d
      <4> QED
        BY <2>1, <3>1, FrameDest
    <3> HIDE DEF d, f
    <3>5. msg' = [msg EXCEPT ![s] = msg[s]] /\ msg[s] \in Frame /\ "rm2" \in Labels
      BY <3>2 DEF ProcTypeOK, Labels
    <3>6. arg' = [arg EXCEPT ![s] = f] /\ Goto(s, "rm2") /\ UNCHANGED status
      BY <3>2 DEF f
    <3>7. /\ ProcTypeOK' /\ pc'[s] = "rm2" /\ arg'[s] = f
          /\ \A t \in Sessions \ {s} : pc'[t] = pc[t] /\ arg'[t] = arg[t]
      BY <3>4, <3>5, <3>6, GotoType
    <3>8. ArgsOf(s)'
      BY <3>1, <3>4, <3>7 DEF ArgsOf, NamesTransaction
    <3> QED
      BY <3>2, <3>3, <3>7, <3>8, ArgsKept
  <2> QED
    BY <2>2, <2>3
<1>2. ASSUME pc[s] \in NamesSubscription
      PROVE  arg[s].dest \in Dests /\ arg[s].id \in SubsIDs
  BY <1>2 DEF ArgsOK
<1>3. CASE RemoveCheckDest(s)
  <2>1. CASE destToSubsMap[arg[s].dest] = Nil
    BY <1>3, <2>1, RemoveErrorType DEF RemoveCheckDest
  <2>2. CASE destToSubsMap[arg[s].dest] # Nil
    <3>1. Continue(s, "rm3") /\ UNCHANGED <<rmIDs, mapVars, heapVars, ptr, pubVars>>
      BY <1>3, <2>2 DEF RemoveCheckDest
    <3>2. SubTypeOK'
      BY <3>1 DEF SubTypeOK, mapVars, heapVars, pubVars
    <3>3. arg[s].dest \in Dests /\ arg[s].id \in SubsIDs
      BY <1>2, <1>3 DEF RemoveCheckDest, NamesSubscription
    <3> QED
      BY <3>1, <3>2, <3>3, ContinueArgs DEF Labels, NamesTransaction
  <2> QED
    BY <2>1, <2>2
<1>4. CASE RemoveFindInfo(s)
  <2> DEFINE p == Lookup(arg[s].dest, arg[s].id)
  <2>1. arg[s].dest \in Dests /\ arg[s].id \in SubsIDs
    BY <1>2, <1>4 DEF RemoveFindInfo, NamesSubscription
  <2>2. p \in (1 .. nInfo) \cup {Nil}
    BY <2>1, LookupType
  <2>3. UNCHANGED <<mapVars, heapVars, rmIDs, pubVars>>
    BY <1>4 DEF RemoveFindInfo
  <2>4. CASE p = Nil
    <3>1. Panic("nil pointer") /\ UNCHANGED ptr
      BY <1>4, <2>4 DEF RemoveFindInfo
    <3>2. SubTypeOK'
      BY <2>3, <3>1 DEF SubTypeOK, mapVars, heapVars, pubVars
    <3> QED
      BY <3>1, <3>2, PanicArgs DEF Deaths
  <2>5. CASE p # Nil
    <3>1. ptr' = [ptr EXCEPT ![s] = p] /\ Continue(s, "rm4")
      BY <1>4, <2>5 DEF RemoveFindInfo
    <3>2. /\ ptr' \in [Sessions -> (1 .. nInfo) \cup {Nil}] /\ ptr'[s] = p
          /\ \A t \in Sessions \ {s} : ptr'[t] = ptr[t]
      BY <2>2, <3>1 DEF SubTypeOK
    <3>3. SubTypeOK'
      BY <2>3, <3>2 DEF SubTypeOK, mapVars, heapVars, pubVars
    <3> QED
      BY <2>1, <2>5, <3>1, <3>2, <3>3, ContinueArgs DEF Labels, NamesTransaction
  <2> QED
    BY <2>4, <2>5
<1>5. CASE RemoveFromSession(s)
  <2> DEFINE owner == info[ptr[s]].sess
  <2>1. arg[s].dest \in Dests /\ arg[s].id \in SubsIDs
    BY <1>2, <1>5 DEF RemoveFromSession, NamesSubscription
  <2>2. owner \in Sessions
    <3>1. ptr[s] # Nil
      BY <1>5 DEF RemoveFromSession, ArgsOK
    <3>2. info[ptr[s]] \in Info
      BY <3>1 DEF SubTypeOK
    <3> QED
      BY <3>2 DEF Info
  <2>3. UNCHANGED <<destToSubsMap, subsToDestMap, heapVars, rmIDs, pubVars>>
    BY <1>5 DEF RemoveFromSession
  <2>4. /\ ptr' \in [Sessions -> (1 .. nInfo) \cup {Nil}]
        /\ \A t \in Sessions \ {s} : ptr'[t] = ptr[t]
    BY <1>5 DEF RemoveFromSession, SubTypeOK
  <2>5. sessToSubsMap' \in [Sessions -> (SUBSET SubsIDs) \cup {Nil}]
    <3>1. sessToSubsMap \in [Sessions -> (SUBSET SubsIDs) \cup {Nil}]
      BY DEF SubTypeOK
    <3>2. CASE sessToSubsMap[owner] = Nil
      BY <1>5, <3>1, <3>2 DEF RemoveFromSession
    <3>3. CASE sessToSubsMap[owner] # Nil
      <4>1. sessToSubsMap[owner] \ {arg[s].id} \in SUBSET SubsIDs
        BY <2>2, <3>1, <3>3
      <4>2. sessToSubsMap' = [sessToSubsMap EXCEPT ![owner] = sessToSubsMap[owner] \ {arg[s].id}]
        BY <1>5, <3>3 DEF RemoveFromSession
      <4> QED
        BY <3>1, <4>1, <4>2
    <3> QED
      BY <3>2, <3>3
  <2>6. SubTypeOK'
    BY <2>3, <2>4, <2>5 DEF SubTypeOK, heapVars, pubVars
  <2>7. CASE Panic("nil set") /\ UNCHANGED ptr
    BY <2>6, <2>7, PanicArgs DEF Deaths
  <2>8. CASE Continue(s, "rm5")
    BY <2>1, <2>4, <2>6, <2>8, ContinueArgs DEF Labels, NamesTransaction
  <2> QED
    BY <1>5, <2>7, <2>8 DEF RemoveFromSession
<1>6. CASE RemoveEntry(s)
  <2>1. arg[s].dest \in Dests /\ arg[s].id \in SubsIDs
    BY <1>2, <1>6 DEF RemoveEntry, NamesSubscription
  <2>2. destToSubsMap' \in [Dests -> [SubsIDs -> (1 .. nInfo) \cup {Nil}] \cup {Nil}]
    <3>1. destToSubsMap[arg[s].dest] # Nil =>
            [destToSubsMap[arg[s].dest] EXCEPT ![arg[s].id] = Nil]
               \in [SubsIDs -> (1 .. nInfo) \cup {Nil}]
      BY <2>1 DEF SubTypeOK
    <3> QED
      BY <1>6, <2>1, <3>1 DEF RemoveEntry, SubTypeOK
  <2>3. MapsType
    BY <1>6, <2>2, MapsUnchanged DEF RemoveEntry, MapsType
  <2>4. SubTypeOK' /\ ptr' = ptr
    BY <1>6, <2>3, MapStepType, MapsUnchanged DEF RemoveEntry, localVars
  <2> QED
    BY <1>6, <2>1, <2>4, ContinueArgs DEF RemoveEntry, Labels, NamesTransaction
<1>7. CASE RemoveCheckEmpty(s)
  <2>1. arg[s].dest \in Dests /\ arg[s].id \in SubsIDs
    BY <1>2, <1>7 DEF RemoveCheckEmpty, NamesSubscription
  <2>2. PICK l \in {"rm7", "rm8"} : Continue(s, l)
    BY <1>7 DEF RemoveCheckEmpty
  <2>3. SubTypeOK' /\ ptr' = ptr
    BY <1>7, SubUnchanged DEF RemoveCheckEmpty
  <2> QED
    BY <2>1, <2>2, <2>3, ContinueArgs DEF Labels, NamesTransaction
<1>8. CASE RemoveDest(s)
  <2>1. arg[s].dest \in Dests /\ arg[s].id \in SubsIDs
    BY <1>2, <1>8 DEF RemoveDest, NamesSubscription
  <2>2. MapsType
    BY <1>8, <2>1, MapsUnchanged DEF RemoveDest, MapsType, SubTypeOK
  <2>3. SubTypeOK' /\ ptr' = ptr
    BY <1>8, <2>2, MapStepType, MapsUnchanged DEF RemoveDest, localVars
  <2> QED
    BY <1>8, <2>1, <2>3, ContinueArgs DEF RemoveDest, Labels, NamesTransaction
<1>9. CASE RemoveIndexDest(s)
  <2>1. MapsType
    BY <1>9, MapsUnchanged DEF RemoveIndexDest, MapsType, SubTypeOK
  <2>2. SubTypeOK' /\ ptr' = ptr
    BY <1>9, <2>1, MapStepType, MapsUnchanged DEF RemoveIndexDest, localVars
  <2>3. Continue(s, "cleanup2") \/ Return(s)
    BY <1>9 DEF RemoveIndexDest
  <2>4. CASE Continue(s, "cleanup2")
    BY <2>2, <2>4, ContinueArgs DEF Labels, NamesSubscription, NamesTransaction
  <2>5. CASE Return(s)
    BY <2>2, <2>5, LeaveArgs
  <2> QED
    BY <2>3, <2>4, <2>5
<1> QED
  BY <1>1, <1>3, <1>4, <1>5, <1>6, <1>7, <1>8, <1>9

LEMMA CleanupStepType ==
    ASSUME ProcTypeOK, SubTypeOK, ArgsOK, NEW s \in Sessions,
           CleanupBegin(s) \/ CleanupNext(s) \/ CleanupLast(s)
    PROVE  ProcTypeOK' /\ SubTypeOK' /\ ArgsOK'
<1>1. CASE CleanupBegin(s)
  <2>1. SubTypeOK' /\ ptr' = ptr
    BY <1>1 DEF CleanupBegin, SubTypeOK, mapVars, heapVars, pubVars
  <2>2. PICK l \in {"bye1", "cleanup2"} : Continue(s, l)
    BY <1>1 DEF CleanupBegin
  <2> QED
    BY <2>1, <2>2, ContinueArgs DEF Labels, NamesSubscription, NamesTransaction
<1>2. CASE CleanupNext(s)
  <2>1. PICK i \in rmIDs[s] : /\ rmIDs' = [rmIDs EXCEPT ![s] = @ \ {i}]
                              /\ arg' = [arg EXCEPT ![s] = [arg[s] EXCEPT !.id = i]]
    BY <1>2 DEF CleanupNext
  <2>2. i \in SubsIDs
    BY DEF SubTypeOK
  <2>3. SubTypeOK' /\ ptr' = ptr
    BY <1>2, <2>1 DEF CleanupNext, SubTypeOK, mapVars, heapVars, pubVars
  <2>4. arg[s] \in Frame /\ msg[s] \in Frame
    BY DEF ProcTypeOK
  <2>5. PICK f \in Frame : arg' = [arg EXCEPT ![s] = f]
    BY <2>1, <2>2, <2>4, FrameUpdates
  <2>6. /\ msg' = [msg EXCEPT ![s] = msg[s]] /\ "rm1" \in Labels /\ Goto(s, "rm1")
        /\ UNCHANGED status
    BY <1>2 DEF CleanupNext, ProcTypeOK, Labels
  <2>7. /\ ProcTypeOK' /\ pc'[s] = "rm1"
        /\ \A t \in Sessions \ {s} : pc'[t] = pc[t] /\ arg'[t] = arg[t]
    BY <2>4, <2>5, <2>6, GotoType
  <2>8. ArgsOf(s)'
    BY <2>7 DEF ArgsOf, NamesSubscription, NamesTransaction
  <2> QED
    BY <2>3, <2>7, <2>8, ArgsKept
<1>3. CASE CleanupLast(s)
  <2>1. MapsType
    BY <1>3, MapsUnchanged DEF CleanupLast, MapsType, SubTypeOK
  <2>2. SubTypeOK' /\ ptr' = ptr
    BY <1>3, <2>1, MapStepType, MapsUnchanged DEF CleanupLast, localVars
  <2> QED
    BY <1>3, <2>2, ContinueArgs DEF CleanupLast, Labels, NamesSubscription, NamesTransaction
<1> QED
  BY <1>1, <1>2, <1>3

LEMMA SetGorType ==
    ASSUME SubTypeOK, NEW s \in Sessions, NEW p \in Addr, NEW state \in GorStates,
           SetGor(s, p, state)
    PROVE  /\ gor' \in [Sessions -> [Addr -> GorStates]]
           /\ gor'[s][p] = state
           /\ \A t \in Sessions, q \in Addr : t # s \/ q # p => gor'[t][q] = gor[t][q]
<1>1. gor \in [Sessions -> [Addr -> GorStates]]
  BY DEF SubTypeOK
<1>2. [gor[s] EXCEPT ![p] = state] \in [Addr -> GorStates]
  BY <1>1
<1> QED
  BY <1>1, <1>2 DEF SetGor

LEMMA PublishStepType ==
    ASSUME ProcTypeOK, SubTypeOK, ArgsOK, NEW s \in Sessions,
           PublishRange(s) \/ PublishWait(s) \/ \E p \in Addr : PublishNext(s, p)
    PROVE  ProcTypeOK' /\ SubTypeOK' /\ ArgsOK'
<1>1. CASE PublishRange(s)
  <2>1. gor' \in [Sessions -> [Addr -> GorStates]] /\ npub' \in [Sessions -> Nat]
    <3> DEFINE g == [p \in Addr |-> IF p \in Targets(msg[s].dest) THEN "due" ELSE "none"]
    <3>1. g \in [Addr -> GorStates]
      BY DEF GorStates
    <3>2. npub \in [Sessions -> Nat] /\ gor \in [Sessions -> [Addr -> GorStates]]
      BY DEF SubTypeOK
    <3>3. \/ UNCHANGED <<gor, npub>>
          \/ /\ gor' = [gor EXCEPT ![s] = g]
             /\ npub' = [npub EXCEPT ![s] = npub[s] + 1]
      BY <1>1 DEF PublishRange
    <3> HIDE DEF g
    <3> QED
      BY <3>1, <3>2, <3>3
  <2>2. SubTypeOK' /\ ptr' = ptr
    BY <1>1, <2>1 DEF PublishRange, SubTypeOK, mapVars, heapVars, localVars
  <2>3. Fail(s) \/ Continue(s, "wait")
    BY <1>1 DEF PublishRange
  <2>4. CASE Fail(s)
    BY <2>2, <2>4, LeaveArgs
  <2>5. CASE Continue(s, "wait")
    BY <2>2, <2>5, ContinueArgs DEF Labels, NamesSubscription, NamesTransaction
  <2> QED
    BY <2>3, <2>4, <2>5
<1>2. CASE PublishWait(s)
  <2>1. gor' \in [Sessions -> [Addr -> GorStates]]
    BY <1>2 DEF PublishWait, SubTypeOK, GorStates
  <2>2. SubTypeOK' /\ ptr' = ptr
    BY <1>2, <2>1 DEF PublishWait, SubTypeOK, mapVars, heapVars, localVars
  <2>3. Return(s) \/ Continue(s, "foreach")
    BY <1>2 DEF PublishWait
  <2>4. CASE Return(s)
    BY <2>2, <2>4, LeaveArgs
  <2>5. CASE Continue(s, "foreach")
    BY <2>2, <2>5, ContinueArgs DEF Labels, NamesSubscription, NamesTransaction
  <2> QED
    BY <2>3, <2>4, <2>5
<1>3. ASSUME NEW p \in Addr, PublishNext(s, p)
      PROVE  ProcTypeOK' /\ SubTypeOK' /\ ArgsOK'
  <2>1. gor' \in [Sessions -> [Addr -> GorStates]]
    BY <1>3, SetGorType DEF PublishNext, GorStates
  <2>2. SubTypeOK' /\ ptr' = ptr
    BY <1>3, <2>1 DEF PublishNext, SubTypeOK, mapVars, heapVars, localVars
  <2> QED
    BY <1>3, <2>2 DEF PublishNext, procVars, ProcTypeOK, ArgsOK
<1> QED
  BY <1>1, <1>2, <1>3

LEMMA NextAckType ==
    ASSUME NEW n \in Nat PROVE NextAck(n) \in 0 .. AckMod - 1
BY SubscribeAssumption DEF NextAck

LEMMA SendStepType ==
    ASSUME ProcTypeOK, SubTypeOK, ArgsOK, NEW s \in Sessions, NEW p \in Addr,
           SendStep(s, p)
    PROVE  ProcTypeOK' /\ SubTypeOK' /\ ArgsOK'
<1>1. UNCHANGED <<procVars, mapVars, nInfo, info, localVars, npub>>
  BY DEF SendStep, SendLock, SendWrite, SendDone, SendFails, heapVars
<1>2. gor' \in [Sessions -> [Addr -> GorStates]]
  BY SetGorType DEF SendStep, SendLock, SendWrite, SendDone, SendFails, GorStates
<1>3. mutex' \in [Addr -> Sessions \cup {Nil}]
  BY DEF SendStep, SendLock, SendWrite, SendDone, SendFails, SubTypeOK, heapVars
<1>4. nextAckNum \in [Addr -> 0 .. AckMod - 1] /\ nextAckNum[p] \in Nat
  BY SubscribeAssumption DEF SubTypeOK
<1>5. /\ nextAckNum' \in [Addr -> 0 .. AckMod - 1]
      /\ pendingAckBitmap' \in [Addr -> SUBSET (0 .. AckMod - 1)]
  <2>1. NextAck(nextAckNum[p]) \in 0 .. AckMod - 1
    BY <1>4, NextAckType
  <2>2. pendingAckBitmap \in [Addr -> SUBSET (0 .. AckMod - 1)]
    BY DEF SubTypeOK
  <2>3. \/ UNCHANGED <<nextAckNum, pendingAckBitmap>>
        \/ /\ pendingAckBitmap' =
                 [pendingAckBitmap EXCEPT ![p] = pendingAckBitmap[p] \cup {nextAckNum[p]}]
           /\ nextAckNum' = [nextAckNum EXCEPT ![p] = NextAck(nextAckNum[p])]
    BY DEF SendStep, SendLock, SendWrite, SendDone, SendFails, heapVars
  <2> QED
    BY <1>4, <2>1, <2>2, <2>3
<1>6. log' \in [Addr -> Seq(Entry)]
  <2>1. log \in [Addr -> Seq(Entry)] /\ npub[s] \in Nat /\ msg[s] \in Frame
    BY DEF SubTypeOK, ProcTypeOK
  <2> DEFINE e == [by |-> s, pub |-> npub[s], ack |-> nextAckNum[p], msg |-> msg[s]]
  <2>2. e \in Entry
    BY <1>4, <2>1 DEF Entry
  <2> HIDE DEF e
  <2>3. Append(log[p], e) \in Seq(Entry)
    BY <2>1, <2>2
  <2>4. UNCHANGED log \/ log' = [log EXCEPT ![p] = Append(log[p], e)]
    BY DEF SendStep, SendLock, SendWrite, SendDone, SendFails, e
  <2> QED
    BY <2>1, <2>3, <2>4
<1>7. SubTypeOK' /\ ptr' = ptr
  BY <1>1, <1>2, <1>3, <1>5, <1>6 DEF SubTypeOK, mapVars, localVars
<1> QED
  BY <1>1, <1>7 DEF procVars, ProcTypeOK, ArgsOK

LEMMA AckStepType ==
    ASSUME ProcTypeOK, SubTypeOK, ArgsOK, NEW s \in Sessions,
           AckCheck(s) \/ AckLookup(s) \/ AckApply(s)
    PROVE  ProcTypeOK' /\ SubTypeOK' /\ ArgsOK'
<1>1. CASE AckCheck(s)
  <2>1. SubTypeOK' /\ ptr' = ptr
    BY <1>1, SubUnchanged DEF AckCheck
  <2>2. arg[s].dest \in Dests /\ arg[s].id \in SubsIDs
    BY <1>1 DEF AckCheck, ArgsOK, NamesSubscription
  <2>3. CASE Fail(s)
    BY <2>1, <2>3, LeaveArgs
  <2>4. CASE Continue(s, "ack2")
    BY <2>1, <2>2, <2>4, ContinueArgs DEF Labels, NamesTransaction
  <2> QED
    BY <1>1, <2>3, <2>4 DEF AckCheck
<1>2. CASE AckLookup(s)
  <2> DEFINE p == Lookup(arg[s].dest, arg[s].id)
  <2>1. p \in (1 .. nInfo) \cup {Nil}
    BY <1>2, LookupType DEF AckLookup, ArgsOK, NamesSubscription
  <2>2. UNCHANGED <<mapVars, heapVars, rmIDs, pubVars>>
    BY <1>2 DEF AckLookup
  <2>3. CASE p = Nil
    <3>1. Panic("nil pointer") /\ UNCHANGED ptr
      BY <1>2, <2>3 DEF AckLookup
    <3>2. SubTypeOK'
      BY <2>2, <3>1 DEF SubTypeOK, mapVars, heapVars, pubVars
    <3> QED
      BY <3>1, <3>2, PanicArgs DEF Deaths
  <2>4. CASE p # Nil
    <3>1. ptr' = [ptr EXCEPT ![s] = p] /\ Continue(s, "ack3")
      BY <1>2, <2>4 DEF AckLookup
    <3>2. /\ ptr' \in [Sessions -> (1 .. nInfo) \cup {Nil}] /\ ptr'[s] = p
          /\ \A t \in Sessions \ {s} : ptr'[t] = ptr[t]
      BY <2>1, <3>1 DEF SubTypeOK
    <3>3. SubTypeOK'
      BY <2>2, <3>2 DEF SubTypeOK, mapVars, heapVars, pubVars
    <3> QED
      BY <2>4, <3>1, <3>2, <3>3, ContinueArgs DEF Labels, NamesSubscription, NamesTransaction
  <2> QED
    BY <2>3, <2>4
<1>3. CASE AckApply(s)
  <2>1. /\ ptr' \in [Sessions -> (1 .. nInfo) \cup {Nil}]
        /\ \A t \in Sessions \ {s} : ptr'[t] = ptr[t]
    BY <1>3 DEF AckApply, SubTypeOK
  <2>2. pendingAckBitmap' \in [Addr -> SUBSET (0 .. AckMod - 1)]
    <3>1. \A m \in AckModes : \A S \in SUBSET (0 .. AckMod - 1) :
             \A n : AfterAck(m, S, n) \in SUBSET (0 .. AckMod - 1)
      BY DEF AfterAck
    <3>2. ptr[s] \in 1 .. nInfo /\ info[ptr[s]] \in Info
      BY <1>3 DEF AckApply, ArgsOK, SubTypeOK
    <3>3. ptr[s] \in Addr /\ info[ptr[s]].ackMode \in AckModes
      BY <3>2, SubscribeAssumption DEF Addr, Info, SubTypeOK
    <3> QED
      BY <1>3, <3>1, <3>3 DEF AckApply, SubTypeOK
  <2>3. SubTypeOK'
    BY <1>3, <2>1, <2>2 DEF AckApply, SubTypeOK, mapVars, pubVars
  <2> QED
    BY <1>3, <2>1, <2>3, LeaveArgs DEF AckApply
<1> QED
  BY <1>1, <1>2, <1>3

LEMMA SubscribeStepType ==
    ASSUME TypeInv, NEW s \in Sessions, SubscribeStep(s),
           UNCHANGED <<sessVars, txVars, clientVars>>
    PROVE  TypeInv'
<1>1. ProcTypeOK /\ SessTypeOK /\ SubTypeOK /\ TxTypeOK /\ ArgsOK
  BY DEF TypeInv, TypeOK
<1>2. ProcTypeOK' /\ SubTypeOK' /\ ArgsOK'
  BY <1>1, AddStepType, RemoveStepType, CleanupStepType, PublishStepType, SendStepType,
     AckStepType DEF SubscribeStep, HandlerStep
<1>3. SessTypeOK' /\ TxTypeOK'
  BY <1>1, SessUnchanged, TxUnchanged
<1> QED
  BY <1>2, <1>3, ClientUnchanged DEF TypeInv

----------------------------------------------------------------------------
\* Frames received, data races, and the whole specification.

LEMMA ReceiveType ==
    ASSUME TypeInv, NEW s \in Sessions, NEW f \in Frame, NEW l \in Labels,
           Receive(s, f, l),
           l \in NamesSubscription => f.dest \in Dests /\ f.id \in SubsIDs,
           l \notin NamesTransaction, l \notin {"rm4", "ack3"}
    PROVE  ProcTypeOK' /\ SessTypeOK' /\ SubTypeOK' /\ TxTypeOK' /\ ArgsOK'
<1>1. ProcTypeOK /\ SessTypeOK /\ SubTypeOK /\ TxTypeOK /\ ArgsOK
  BY DEF TypeInv, TypeOK
<1>2. SessTypeOK' /\ SubTypeOK' /\ TxTypeOK' /\ ptr' = ptr
  BY <1>1, SessUnchanged, SubUnchanged, TxUnchanged DEF Receive
<1>3. PICK m \in Frame : msg' = [msg EXCEPT ![s] = m]
  <2>1. msg = [msg EXCEPT ![s] = msg[s]] /\ msg[s] \in Frame
    BY <1>1 DEF ProcTypeOK
  <2> QED
    BY <2>1 DEF Receive
<1>4. /\ ProcTypeOK' /\ pc'[s] = l /\ arg'[s] = f
      /\ \A t \in Sessions \ {s} : pc'[t] = pc[t] /\ arg'[t] = arg[t]
  <2>1. Goto(s, l) /\ arg' = [arg EXCEPT ![s] = f] /\ UNCHANGED status
    BY DEF Receive
  <2> QED
    BY <1>1, <1>3, <2>1, GotoType
<1>5. ArgsOf(s)'
  BY <1>4 DEF ArgsOf
<1> QED
  BY <1>1, <1>2, <1>4, <1>5, ArgsKept

LEMMA NextFrameType ==
    ASSUME TypeInv, NEW s \in Sessions, NEW cmd \in Cmds
    PROVE  NextFrame(s, cmd) \in Frame
<1>1. arg[s] \in Frame
  BY DEF TypeInv, TypeOK, ProcTypeOK
<1>2. arg[s].no + 1 \in Nat
  BY <1>1, FrameFields
<1>3. Blank(s, arg[s].no + 1) \in Frame
  BY <1>2, BlankType
<1> QED
  BY <1>3 DEF NextFrame, Frame

LEMMA ReceiveStepType ==
    ASSUME TypeInv, NEW s \in Sessions, ReceiveStep(s)
    PROVE  TypeInv'
<1>1. /\ ProcTypeOK /\ SessTypeOK /\ SubTypeOK /\ TxTypeOK /\ ArgsOK
      /\ issued \in [SubsIDs -> Sessions \cup {Nil}]
      /\ begun \in [TxIDs -> Sessions \cup {Nil}]
      /\ txEnd \in [TxIDs -> {"", "COMMIT", "ABORT"}]
      /\ raced \subseteq TxIDs
  BY DEF TypeInv, TypeOK
<1>2. ASSUME NEW f \in Frame, NEW l \in {"pub", "buf1", "add1", "rm1", "beg1", "com1",
                                          "abt1", "cleanup1"},
             Receive(s, f, l)
      PROVE  ProcTypeOK' /\ SessTypeOK' /\ SubTypeOK' /\ TxTypeOK' /\ ArgsOK'
  BY <1>2, ReceiveType DEF Labels, NamesSubscription, NamesTransaction
<1>3. CASE Send(s)
  <2>1. PICK d \in Dests \cup {Empty}, t \in TxIDs \cup {Empty} :
           /\ Receive(s, [NextFrame(s, "SEND") EXCEPT !.dest = d, !.tx = t],
                      IF t # Empty THEN "buf1" ELSE "pub")
           /\ UsesTx(s, t)
           /\ UNCHANGED <<issued, begun, txEnd>>
    BY <1>3 DEF Send
  <2>2. [NextFrame(s, "SEND") EXCEPT !.dest = d, !.tx = t] \in Frame
    <3>1. NextFrame(s, "SEND") \in Frame
      BY NextFrameType DEF Cmds
    <3> QED
      BY <3>1, FrameUpdates
  <2>3. (IF t # Empty THEN "buf1" ELSE "pub") \in {"pub", "buf1"}
    OBVIOUS
  <2>4. ProcTypeOK' /\ SessTypeOK' /\ SubTypeOK' /\ TxTypeOK' /\ ArgsOK'
    BY <1>2, <2>1, <2>2, <2>3
  <2>5. raced' \subseteq TxIDs
    BY <1>1, <2>1 DEF UsesTx
  <2> QED
    BY <1>1, <2>1, <2>4, <2>5 DEF TypeInv, TypeOK
<1>4. CASE SubscribeTo(s)
  <2>1. PICK d \in Dests \cup {Empty}, i \in SubsIDs \cup {Empty}, m \in AskedModes :
           /\ Receive(s, [NextFrame(s, "SUBSCRIBE") EXCEPT !.dest = d, !.id = i,
                                                           !.mode = m], "add1")
           /\ issued' = IF i = Empty THEN issued
                        ELSE [issued EXCEPT ![i] = IF @ = Nil THEN s ELSE @]
           /\ UNCHANGED <<begun, txEnd, raced>>
    BY <1>4 DEF SubscribeTo
  <2>2. m \in AckModes
    BY BrokerAssumption
  <2>3. [NextFrame(s, "SUBSCRIBE") EXCEPT !.dest = d, !.id = i, !.mode = m] \in Frame
    <3>1. NextFrame(s, "SUBSCRIBE") \in Frame
      BY NextFrameType DEF Cmds
    <3> QED
      BY <3>1, <2>2, FrameUpdates
  <2>4. ProcTypeOK' /\ SessTypeOK' /\ SubTypeOK' /\ TxTypeOK' /\ ArgsOK'
    BY <1>2, <2>1, <2>3
  <2>5. issued' \in [SubsIDs -> Sessions \cup {Nil}]
    BY <1>1, <2>1
  <2> QED
    BY <1>1, <2>1, <2>4, <2>5 DEF TypeInv, TypeOK
<1>5. CASE Unsubscribe(s)
  <2>1. PICK i \in SubsIDs \cup {Empty} :
           /\ Receive(s, [NextFrame(s, "UNSUBSCRIBE") EXCEPT !.id = i], "rm1")
           /\ UNCHANGED clientVars
    BY <1>5 DEF Unsubscribe
  <2>2. [NextFrame(s, "UNSUBSCRIBE") EXCEPT !.id = i] \in Frame
    <3>1. NextFrame(s, "UNSUBSCRIBE") \in Frame
      BY NextFrameType DEF Cmds
    <3> QED
      BY <3>1, FrameUpdates
  <2> QED
    BY <1>2, <2>1, <2>2, ClientUnchanged DEF TypeInv
<1>6. CASE Ack(s)
  <2>1. PICK p \in 1 .. nInfo : \E k \in 1 .. Len(log[p]) :
           /\ Receive(s, [NextFrame(s, "ACK") EXCEPT !.dest = info[p].dest,
                            !.id = info[p].id, !.ack = log[p][k].ack], "ack1")
           /\ UNCHANGED clientVars
    BY <1>6 DEF Ack
  <2>2. PICK k \in 1 .. Len(log[p]) :
           /\ Receive(s, [NextFrame(s, "ACK") EXCEPT !.dest = info[p].dest,
                            !.id = info[p].id, !.ack = log[p][k].ack], "ack1")
           /\ UNCHANGED clientVars
    BY <2>1
  <2>3. info[p] \in Info /\ p \in Addr
    <3>1. nInfo \in 0 .. MaxSubs /\ MaxSubs \in Nat /\ \A q \in 1 .. nInfo : info[q] \in Info
      BY <1>1, SubscribeAssumption DEF SubTypeOK
    <3> QED
      BY <3>1 DEF Addr
  <2>4. log[p] \in Seq(Entry)
    BY <1>1, <2>3 DEF SubTypeOK
  <2>5. log[p][k] \in Entry
    BY <2>4
  <2> DEFINE d == info[p].dest
             i == info[p].id
             n == log[p][k].ack
             g == NextFrame(s, "ACK")
             f == [g EXCEPT !.dest = d, !.id = i, !.ack = n]
  <2>6. d \in Dests /\ i \in SubsIDs /\ n \in Nat
    BY <2>3, <2>5 DEF Info, Entry
  <2>7. Receive(s, f, "ack1")
    BY <2>2
  <2>8. g \in Frame
    BY NextFrameType DEF Cmds
  <2> HIDE DEF d, i, n, g
  <2>9. f \in Frame /\ f.dest = d /\ f.id = i
    BY <2>6, <2>8 DEF Frame
  <2> HIDE DEF f
  <2>10. ProcTypeOK' /\ SessTypeOK' /\ SubTypeOK' /\ TxTypeOK' /\ ArgsOK'
    BY <2>6, <2>7, <2>9, ReceiveType DEF Labels, NamesTransaction
  <2> QED
    BY <2>2, <2>10, ClientUnchanged DEF TypeInv
<1>7. CASE Nack(s) \/ AckMalformed(s)
  <2>1. /\ UNCHANGED <<sessVars, subVars, txVars, clientVars>>
        /\ \/ \E l \in {"idle", "return"} : HandledAtOnce(s, l)
           \/ Panic("index out of range")
    BY <1>7 DEF Nack, AckMalformed
  <2>2. SessTypeOK' /\ SubTypeOK' /\ TxTypeOK' /\ ptr' = ptr
    BY <1>1, <2>1, SessUnchanged, SubUnchanged, TxUnchanged
  <2>3. CASE \E l \in {"idle", "return"} : HandledAtOnce(s, l)
    <3>1. PICK l \in {"idle", "return"} : HandledAtOnce(s, l)
      BY <2>3
    <3>2. /\ ProcTypeOK' /\ pc'[s] \in {"idle", "return"}
          /\ \A t \in Sessions \ {s} : pc'[t] = pc[t] /\ arg'[t] = arg[t]
      BY <1>1, <3>1, HandledType
    <3>3. ArgsOf(s)'
      BY <3>2 DEF ArgsOf, NamesSubscription, NamesTransaction
    <3> QED
      BY <1>1, <2>1, <2>2, <3>2, <3>3, ArgsKept, ClientUnchanged DEF TypeInv
  <2>4. CASE Panic("index out of range")
    <3>1. ProcTypeOK' /\ ArgsOK'
      BY <1>1, <2>2, <2>4, PanicArgs DEF Deaths
    <3> QED
      BY <2>1, <2>2, <3>1, ClientUnchanged DEF TypeInv
  <2> QED
    BY <2>1, <2>3, <2>4
<1>8. CASE Begin(s)
  <2>1. PICK t \in TxIDs \cup {Empty} :
           /\ Receive(s, [NextFrame(s, "BEGIN") EXCEPT !.tx = t], "beg1")
           /\ begun' = IF t = Empty THEN begun
                       ELSE [begun EXCEPT ![t] = IF @ = Nil THEN s ELSE @]
           /\ UsesTx(s, t)
           /\ UNCHANGED <<issued, txEnd>>
    BY <1>8 DEF Begin
  <2>2. [NextFrame(s, "BEGIN") EXCEPT !.tx = t] \in Frame
    <3>1. NextFrame(s, "BEGIN") \in Frame
      BY NextFrameType DEF Cmds
    <3> QED
      BY <3>1, FrameUpdates
  <2>3. ProcTypeOK' /\ SessTypeOK' /\ SubTypeOK' /\ TxTypeOK' /\ ArgsOK'
    BY <1>2, <2>1, <2>2
  <2>4. begun' \in [TxIDs -> Sessions \cup {Nil}]
    BY <1>1, <2>1
  <2>5. raced' \subseteq TxIDs
    BY <1>1, <2>1 DEF UsesTx
  <2> QED
    BY <1>1, <2>1, <2>3, <2>4, <2>5 DEF TypeInv, TypeOK
<1>9. ASSUME NEW cmd \in {"COMMIT", "ABORT"}, NEW l \in {"com1", "abt1"}, EndTx(s, cmd, l)
       PROVE  TypeInv'
  <2>1. PICK t \in TxIDs \cup {Empty} :
           /\ Receive(s, [NextFrame(s, cmd) EXCEPT !.tx = t], l)
           /\ txEnd' = IF t = Empty THEN txEnd ELSE [txEnd EXCEPT ![t] = cmd]
           /\ UsesTx(s, t)
           /\ UNCHANGED <<issued, begun>>
    BY <1>9 DEF EndTx
  <2>2. [NextFrame(s, cmd) EXCEPT !.tx = t] \in Frame
    <3>1. NextFrame(s, cmd) \in Frame
      BY NextFrameType DEF Cmds
    <3> QED
      BY <3>1, FrameUpdates
  <2>3. ProcTypeOK' /\ SessTypeOK' /\ SubTypeOK' /\ TxTypeOK' /\ ArgsOK'
    BY <1>2, <2>1, <2>2
  <2>4. txEnd' \in [TxIDs -> {"", "COMMIT", "ABORT"}]
    BY <1>1, <2>1
  <2>5. raced' \subseteq TxIDs
    BY <1>1, <2>1 DEF UsesTx
  <2> QED
    BY <1>1, <2>1, <2>3, <2>4, <2>5 DEF TypeInv, TypeOK
<1>10. CASE Disconnect(s)
  <2>1. NextFrame(s, "DISCONNECT") \in Frame
    BY NextFrameType DEF Cmds
  <2> QED
    BY <1>2, <1>10, <2>1, ClientUnchanged DEF Disconnect, TypeInv
<1> QED
  BY <1>3, <1>4, <1>5, <1>6, <1>7, <1>8, <1>9, <1>10 DEF ReceiveStep, Commit, Abort

LEMMA MapFaultType ==
    ASSUME TypeInv, NEW s \in Sessions, NEW t \in Sessions, MapFault(s, t)
    PROVE  TypeInv'
<1>1. ProcTypeOK /\ SessTypeOK /\ SubTypeOK /\ TxTypeOK /\ ArgsOK
  BY DEF TypeInv, TypeOK
<1>2. Panic("concurrent map access") /\ UNCHANGED <<sessVars, subVars, txVars, clientVars>>
  BY DEF MapFault
<1>3. SessTypeOK' /\ SubTypeOK' /\ TxTypeOK' /\ ptr' = ptr
  BY <1>1, <1>2, SessUnchanged, SubUnchanged, TxUnchanged
<1>4. ProcTypeOK' /\ ArgsOK'
  BY <1>1, <1>2, <1>3, PanicArgs DEF Deaths
<1> QED
  BY <1>2, <1>3, <1>4, ClientUnchanged DEF TypeInv

LEMMA TypeInvInit == Init => TypeInv
<1> SUFFICES ASSUME Init PROVE TypeInv
  OBVIOUS
<1>1. ProcTypeOK
  <2>1. \A s \in Sessions : Blank(s, 0) \in Frame
    BY BlankType
  <2> QED
    BY <2>1 DEF Init, ProcInit, ProcTypeOK, Labels
<1>2. SessTypeOK
  <2>1. /\ <<>> \in Seq({"CONNECTED", "RECEIPT", "ERROR"}) /\ {} \in SUBSET Nat
        /\ <<>> \in Seq(Nat)
    OBVIOUS
  <2> QED
    BY <2>1, SessionAssumption DEF Init, SessInit, SessTypeOK
<1>3. SubTypeOK
  <2>1. 0 \in 0 .. AckMod - 1 /\ 0 \in 0 .. MaxSubs /\ <<>> \in Seq(Entry)
    BY SubscribeAssumption
  <2>2. \A p \in 1 .. 0 : FALSE
    OBVIOUS
  <2> QED
    BY <2>1, <2>2 DEF Init, SubInit, SubTypeOK, GorStates
<1>4. TxTypeOK
  <2>1. <<>> \in Seq(Frame)
    OBVIOUS
  <2> QED
    BY <2>1 DEF Init, TxInit, TxTypeOK
<1>5. ArgsOK
  BY DEF Init, ProcInit, ArgsOK, NamesSubscription, NamesTransaction
<1> QED
  BY <1>1, <1>2, <1>3, <1>4, <1>5 DEF Init, TypeInv, TypeOK

LEMMA TypeInvStutter ==
    ASSUME TypeInv, UNCHANGED vars PROVE TypeInv'
<1>1. /\ UNCHANGED <<procVars, sessVars, subVars, txVars, clientVars>>
      /\ ProcTypeOK /\ SessTypeOK /\ SubTypeOK /\ TxTypeOK /\ ArgsOK
  BY DEF vars, TypeInv, TypeOK
<1>2. SessTypeOK' /\ SubTypeOK' /\ TxTypeOK' /\ ptr' = ptr
  BY <1>1, SessUnchanged, SubUnchanged, TxUnchanged
<1>3. ProcTypeOK' /\ ArgsOK'
  BY <1>1, <1>2 DEF procVars, ProcTypeOK, ArgsOK
<1> QED
  BY <1>1, <1>2, <1>3, ClientUnchanged DEF TypeInv

LEMMA TypeInvNext == TypeInv /\ [Next]_vars => TypeInv'
<1> SUFFICES ASSUME TypeInv, [Next]_vars PROVE TypeInv'
  OBVIOUS
<1>1. CASE Next
  BY <1>1, ReceiveStepType, SessionStepType, SubscribeStepType, TransactionStepType,
     MapFaultType DEF Next
<1>2. CASE UNCHANGED vars
  BY <1>2, TypeInvStutter
<1> QED
  BY <1>1, <1>2

\* TypeInv holds in every reachable state.
LEMMA TypeInvariant == Spec => []TypeInv
BY TypeInvInit, TypeInvNext, PTL DEF Spec

\* In every reachable state the registry, the transaction buffer and the locals of
\* every handler hold values of the types the code gives them, and no pointer leads
\* to an object that was not allocated.
THEOREM TypeCorrect == Spec => []TypeOK
<1>1. TypeInv => TypeOK
  BY DEF TypeInv
<1> QED
  BY <1>1, TypeInvariant, PTL
=============================================================================
