------------------------- MODULE TransactionProofs -------------------------
(***************************************************************************)
(* Transactions, proved for any number of sessions, transactions and       *)
(* messages.  Of any clients: while two calls for the same transaction     *)
(* have not overlapped, the unlocked buffer loses no frame.  Of            *)
(* ClientHandlers (client.go), which end only their own transactions but   *)
(* may send in any: nothing of a transaction is seen before its COMMIT,    *)
(* and the messages of a sender arrive in the order they were sent.        *)
(***************************************************************************)
EXTENDS DeliveryProofs

USE DEF At

\* Where the handlers of BEGIN, SEND in a transaction, COMMIT and ABORT are.
TxLabels == {"beg1", "beg2", "buf1", "buf2", "buf3", "com1", "com2", "abt1", "abt2"}

BufLabels == {"buf1", "buf2", "buf3"}

\* s has not dealt with p yet in the present call of publish().
YetToSend(s, p) == pc[s] = "pub" \/ gor[s][p] \in {"due", "start", "locked"}

----------------------------------------------------------------------------
\* Calls for one transaction, of any clients.

\* Only overlapping calls have the same transaction in hand.
RaceOK ==
    \A u, v \in Sessions :
        u # v /\ arg[u].tx = arg[v].tx => arg[u].tx \in raced \cup {Empty}

\* What a handler has found in the buffer is still true if its transaction was used by
\* one call at a time.
FoundOf(s) ==
    /\ pc[s] \in NamesTransaction => arg[s].tx \in TxIDs \ {Empty}
    /\ arg[s].tx \notin raced =>
          /\ pc[s] = "beg2" => txBuffer[arg[s].tx] = Nil
          /\ pc[s] \in {"buf2", "buf3"} => txBuffer[arg[s].tx] # Nil
          /\ pc[s] = "buf3" => slice[s] = txBuffer[arg[s].tx]

FoundOK == \A s \in Sessions : FoundOf(s)

RaceInv == RaceOK /\ FoundOK

----------------------------------------------------------------------------
\* Transactions of ClientHandlers.

\* The frames of each sender are in the order they were received.
InOrder(q) ==
    \A j, k \in 1 .. Len(q) : j < k /\ q[j].from = q[k].from => q[j].no < q[k].no

\* The transaction that s commits is its own; what a COMMIT publishes belongs to it,
\* and any other frame is published as it was received.
OwnerOf(s) ==
    /\ arg[s].from = s
    /\ arg[s].cmd = "COMMIT" =>
          /\ arg[s].tx \in TxIDs \ {Empty} /\ begun[arg[s].tx] = s
          /\ txEnd[arg[s].tx] = "COMMIT"
          /\ pc[s] \in {"com1", "com2", "foreach", "pub", "wait"}
    /\ pc[s] \in {"com1", "com2", "foreach"} => arg[s].cmd = "COMMIT"
    /\ pc[s] \in {"pub", "wait"} =>
          IF arg[s].cmd = "COMMIT" THEN msg[s].tx = arg[s].tx
          ELSE msg[s] = arg[s] /\ msg[s].tx = Empty

\* The buffer of a transaction: its own frames, and those of a sender in order, unless
\* calls have overlapped.
BufferOf(t) ==
    txBuffer[t] # Nil =>
        /\ \A k \in 1 .. Len(txBuffer[t]) : txBuffer[t][k].tx = t
        /\ t \notin raced =>
              /\ InOrder(txBuffer[t])
              /\ \A k \in 1 .. Len(txBuffer[t]) : \A b \in Sessions :
                    txBuffer[t][k].from = b =>
                        /\ txBuffer[t][k].no =< arg[b].no
                        /\ pc[b] \in BufLabels => txBuffer[t][k].no < arg[b].no

\* s is in the loop of a COMMIT.
Committing(s) == arg[s].cmd = "COMMIT" /\ pc[s] \in {"foreach", "pub", "wait"}

\* What a call has read or has left to publish: frames of its transaction; a COMMIT has
\* those of a sender in order, after the present one.
SliceOf(s) ==
    /\ pc[s] = "buf3" \/ Committing(s) =>
          \A k \in 1 .. Len(slice[s]) : slice[s][k].tx = arg[s].tx
    /\ Committing(s) /\ arg[s].tx \notin raced =>
          /\ InOrder(slice[s])
          /\ \A k \in 1 .. Len(slice[s]) :
                pc[s] \in {"pub", "wait"} /\ msg[s].from = slice[s][k].from =>
                    msg[s].no < slice[s][k].no

\* A message m outside of transactions in the log of p, published by b, is one of b's
\* own, and an earlier one than what b has yet to send to p.
PlainEntry(m, b, p) ==
    m.tx = Empty =>
        /\ m.from = b
        /\ m.no =< arg[b].no
        /\ YetToSend(b, p) /\ msg[b].tx = Empty => m.no < msg[b].no

\* A message m of a transaction in the log of p was committed, and is before what a
\* COMMIT of that transaction by s has yet to publish of the same sender.
TxEntry(m, s, p) ==
    m.tx # Empty =>
        /\ txEnd[m.tx] = "COMMIT"
        /\ arg[s].cmd = "COMMIT" /\ arg[s].tx = m.tx =>
              /\ pc[s] \in {"foreach", "pub", "wait"}
              /\ m.tx \notin raced =>
                    /\ \A j \in 1 .. Len(slice[s]) :
                          m.from = slice[s][j].from => m.no < slice[s][j].no
                    /\ pc[s] \in {"pub", "wait"} /\ m.from = msg[s].from =>
                          m.no =< msg[s].no /\ (YetToSend(s, p) => m.no < msg[s].no)

EntriesOK ==
    \A p \in Addr : \A k \in 1 .. Len(log[p]) :
        /\ PlainEntry(log[p][k].msg, log[p][k].by, p)
        /\ \A s \in Sessions : TxEntry(log[p][k].msg, s, p)

OwnerOK == \A s \in Sessions : OwnerOf(s)
BufferOK == \A t \in TxIDs : BufferOf(t)
SliceOK == \A s \in Sessions : SliceOf(s)

TxInv == OwnerOK /\ BufferOK /\ SliceOK /\ EntriesOK /\ SenderOrder

----------------------------------------------------------------------------
\* Types that the steps below need.

LEMMA TxTypes ==
    ASSUME TypeInv
    PROVE  /\ \A s \in Sessions : /\ arg[s] \in Frame /\ msg[s] \in Frame
                                  /\ arg[s].no \in Nat /\ msg[s].no \in Nat
                                  /\ slice[s] \in Seq(Frame) /\ Len(slice[s]) \in Nat
           /\ \A s \in Sessions : \A k \in 1 .. Len(slice[s]) : slice[s][k].no \in Nat
           /\ \A t \in TxIDs : txBuffer[t] # Nil =>
                 /\ txBuffer[t] \in Seq(Frame) /\ Len(txBuffer[t]) \in Nat
                 /\ \A k \in 1 .. Len(txBuffer[t]) : txBuffer[t][k].no \in Nat
           /\ \A t \in TxIDs : begun[t] \in Sessions \cup {Nil}
           /\ \A p \in Addr : Len(log[p]) \in Nat
           /\ \A p \in Addr : \A k \in 1 .. Len(log[p]) :
                 /\ log[p][k].by \in Sessions /\ log[p][k].msg \in Frame
                 /\ log[p][k].msg.no \in Nat
                 /\ log[p][k].msg.tx # Empty => log[p][k].msg.tx \in TxIDs
<1>1. ProcTypeOK /\ SubTypeOK /\ TxTypeOK /\ begun \in [TxIDs -> Sessions \cup {Nil}]
  BY DEF TypeInv, TypeOK
<1>2. \A f \in Frame : f.no \in Nat /\ (f.tx # Empty => f.tx \in TxIDs)
  BY DEF Frame
<1>3. \A s \in Sessions : /\ arg[s] \in Frame /\ msg[s] \in Frame
                          /\ slice[s] \in Seq(Frame) /\ Len(slice[s]) \in Nat
  BY <1>1 DEF ProcTypeOK, TxTypeOK
<1>4. \A s \in Sessions : \A k \in 1 .. Len(slice[s]) : slice[s][k] \in Frame
  BY <1>3
<1>5. \A t \in TxIDs : txBuffer[t] # Nil =>
          txBuffer[t] \in Seq(Frame) /\ Len(txBuffer[t]) \in Nat
  BY <1>1 DEF TxTypeOK
<1>6. \A t \in TxIDs : txBuffer[t] # Nil =>
          \A k \in 1 .. Len(txBuffer[t]) : txBuffer[t][k] \in Frame
  BY <1>5
<1>7. \A p \in Addr : \A k \in 1 .. Len(log[p]) : log[p][k] \in Entry
  BY LogTypes
<1>8. \A p \in Addr : \A k \in 1 .. Len(log[p]) :
          log[p][k].by \in Sessions /\ log[p][k].msg \in Frame
  BY <1>7 DEF Entry
<1>9. \A p \in Addr : Len(log[p]) \in Nat
  BY LogTypes
<1> QED
  BY <1>1, <1>2, <1>3, <1>4, <1>5, <1>6, <1>8, <1>9

----------------------------------------------------------------------------
\* Steps that have nothing to do with a transaction or with publish().

\* Where s goes then: its frame keeps its transaction or is given up.
Leaves(s) ==
    /\ \A u \in Sessions \ {s} : pc'[u] = pc[u] /\ arg'[u] = arg[u] /\ msg'[u] = msg[u]
    /\ pc'[s] \notin TxLabels \cup {"foreach", "pub", "wait"}
    /\ \/ arg'[s].cmd # "COMMIT"
       \/ /\ arg'[s].cmd = arg[s].cmd
          /\ pc[s] \notin {"com1", "com2", "foreach", "pub", "wait"}
    /\ arg'[s].from \in {s, arg[s].from}
    /\ arg'[s].tx \in {Empty, arg[s].tx}
    /\ arg'[s].no \in Nat /\ arg[s].no =< arg'[s].no

LEMMA BlankFields ==
    ASSUME NEW s, NEW n
    PROVE  /\ Blank(s, n).cmd = "NONE" /\ Blank(s, n).from = s /\ Blank(s, n).no = n
           /\ Blank(s, n).tx = Empty
BY DEF Blank

LEMMA ReturnLeaves ==
    ASSUME TypeInv, NEW s \in Sessions,
           Return(s) \/ Fail(s) \/ \E l \in {"idle", "return"} : HandledAtOnce(s, l)
    PROVE  Leaves(s)
<1>1. /\ pc \in [Sessions -> Labels] /\ arg \in [Sessions -> Frame]
      /\ msg \in [Sessions -> Frame] /\ arg[s].no \in Nat
  BY TxTypes DEF TypeInv, TypeOK, ProcTypeOK
<1>2. PICK n \in {arg[s].no, arg[s].no + 1}, l \in {"idle", "return"} :
        /\ Goto(s, l) /\ arg' = [arg EXCEPT ![s] = Blank(s, n)]
        /\ msg' = [msg EXCEPT ![s] = Blank(s, 0)] \/ msg' = msg
  BY DEF Return, Fail, HandledAtOnce
<1>3. /\ pc'[s] = l /\ arg'[s] = Blank(s, n)
      /\ \A u \in Sessions \ {s} : pc'[u] = pc[u] /\ arg'[u] = arg[u] /\ msg'[u] = msg[u]
  BY <1>1, <1>2 DEF Goto
<1>4. /\ arg'[s].cmd = "NONE" /\ arg'[s].from = s /\ arg'[s].no = n
      /\ arg'[s].tx = Empty
      /\ n \in Nat /\ arg[s].no =< n
  BY <1>1, <1>3, BlankFields
<1> QED
  BY <1>3, <1>4 DEF Leaves, TxLabels

LEMMA ContinueLeaves ==
    ASSUME TypeInv, NEW s \in Sessions, NEW l, Continue(s, l),
           pc[s] \notin {"com1", "com2", "foreach", "pub", "wait"},
           l \notin TxLabels \cup {"foreach", "pub", "wait"}
    PROVE  Leaves(s)
<1>1. /\ pc \in [Sessions -> Labels] /\ arg[s].no \in Nat
  BY TxTypes DEF TypeInv, TypeOK, ProcTypeOK
<1>2. /\ pc'[s] = l /\ arg' = arg /\ msg' = msg
      /\ \A u \in Sessions \ {s} : pc'[u] = pc[u]
  BY <1>1 DEF Continue, Goto
<1> QED
  BY <1>1, <1>2 DEF Leaves

LEMMA SessionMoves ==
    ASSUME TypeInv, NEW s \in Sessions, SessionStep(s)
    PROVE  UNCHANGED <<pc, arg, msg>> \/ Leaves(s)
<1>1. CASE \/ Return(s) \/ Fail(s) \/ \E l \in {"idle", "return"} : HandledAtOnce(s, l)
  BY <1>1, ReturnLeaves
<1>2. CASE /\ pc[s] \in {"none", "bye1", "return", "done"}
           /\ \E l \in {"idle", "bye2", "done", "ended"} : Continue(s, l)
  BY <1>2, ContinueLeaves DEF TxLabels
<1>3. \/ UNCHANGED <<pc, arg, msg>>
      \/ Return(s) \/ Fail(s) \/ \E l \in {"idle", "return"} : HandledAtOnce(s, l)
      \/ /\ pc[s] \in {"none", "bye1", "return", "done"}
         /\ \E l \in {"idle", "bye2", "done", "ended"} : Continue(s, l)
  BY DEF SessionStep, Accept, PeerLeaves, Connect, ConnectDenied, ConnectRefused,
         InvalidFrame, UndecodableFrame, ByeReceipt, ByeClose, EndOfStream, ScannerStops,
         Cleanup, RemoveJob, Panic, procVars
<1> QED
  BY <1>1, <1>2, <1>3

\* The labels of the handlers of SUBSCRIBE, UNSUBSCRIBE, ACK and DISCONNECT.
RegistryLabels ==
    {"add1", "add2", "add3", "add4", "add5", "rm1", "rm2", "rm3", "rm4", "rm5", "rm6", "rm7",
     "rm8", "cleanup1", "cleanup2", "bye1", "ack1", "ack2", "ack3"}

LEMMA RegistryMoves ==
    ASSUME TypeInv, NEW s \in Sessions, RegistryStep(s) \/ AddInsert(s) \/ AckApply(s)
    PROVE  UNCHANGED <<pc, arg, msg>> \/ Leaves(s)
<1>1. /\ pc \in [Sessions -> Labels] /\ arg \in [Sessions -> Frame]
      /\ arg[s] \in Frame /\ arg[s].no \in Nat
  BY TxTypes DEF TypeInv, TypeOK, ProcTypeOK
<1>2. pc[s] \in RegistryLabels
  BY DEF RegistryStep, AddCheck, AddReset, AddIndexDest, AddIndexSession, RemoveFindDest,
         RemoveCheckDest, RemoveFindInfo, RemoveFromSession, RemoveEntry,
         RemoveCheckEmpty, RemoveDest, RemoveIndexDest, CleanupBegin, CleanupNext,
         CleanupLast, AckCheck, AckLookup, AddInsert, AckApply, RegistryLabels
<1>3. \/ UNCHANGED <<pc, arg, msg>> \/ Return(s) \/ Fail(s)
      \/ \E l \in RegistryLabels : Continue(s, l)
      \/ RemoveFindDest(s) \/ CleanupNext(s)
  <2>1. CASE AddCheck(s) \/ AddReset(s) \/ AddIndexDest(s) \/ AddIndexSession(s) \/ AddInsert(s)
    BY <2>1 DEF AddCheck, AddReset, AddIndexDest, AddIndexSession, AddInsert, Panic,
                RegistryLabels
  <2>2. CASE \/ RemoveCheckDest(s) \/ RemoveFindInfo(s) \/ RemoveFromSession(s)
             \/ RemoveEntry(s) \/ RemoveCheckEmpty(s) \/ RemoveDest(s) \/ RemoveIndexDest(s)
    BY <2>2 DEF RemoveCheckDest, RemoveFindInfo, RemoveFromSession, RemoveEntry, RemoveError,
                RemoveCheckEmpty, RemoveDest, RemoveIndexDest, Panic, RegistryLabels
  <2>3. CASE CleanupBegin(s) \/ CleanupLast(s) \/ AckCheck(s) \/ AckLookup(s) \/ AckApply(s)
    BY <2>3 DEF CleanupBegin, CleanupLast, AckCheck, AckLookup, AckApply, Panic,
                RegistryLabels
  <2> QED
    BY <2>1, <2>2, <2>3 DEF RegistryStep
<1>4. CASE \E l \in RegistryLabels : Continue(s, l)
  BY <1>2, <1>4, ContinueLeaves DEF RegistryLabels, TxLabels
<1>5. pc[s] \notin {"com1", "com2", "foreach", "pub", "wait"}
  BY <1>2 DEF RegistryLabels
<1>6. CASE RemoveFindDest(s)
  <2>1. CASE RemoveError(s)
    BY <1>2, <2>1, ReturnLeaves, ContinueLeaves DEF RemoveError, RegistryLabels, TxLabels
  <2>2. CASE ~RemoveError(s)
    <3>1. PICK d : /\ arg' = [arg EXCEPT ![s] = [@ EXCEPT !.dest = d]]
                   /\ Goto(s, "rm2") /\ msg' = msg
      BY <1>6, <2>2 DEF RemoveFindDest
    <3>2. /\ pc'[s] = "rm2" /\ arg'[s] = [arg[s] EXCEPT !.dest = d]
          /\ \A u \in Sessions \ {s} : pc'[u] = pc[u] /\ arg'[u] = arg[u] /\ msg'[u] = msg[u]
      BY <1>1, <3>1 DEF Goto
    <3>3. /\ arg'[s].cmd = arg[s].cmd /\ arg'[s].from = arg[s].from
          /\ arg'[s].no = arg[s].no /\ arg'[s].tx = arg[s].tx
      BY <1>1, <3>2 DEF Frame
    <3> QED
      BY <1>1, <1>5, <3>2, <3>3 DEF Leaves, TxLabels
  <2> QED
    BY <2>1, <2>2
<1>7. CASE CleanupNext(s)
  <2>1. PICK i : /\ arg' = [arg EXCEPT ![s] = [@ EXCEPT !.id = i]]
                 /\ Goto(s, "rm1") /\ msg' = msg
    BY <1>7 DEF CleanupNext
  <2>2. /\ pc'[s] = "rm1" /\ arg'[s] = [arg[s] EXCEPT !.id = i]
        /\ \A u \in Sessions \ {s} : pc'[u] = pc[u] /\ arg'[u] = arg[u] /\ msg'[u] = msg[u]
    BY <1>1, <2>1 DEF Goto
  <2>3. /\ arg'[s].cmd = arg[s].cmd /\ arg'[s].from = arg[s].from
        /\ arg'[s].no = arg[s].no /\ arg'[s].tx = arg[s].tx
    BY <1>1, <2>2 DEF Frame
  <2> QED
    BY <1>1, <1>5, <2>2, <2>3 DEF Leaves, TxLabels
<1> QED
  BY <1>3, <1>4, <1>6, <1>7, ReturnLeaves

LEMMA ReceiveLands ==
    ASSUME TypeInv, NEW s \in Sessions, NEW f, NEW l, Receive(s, f, l)
    PROVE  /\ pc[s] = "idle" /\ pc'[s] = l /\ arg'[s] = f
           /\ IF l = "pub" THEN msg'[s] = f ELSE msg' = msg
           /\ \A u \in Sessions \ {s} : pc'[u] = pc[u] /\ arg'[u] = arg[u] /\ msg'[u] = msg[u]
           /\ UNCHANGED <<txVars, txBuffer, slice, gor, log>>
<1>1. /\ pc \in [Sessions -> Labels] /\ arg \in [Sessions -> Frame]
      /\ msg \in [Sessions -> Frame]
  BY DEF TypeInv, TypeOK, ProcTypeOK
<1>2. UNCHANGED <<txVars, txBuffer, slice, gor, log>> /\ pc[s] = "idle"
  BY DEF Receive, MayReceive, subVars, pubVars, txVars
<1>3. /\ pc'[s] = l /\ arg'[s] = f
      /\ IF l = "pub" THEN msg'[s] = f ELSE msg' = msg
      /\ \A u \in Sessions \ {s} : pc'[u] = pc[u] /\ arg'[u] = arg[u] /\ msg'[u] = msg[u]
  BY <1>1 DEF Receive, Goto
<1> QED
  BY <1>2, <1>3

LEMMA NextFields ==
    ASSUME TypeInv, NEW s \in Sessions, NEW cmd
    PROVE  LET f == NextFrame(s, cmd)
               Follows(g, t) == /\ g.cmd = cmd /\ g.from = s /\ g.no = arg[s].no + 1
                                /\ g.tx = t
           IN  /\ Follows(f, Empty)
               /\ \A t : Follows([f EXCEPT !.tx = t], t)
               /\ \A d, t : Follows([f EXCEPT !.dest = d, !.tx = t], t)
               /\ \A i : Follows([f EXCEPT !.id = i], Empty)
               /\ \A d, i, m : Follows([f EXCEPT !.dest = d, !.id = i, !.mode = m], Empty)
               /\ \A d, i, a : Follows([f EXCEPT !.dest = d, !.id = i, !.ack = a], Empty)
BY DEF NextFrame, Blank

\* Frames that concern neither a transaction nor publish().
LEMMA ReceiveLeaves ==
    ASSUME TypeInv, NEW s \in Sessions,
           SubscribeTo(s) \/ Unsubscribe(s) \/ Ack(s) \/ AckMalformed(s) \/ Nack(s)
             \/ Disconnect(s)
    PROVE  UNCHANGED <<pc, arg, msg>> \/ Leaves(s)
<1>1. CASE \E f : \E l \in RegistryLabels :
               /\ Receive(s, f, l)
               /\ f.cmd # "COMMIT" /\ f.from = s /\ f.no = arg[s].no + 1 /\ f.tx = Empty
  <2>1. PICK f : \E l \in RegistryLabels :
               /\ Receive(s, f, l)
               /\ f.cmd # "COMMIT" /\ f.from = s /\ f.no = arg[s].no + 1 /\ f.tx = Empty
    BY <1>1
  <2>2. PICK l \in RegistryLabels : Receive(s, f, l)
    BY <2>1
  <2> QED
    BY <2>1, <2>2, ReceiveLands, TxTypes DEF Leaves, RegistryLabels, TxLabels
<1>2. CASE SubscribeTo(s)
  <2>1. PICK d, i, m :
          Receive(s, [NextFrame(s, "SUBSCRIBE") EXCEPT !.dest = d, !.id = i, !.mode = m],
                  "add1")
    BY <1>2 DEF SubscribeTo
  <2> DEFINE f == [NextFrame(s, "SUBSCRIBE") EXCEPT !.dest = d, !.id = i, !.mode = m]
  <2>2. f.cmd = "SUBSCRIBE" /\ f.from = s /\ f.no = arg[s].no + 1 /\ f.tx = Empty
    BY NextFields
  <2>3. Receive(s, f, "add1")
    BY <2>1
  <2> HIDE DEF f
  <2> QED
    BY <1>1, <2>2, <2>3 DEF RegistryLabels
<1>3. CASE Unsubscribe(s)
  <2>1. PICK i : Receive(s, [NextFrame(s, "UNSUBSCRIBE") EXCEPT !.id = i], "rm1")
    BY <1>3 DEF Unsubscribe
  <2> DEFINE f == [NextFrame(s, "UNSUBSCRIBE") EXCEPT !.id = i]
  <2>2. f.cmd = "UNSUBSCRIBE" /\ f.from = s /\ f.no = arg[s].no + 1 /\ f.tx = Empty
    BY NextFields
  <2>3. Receive(s, f, "rm1")
    BY <2>1
  <2> HIDE DEF f
  <2> QED
    BY <1>1, <2>2, <2>3 DEF RegistryLabels
<1>4. CASE Ack(s)
  <2>1. PICK d, i, a :
          Receive(s, [NextFrame(s, "ACK") EXCEPT !.dest = d, !.id = i, !.ack = a], "ack1")
    BY <1>4 DEF Ack
  <2> DEFINE f == [NextFrame(s, "ACK") EXCEPT !.dest = d, !.id = i, !.ack = a]
  <2>2. f.cmd = "ACK" /\ f.from = s /\ f.no = arg[s].no + 1 /\ f.tx = Empty
    BY NextFields
  <2>3. Receive(s, f, "ack1")
    BY <2>1
  <2> HIDE DEF f
  <2> QED
    BY <1>1, <2>2, <2>3 DEF RegistryLabels
<1>5. CASE Disconnect(s)
  BY <1>1, <1>5, NextFields DEF Disconnect, RegistryLabels
<1>6. CASE AckMalformed(s) \/ Nack(s)
  BY <1>6, ReturnLeaves DEF AckMalformed, Nack, Panic
<1> QED
  BY <1>2, <1>3, <1>4, <1>5, <1>6

----------------------------------------------------------------------------
\* Calls for one transaction, of any clients.

LEMMA ContinueMoves ==
    ASSUME TypeInv, NEW s \in Sessions, NEW l, Continue(s, l)
    PROVE  /\ pc'[s] = l /\ arg' = arg /\ msg' = msg
           /\ \A u \in Sessions \ {s} : pc'[u] = pc[u]
BY DEF Continue, Goto, TypeInv, TypeOK, ProcTypeOK

\* A step of s leaves alone what the calls of other transactions have found.
LEMMA RaceStep ==
    ASSUME TypeInv, RaceInv, NEW s \in Sessions,
           \A u \in Sessions \ {s} : pc'[u] = pc[u] /\ arg'[u] = arg[u],
           \/ UNCHANGED raced /\ arg'[s].tx \in {Empty, arg[s].tx}
           \/ UsesTx(s, arg'[s].tx) /\ arg'[s].tx \in TxIDs \cup {Empty},
           \A u \in Sessions \ {s} : arg[u].tx \notin raced \cup {Empty} =>
               slice'[u] = slice[u] /\ txBuffer'[arg[u].tx] = txBuffer[arg[u].tx],
           FoundOf(s)'
    PROVE  RaceInv'
<1>1. raced \subseteq raced'
  BY DEF UsesTx
<1>2. ASSUME NEW v \in Sessions \ {s}, arg'[v].tx = arg'[s].tx
      PROVE  arg'[s].tx \in raced' \cup {Empty}
  <2>1. arg'[v] = arg[v]
    OBVIOUS
  <2>2. CASE arg'[s].tx \in {Empty, arg[s].tx}
    BY <1>1, <1>2, <2>1, <2>2 DEF RaceInv, RaceOK
  <2>3. CASE UsesTx(s, arg'[s].tx) /\ arg'[s].tx \in TxIDs \ {Empty}
    BY <1>2, <2>1, <2>3 DEF UsesTx
  <2> QED
    BY <2>2, <2>3
<1>3. RaceOK'
  <2>1. SUFFICES ASSUME NEW u \in Sessions, NEW v \in Sessions, u # v,
                        arg'[u].tx = arg'[v].tx
                 PROVE  arg'[u].tx \in raced' \cup {Empty}
    BY DEF RaceOK
  <2>2. CASE u = s \/ v = s
    BY <1>2, <2>1, <2>2
  <2>3. CASE u # s /\ v # s
    BY <1>1, <2>1, <2>3 DEF RaceInv, RaceOK
  <2> QED
    BY <2>2, <2>3
<1>4. ASSUME NEW u \in Sessions \ {s} PROVE FoundOf(u)'
  <2>1. FoundOf(u) /\ pc'[u] = pc[u] /\ arg'[u] = arg[u]
    BY DEF RaceInv, FoundOK
  <2>2. pc[u] \in NamesTransaction /\ arg[u].tx \notin raced' =>
            slice'[u] = slice[u] /\ txBuffer'[arg[u].tx] = txBuffer[arg[u].tx]
    BY <1>1, <2>1 DEF FoundOf
  <2> QED
    BY <1>1, <2>1, <2>2 DEF FoundOf, NamesTransaction
<1>5. FoundOK'
  BY <1>4 DEF FoundOK
<1> QED
  BY <1>3, <1>5 DEF RaceInv

\* Steps that do not touch the buffer, and after which s relies on nothing in it.
LEMMA RaceMoves ==
    ASSUME TypeInv, RaceInv, NEW s \in Sessions,
           \A u \in Sessions \ {s} : pc'[u] = pc[u] /\ arg'[u] = arg[u],
           pc'[s] \notin NamesTransaction,
           \/ UNCHANGED raced /\ arg'[s].tx \in {Empty, arg[s].tx}
           \/ UsesTx(s, arg'[s].tx) /\ arg'[s].tx \in TxIDs \cup {Empty},
           UNCHANGED txBuffer, \A u \in Sessions \ {s} : slice'[u] = slice[u]
    PROVE  RaceInv'
<1>1. FoundOf(s)'
  BY DEF FoundOf, NamesTransaction
<1> QED
  BY <1>1, RaceStep

LEMMA RaceStill ==
    ASSUME RaceInv, UNCHANGED <<pc, arg, slice, txBuffer, raced>>
    PROVE  RaceInv'
BY DEF RaceInv, RaceOK, FoundOK, FoundOf

LEMMA LeavesRace ==
    ASSUME TypeInv, RaceInv, NEW s \in Sessions, UNCHANGED <<pc, arg, msg>> \/ Leaves(s),
           UNCHANGED <<txBuffer, slice, raced>>
    PROVE  RaceInv'
<1>1. CASE UNCHANGED <<pc, arg, msg>>
  BY <1>1, RaceStill
<1>2. CASE Leaves(s)
  BY <1>2, RaceMoves DEF Leaves, TxLabels, NamesTransaction
<1> QED
  BY <1>1, <1>2

\* A frame that names a transaction, or that is published.
LEMMA ReceiveRace ==
    ASSUME TypeInv, RaceInv, NEW s \in Sessions, ReceiveStep(s)
    PROVE  RaceInv'
<1>1. ASSUME NEW f, NEW l \in {"buf1", "pub", "beg1", "com1", "abt1"},
             NEW t \in TxIDs \cup {Empty}, Receive(s, f, l), f.tx = t, UsesTx(s, t)
      PROVE  RaceInv'
  BY <1>1, ReceiveLands, RaceMoves DEF NamesTransaction
<1>2. CASE Send(s)
  <2>1. PICK d \in Dests \cup {Empty}, t \in TxIDs \cup {Empty} :
          /\ Receive(s, [NextFrame(s, "SEND") EXCEPT !.dest = d, !.tx = t],
                     IF t # Empty THEN "buf1" ELSE "pub")
          /\ UsesTx(s, t)
    BY <1>2 DEF Send
  <2> DEFINE f == [NextFrame(s, "SEND") EXCEPT !.dest = d, !.tx = t]
  <2>2. f.tx = t
    BY NextFields
  <2>3. Receive(s, f, IF t # Empty THEN "buf1" ELSE "pub")
    BY <2>1
  <2> HIDE DEF f
  <2> QED
    BY <1>1, <2>1, <2>2, <2>3
<1>3. ASSUME NEW cmd, NEW l \in {"beg1", "com1", "abt1"}, NEW t \in TxIDs \cup {Empty},
             Receive(s, [NextFrame(s, cmd) EXCEPT !.tx = t], l), UsesTx(s, t)
      PROVE  RaceInv'
  <2> DEFINE f == [NextFrame(s, cmd) EXCEPT !.tx = t]
  <2>1. f.tx = t
    BY NextFields
  <2>2. Receive(s, f, l)
    BY <1>3
  <2> HIDE DEF f
  <2> QED
    BY <1>1, <1>3, <2>1, <2>2
<1>4. CASE Begin(s) \/ Commit(s) \/ Abort(s)
  BY <1>3, <1>4 DEF Begin, Commit, Abort, EndTx
<1>5. CASE \/ SubscribeTo(s) \/ Unsubscribe(s) \/ Ack(s) \/ AckMalformed(s) \/ Nack(s)
           \/ Disconnect(s)
  <2>1. UNCHANGED <<txBuffer, slice, raced>>
    BY <1>5 DEF SubscribeTo, Unsubscribe, Ack, AckMalformed, Nack, Disconnect, Receive,
                txVars, clientVars
  <2> QED
    BY <1>5, <2>1, LeavesRace, ReceiveLeaves
<1> QED
  BY <1>2, <1>4, <1>5 DEF ReceiveStep

\* startTx, bufferTxMessage, foreachTx and dropTx.
LEMMA TransactionRace ==
    ASSUME TypeInv, RaceInv, NEW s \in Sessions, TransactionStep(s), UNCHANGED raced
    PROVE  RaceInv'
<1>1. /\ pc \in [Sessions -> Labels] /\ arg \in [Sessions -> Frame]
      /\ slice \in [Sessions -> Seq(Frame)] /\ txBuffer \in [TxIDs -> Seq(Frame) \cup {Nil}]
      /\ arg[s].tx \in TxIDs \cup {Empty}
  BY FrameFields DEF TypeInv, TypeOK, ProcTypeOK, TxTypeOK
<1>2. ASSUME Return(s) \/ Fail(s)
      PROVE  /\ \A u \in Sessions \ {s} : pc'[u] = pc[u] /\ arg'[u] = arg[u]
             /\ pc'[s] \notin NamesTransaction /\ arg'[s].tx \in {Empty, arg[s].tx}
             /\ FoundOf(s)'
  BY <1>2, ReturnLeaves DEF Leaves, TxLabels, NamesTransaction, FoundOf
<1>3. \A u \in Sessions \ {s} : arg[u].tx \notin raced \cup {Empty} => arg[u].tx # arg[s].tx
  BY DEF RaceInv, RaceOK
<1>4. CASE /\ UNCHANGED txVars
           /\ \/ Fail(s) \/ Return(s)
              \/ StartTxCheck(s) \/ BufferTxCheck(s) \/ ForeachTxCheck(s) \/ DropTxCheck(s)
  <2>1. UNCHANGED <<txBuffer, slice>>
    BY <1>4 DEF txVars
  <2>2. CASE Fail(s) \/ Return(s)
    BY <1>2, <2>1, <2>2, RaceMoves
  <2>3. CASE ~(Fail(s) \/ Return(s))
    <3>1. PICK l \in {"beg2", "buf2", "com2", "abt2"} :
            /\ Continue(s, l)
            /\ l = "beg2" => arg[s].tx # Empty /\ Absent(arg[s].tx)
            /\ l # "beg2" => ~Absent(arg[s].tx)
      BY <1>4, <2>3 DEF StartTxCheck, BufferTxCheck, ForeachTxCheck, DropTxCheck
    <3>2. arg[s].tx \in TxIDs \ {Empty}
      BY <1>1, <3>1 DEF Absent
    <3>3. pc'[s] = l /\ arg' = arg /\ \A u \in Sessions \ {s} : pc'[u] = pc[u]
      BY <3>1, ContinueMoves
    <3>4. FoundOf(s)'
      BY <2>1, <3>1, <3>2, <3>3 DEF FoundOf, Absent
    <3> QED
      BY <2>1, <3>3, <3>4, RaceStep
  <2> QED
    BY <2>2, <2>3
<1>5. CASE StartTxStore(s) \/ DropTxDelete(s)
  <2>1. /\ Return(s) /\ UNCHANGED slice
        /\ \E v : txBuffer' = [txBuffer EXCEPT ![arg[s].tx] = v]
    BY <1>5 DEF StartTxStore, DropTxDelete
  <2>2. \A t \in TxIDs \ {arg[s].tx} : txBuffer'[t] = txBuffer[t]
    BY <1>1, <2>1
  <2>3. \A u \in Sessions : arg[u].tx \in TxIDs \cup {Empty}
    BY <1>1, FrameFields
  <2> QED
    BY <1>2, <1>3, <2>1, <2>2, <2>3, RaceStep
<1>6. CASE BufferTxRead(s) \/ ForeachTxRead(s)
  <2>1. PICK l \in {"buf3", "foreach"} :
          /\ Continue(s, l) /\ UNCHANGED txBuffer
          /\ slice' = [slice EXCEPT ![s] = Frames(arg[s].tx)]
          /\ l = "buf3" => pc[s] = "buf2"
    BY <1>6 DEF BufferTxRead, ForeachTxRead
  <2>2. pc'[s] = l /\ arg' = arg /\ \A u \in Sessions \ {s} : pc'[u] = pc[u]
    BY <2>1, ContinueMoves
  <2>3. /\ slice'[s] = Frames(arg[s].tx)
        /\ \A u \in Sessions \ {s} : slice'[u] = slice[u]
    BY <1>1, <2>1
  <2>4. FoundOf(s)'
    BY <2>1, <2>2, <2>3 DEF FoundOf, Frames, NamesTransaction, RaceInv, FoundOK
  <2> QED
    BY <2>1, <2>2, <2>3, <2>4, RaceStep
<1>7. CASE BufferTxStore(s)
  <2>1. /\ Return(s) /\ txBuffer' = [txBuffer EXCEPT ![arg[s].tx] = Append(slice[s], arg[s])]
    BY <1>7 DEF BufferTxStore
  <2>2. \A u \in Sessions \ {s} : slice'[u] = slice[u] \/ arg[u].tx = arg[s].tx
    BY <1>1, <1>7, BufferTxStoreSlices DEF TypeInv, TypeOK
  <2>3. \A t \in TxIDs \ {arg[s].tx} : txBuffer'[t] = txBuffer[t]
    BY <1>1, <2>1
  <2>4. \A u \in Sessions : arg[u].tx \in TxIDs \cup {Empty}
    BY <1>1, FrameFields
  <2> QED
    BY <1>2, <1>3, <2>1, <2>2, <2>3, <2>4, RaceStep
<1>8. CASE ForeachTxNext(s)
  <2>1. /\ Goto(s, "pub") /\ UNCHANGED <<arg, txBuffer>>
        /\ slice' = [slice EXCEPT ![s] = Tail(@)]
    BY <1>8 DEF ForeachTxNext
  <2>2. /\ pc'[s] = "pub" /\ \A u \in Sessions \ {s} : pc'[u] = pc[u] /\ slice'[u] = slice[u]
    BY <1>1, <2>1 DEF Goto
  <2> QED
    BY <2>1, <2>2, RaceMoves DEF NamesTransaction
<1> QED
  BY <1>4, <1>5, <1>6, <1>7, <1>8 DEF TransactionStep, StartTxCheck, BufferTxCheck,
     ForeachTxCheck, ForeachTxLast, DropTxCheck

LEMMA RaceNext ==
    ASSUME TypeInv, RaceInv, [Next]_vars
    PROVE  RaceInv'
<1>1. CASE UNCHANGED vars
  BY <1>1, RaceStill DEF vars, procVars, txVars, clientVars
<1>2. CASE Next
  <2>1. PICK s \in Sessions :
          \/ ReceiveStep(s)
          \/ SessionStep(s) /\ UNCHANGED <<subVars, txVars, clientVars>>
          \/ SubscribeStep(s) /\ UNCHANGED <<sessVars, txVars, clientVars>>
          \/ TransactionStep(s) /\ UNCHANGED <<sessVars, subVars, clientVars>>
          \/ \E t \in Sessions : MapFault(s, t)
    BY <1>2 DEF Next
  <2>2. CASE ReceiveStep(s)
    BY <2>2, ReceiveRace
  <2>3. CASE SessionStep(s) /\ UNCHANGED <<subVars, txVars, clientVars>>
    BY <2>3, SessionMoves, LeavesRace DEF txVars, clientVars
  <2>4. CASE TransactionStep(s) /\ UNCHANGED <<sessVars, subVars, clientVars>>
    BY <2>4, TransactionRace DEF clientVars
  <2>5. CASE \E t \in Sessions : MapFault(s, t)
    BY <2>5, RaceStill DEF MapFault, Panic, txVars, clientVars
  <2>6. CASE SubscribeStep(s) /\ UNCHANGED <<sessVars, txVars, clientVars>>
    <3>1. UNCHANGED <<txBuffer, slice, raced>>
      BY <2>6 DEF txVars, clientVars
    <3>2. CASE RegistryStep(s) \/ AddInsert(s) \/ AckApply(s)
      BY <3>1, <3>2, RegistryMoves, LeavesRace
    <3>3. CASE \E p \in Addr : PublishNext(s, p) \/ SendStep(s, p)
      BY <3>1, <3>3, RaceStill DEF PublishNext, SendStep, SendLock, SendWrite, SendDone,
                                   SendFails, procVars
    <3>4. CASE PublishRange(s) \/ PublishWait(s)
      <4>1. CASE Return(s) \/ Fail(s)
        BY <3>1, <4>1, ReturnLeaves, LeavesRace
      <4>2. CASE \E l \in {"wait", "foreach"} : Continue(s, l)
        BY <3>1, <4>2, ContinueMoves, RaceMoves DEF NamesTransaction
      <4> QED
        BY <3>4, <4>1, <4>2 DEF PublishRange, PublishWait
    <3> QED
      BY <2>6, <3>2, <3>3, <3>4 DEF SubscribeStep, HandlerStep, RegistryStep
  <2> QED
    BY <2>1, <2>2, <2>3, <2>4, <2>5, <2>6
<1> QED
  BY <1>1, <1>2

LEMMA RaceInvInit == Init => RaceInv
<1> SUFFICES ASSUME Init PROVE RaceInv
  OBVIOUS
<1>1. \A s \in Sessions : pc[s] = "none" /\ arg[s] = Blank(s, 0) /\ arg[s].tx = Empty
  BY BlankFields DEF Init, ProcInit
<1> QED
  BY <1>1 DEF RaceInv, RaceOK, FoundOK, FoundOf, NamesTransaction

LEMMA RaceInvariant == Spec => []RaceInv
<1>1. Init => RaceInv
  BY RaceInvInit
<1>2. TypeInv /\ RaceInv /\ [Next]_vars => RaceInv'
  BY RaceNext
<1> QED
  BY <1>1, <1>2, TypeInvariant, PTL DEF Spec

\* Whatever clients send, in whichever sessions' frames a transaction is named: the
\* unlocked check, read and store of bufferTxMessage() lose a frame, and startTx() wipes
\* one, only of a transaction two calls for which have overlapped.
THEOREM BufferLosesNothing == Spec => TxBufferSteps
<1> DEFINE Step(t) ==
      \/ txBuffer'[t] \in {txBuffer[t], Nil}
      \/ txBuffer[t] = Nil /\ txBuffer'[t] = <<>>
      \/ /\ txBuffer[t] # Nil
         /\ Len(txBuffer'[t]) = Len(txBuffer[t]) + 1
         /\ \A k \in 1 .. Len(txBuffer[t]) : txBuffer'[t][k] = txBuffer[t][k]
<1>1. TypeInv /\ RaceInv /\ [Next]_vars => [\A t \in TxIDs \ raced' : Step(t)]_vars
  <2>1. SUFFICES ASSUME TypeInv, RaceInv, Next, NEW t \in TxIDs \ raced' PROVE Step(t)
    OBVIOUS
  <2>2. CASE UNCHANGED txBuffer
    BY <2>2
  <2>3. CASE ~UNCHANGED txBuffer
    <3>1. PICK s \in Sessions :
            /\ StartTxStore(s) \/ BufferTxStore(s) \/ DropTxDelete(s)
            /\ UNCHANGED raced
      <4>0. PICK s \in Sessions :
              \/ ReceiveStep(s) \/ UNCHANGED txVars
              \/ TransactionStep(s) /\ UNCHANGED clientVars
              \/ \E u \in Sessions : MapFault(s, u)
        BY <2>1 DEF Next
      <4>1. \/ TransactionStep(s) /\ UNCHANGED clientVars
            \/ UNCHANGED txVars
        BY <4>0 DEF ReceiveStep, Send, SubscribeTo, Unsubscribe, Ack, AckMalformed,
                    Nack, Begin, Commit, Abort, EndTx, Disconnect, Receive, MapFault
      <4> QED
        BY <2>3, <4>1 DEF TransactionStep, StartTxCheck, BufferTxCheck, BufferTxRead,
             ForeachTxCheck, ForeachTxRead, ForeachTxNext, ForeachTxLast, DropTxCheck, txVars,
             clientVars
    <3>2. txBuffer \in [TxIDs -> Seq(Frame) \cup {Nil}]
      BY <2>1 DEF TypeInv, TypeOK, TxTypeOK
    <3>3. CASE arg[s].tx # t
      BY <3>1, <3>2, <3>3 DEF StartTxStore, BufferTxStore, DropTxDelete
    <3>4. CASE arg[s].tx = t /\ StartTxStore(s)
      <4>1. txBuffer[t] = Nil
        BY <2>1, <3>1, <3>4 DEF RaceInv, FoundOK, FoundOf, StartTxStore
      <4> QED
        BY <3>2, <3>4, <4>1 DEF StartTxStore
    <3>5. CASE arg[s].tx = t /\ DropTxDelete(s)
      BY <3>2, <3>5 DEF DropTxDelete
    <3>6. CASE arg[s].tx = t /\ BufferTxStore(s)
      <4>1. txBuffer[t] # Nil /\ slice[s] = txBuffer[t]
        BY <2>1, <3>1, <3>6 DEF RaceInv, FoundOK, FoundOf, BufferTxStore
      <4>2. txBuffer'[t] = Append(txBuffer[t], arg[s])
        BY <3>2, <3>6, <4>1 DEF BufferTxStore
      <4>3. txBuffer[t] \in Seq(Frame) /\ arg[s] \in Frame
        BY <2>1, <3>2, <4>1, TxTypes
      <4>4. /\ Len(txBuffer'[t]) = Len(txBuffer[t]) + 1
            /\ \A k \in 1 .. Len(txBuffer[t]) : txBuffer'[t][k] = txBuffer[t][k]
        BY <4>2, <4>3
      <4> QED
        BY <4>1, <4>4
    <3> QED
      BY <3>1, <3>3, <3>4, <3>5, <3>6
  <2> QED
    BY <2>2, <2>3
<1> QED
  BY <1>1, TypeInvariant, RaceInvariant, PTL DEF Spec, TxBufferSteps

----------------------------------------------------------------------------
\* Sessions at rest while s takes a step.

\* The frames that u has read from a slice that another call overwrote: as many, and of
\* the same transaction.
Overwritten(u) ==
    /\ arg[u].tx \in raced
    /\ Len(slice'[u]) = Len(slice[u])
    /\ \A k \in 1 .. Len(slice[u]) : slice'[u][k].tx \in {slice[u][k].tx, arg[u].tx}

\* Every session but s stays where it is.
Others(s) ==
    \A u \in Sessions \ {s} : /\ pc'[u] = pc[u] /\ arg'[u] = arg[u] /\ msg'[u] = msg[u]
                              /\ slice'[u] = slice[u] \/ Overwritten(u)

\* Transactions that were begun or committed stay so.
TxKept ==
    /\ raced \subseteq raced'
    /\ \A t \in TxIDs : /\ begun[t] \in Sessions => begun'[t] = begun[t]
                        /\ txEnd[t] = "COMMIT" => txEnd'[t] = "COMMIT"

\* No call of publish() but one that s begins gets more to do.
NoMoreToSend(s) ==
    \A u \in Sessions \ {s}, p \in Addr :
        gor'[u][p] \in {"due", "start", "locked"} => gor[u][p] \in {"due", "start", "locked"}

LEMMA OthersKept ==
    ASSUME OwnerOK, SliceOK, NEW s \in Sessions, Others(s), TxKept,
           OwnerOf(s)', SliceOf(s)'
    PROVE  OwnerOK' /\ SliceOK'
<1>1. SUFFICES ASSUME NEW u \in Sessions \ {s}
               PROVE  OwnerOf(u)' /\ SliceOf(u)'
  BY DEF OwnerOK, SliceOK
<1>2. /\ OwnerOf(u) /\ SliceOf(u)
      /\ pc'[u] = pc[u] /\ arg'[u] = arg[u] /\ msg'[u] = msg[u]
      /\ slice'[u] = slice[u] \/ Overwritten(u)
  BY DEF OwnerOK, SliceOK, Others
<1>3. OwnerOf(u)'
  BY <1>2 DEF OwnerOf, TxKept
<1>4. CASE slice'[u] = slice[u]
  <2>1. SliceOf(u)'
    BY <1>2, <1>4 DEF SliceOf, InOrder, Committing, TxKept
  <2> QED
    BY <1>3, <2>1
<1>5. CASE Overwritten(u)
  <2>1. arg'[u].tx \in raced'
    BY <1>2, <1>5 DEF Overwritten, TxKept
  <2>2. pc[u] = "buf3" \/ Committing(u) =>
          \A k \in 1 .. Len(slice'[u]) : slice'[u][k].tx = arg'[u].tx
    BY <1>2, <1>5 DEF Overwritten, SliceOf
  <2>3. SliceOf(u)'
    BY <1>2, <2>1, <2>2 DEF SliceOf, Committing
  <2> QED
    BY <1>3, <2>3
<1> QED
  BY <1>2, <1>4, <1>5

\* The buffers stay in order while the frames of s are numbered on.
LEMMA BufferKept ==
    ASSUME TypeInv, BufferOK, NEW s \in Sessions, Others(s), TxKept,
           UNCHANGED txBuffer,
           arg'[s].no \in Nat, arg[s].no =< arg'[s].no,
           pc'[s] \in BufLabels => pc[s] \in BufLabels \/ arg[s].no < arg'[s].no
    PROVE  BufferOK'
<1>1. SUFFICES ASSUME NEW t \in TxIDs, txBuffer[t] # Nil
               PROVE  BufferOf(t)'
  BY DEF BufferOK, BufferOf
<1>2. BufferOf(t) /\ (t \notin raced' => t \notin raced)
  BY DEF BufferOK, TxKept
<1>3. /\ \A k \in 1 .. Len(txBuffer[t]) : txBuffer[t][k].no \in Nat
      /\ arg[s].no \in Nat
  BY <1>1, TxTypes
<1>4. ASSUME NEW k \in 1 .. Len(txBuffer[t]), NEW b \in Sessions, txBuffer[t][k].from = b,
             t \notin raced'
      PROVE  /\ txBuffer[t][k].no =< arg'[b].no
             /\ pc'[b] \in BufLabels => txBuffer[t][k].no < arg'[b].no
  <2>1. /\ txBuffer[t][k].no =< arg[b].no
        /\ pc[b] \in BufLabels => txBuffer[t][k].no < arg[b].no
    BY <1>1, <1>2, <1>4 DEF BufferOf
  <2>2. CASE b = s
    <3> DEFINE n == txBuffer[t][k].no
    <3>1. n \in Nat /\ arg[s].no \in Nat /\ n =< arg[s].no
      BY <1>3, <2>1, <2>2
    <3>2. pc[s] \in BufLabels => n < arg[s].no
      BY <2>1, <2>2
    <3> HIDE DEF n
    <3>3. n =< arg'[s].no
      BY <3>1
    <3>4. pc'[s] \in BufLabels => n < arg'[s].no
      <4>1. n < arg[s].no => n < arg'[s].no
        BY <3>1
      <4>2. arg[s].no < arg'[s].no => n < arg'[s].no
        BY <3>1
      <4> QED
        BY <3>2, <4>1, <4>2
    <3> QED
      BY <2>2, <3>3, <3>4 DEF n
  <2>3. CASE b # s
    BY <2>1, <2>3 DEF Others
  <2> QED
    BY <2>2, <2>3
<1> QED
  BY <1>1, <1>2, <1>4 DEF BufferOf, InOrder

\* Entries of the logs: those of s are looked at by the caller.
LEMMA EntriesKept ==
    ASSUME TypeInv, EntriesOK, NEW s \in Sessions, Others(s), NoMoreToSend(s), TxKept,
           UNCHANGED log,
           \A p \in Addr : \A k \in 1 .. Len(log[p]) :
               /\ log[p][k].by = s => PlainEntry(log[p][k].msg, s, p)'
               /\ TxEntry(log[p][k].msg, s, p)'
    PROVE  EntriesOK'
<1>1. SUFFICES ASSUME NEW p \in Addr, NEW k \in 1 .. Len(log[p]), NEW u \in Sessions \ {s}
               PROVE  /\ log[p][k].by = u => PlainEntry(log[p][k].msg, u, p)'
                      /\ TxEntry(log[p][k].msg, u, p)'
  <2>1. \A p \in Addr : \A k \in 1 .. Len(log[p]) :
          /\ PlainEntry(log[p][k].msg, log[p][k].by, p)'
          /\ \A u \in Sessions : TxEntry(log[p][k].msg, u, p)'
    BY <1>1, LogTypes
  <2> QED
    BY <2>1 DEF EntriesOK
<1> DEFINE m == log[p][k].msg
<1>2. /\ pc'[u] = pc[u] /\ arg'[u] = arg[u] /\ msg'[u] = msg[u]
      /\ slice'[u] = slice[u] \/ Overwritten(u)
      /\ YetToSend(u, p)' => YetToSend(u, p)
  BY DEF Others, NoMoreToSend, YetToSend
<1>3. log[p][k].by = u => PlainEntry(m, u, p)
  BY DEF EntriesOK
<1>4. TxEntry(m, u, p)
  BY DEF EntriesOK
<1>5. m' = m
  OBVIOUS
<1>6. m.tx # Empty => m.tx \in TxIDs
  BY TxTypes
<1>7. arg[u].tx \notin raced' => slice'[u] = slice[u] /\ arg[u].tx \notin raced
  BY <1>2 DEF Overwritten, TxKept
<1> HIDE DEF m
<1>8. log[p][k].by = u => PlainEntry(m, u, p)'
  BY <1>2, <1>3, <1>5 DEF PlainEntry
<1>9. TxEntry(m, u, p)'
  BY <1>2, <1>4, <1>5, <1>6, <1>7 DEF TxEntry, TxKept
<1> QED
  BY <1>5, <1>8, <1>9 DEF m

----------------------------------------------------------------------------
\* The steps of s that end anywhere but in a COMMIT or in publish().

LEMMA TxElsewhere ==
    ASSUME TypeInv, TxInv, NEW s \in Sessions,
           Others(s), TxKept, NoMoreToSend(s), UNCHANGED log,
           BufferOK', SliceOf(s)',
           pc'[s] \notin {"com1", "com2", "foreach", "pub", "wait"},
           arg'[s].cmd # "COMMIT", arg'[s].from = s,
           arg'[s].no \in Nat, arg[s].no =< arg'[s].no,
           \A p \in Addr : gor'[s][p] = "none"
    PROVE  TxInv'
<1>1. OwnerOf(s)'
  BY DEF OwnerOf
<1>2. OwnerOK' /\ SliceOK'
  BY <1>1, OthersKept DEF TxInv
<1>3. ASSUME NEW p \in Addr, NEW k \in 1 .. Len(log[p])
      PROVE  /\ log[p][k].by = s => PlainEntry(log[p][k].msg, s, p)'
             /\ TxEntry(log[p][k].msg, s, p)'
  <2> DEFINE m == log[p][k].msg
  <2>1. m' = m /\ m.no \in Nat /\ (m.tx # Empty => m.tx \in TxIDs) /\ arg[s].no \in Nat
    BY TxTypes
  <2>2. /\ log[p][k].by = s => PlainEntry(m, s, p)
        /\ TxEntry(m, s, p)
    BY DEF TxInv, EntriesOK
  <2>3. ~YetToSend(s, p)'
    BY DEF YetToSend
  <2> HIDE DEF m
  <2>4. log[p][k].by = s => PlainEntry(m, s, p)'
    BY <2>1, <2>2, <2>3 DEF PlainEntry
  <2>5. TxEntry(m, s, p)'
    BY <2>1, <2>2 DEF TxEntry, TxKept
  <2> QED
    BY <2>1, <2>4, <2>5 DEF m
<1>4. EntriesOK'
  BY <1>3, EntriesKept DEF TxInv
<1>5. SenderOrder'
  BY DEF TxInv, SenderOrder, TxKept
<1> QED
  BY <1>2, <1>4, <1>5 DEF TxInv

\* The handler of s is left, or goes on with what has nothing to do with a transaction.
LEMMA LeavesKeeps ==
    ASSUME TypeInv, TxInv, IdleOK', NEW s \in Sessions, Leaves(s), NoMoreToSend(s),
           UNCHANGED <<txVars, begun, txEnd, raced, log>>
    PROVE  TxInv'
<1>1. Others(s) /\ TxKept /\ UNCHANGED <<txBuffer, slice, begun, txEnd, log>>
  BY DEF Leaves, Others, TxKept, txVars
<1>2. BufferOK'
  BY <1>1, BufferKept DEF TxInv, Leaves, BufLabels, TxLabels
<1>3. arg'[s].cmd # "COMMIT" /\ arg'[s].from = s
  BY DEF TxInv, OwnerOK, OwnerOf, Leaves
<1>4. SliceOf(s)'
  BY <1>3 DEF SliceOf, Committing, Leaves, TxLabels
<1>5. \A p \in Addr : gor'[s][p] = "none"
  BY DEF IdleOK, Leaves
<1> QED
  BY <1>1, <1>2, <1>3, <1>4, <1>5, TxElsewhere DEF Leaves, TxLabels

\* Steps that leave every session where it is and send nothing.
LEMMA TxStill ==
    ASSUME TypeInv, TxInv,
           UNCHANGED <<pc, arg, msg, slice, txBuffer, begun, txEnd, raced, log>>,
           \A u \in Sessions, p \in Addr :
               gor'[u][p] \in {"due", "start", "locked"} =>
                   gor[u][p] \in {"due", "start", "locked"}
    PROVE  TxInv'
<1>1. OwnerOK'
  BY DEF TxInv, OwnerOK, OwnerOf
<1>2. SliceOK'
  BY DEF TxInv, SliceOK, SliceOf, Committing, InOrder
<1>3. BufferOK'
  BY DEF TxInv, BufferOK, BufferOf, InOrder
<1>4. SenderOrder'
  BY DEF TxInv, SenderOrder
<1>5. EntriesOK'
  <2>1. SUFFICES ASSUME NEW p \in Addr, NEW k \in 1 .. Len(log[p]), NEW u \in Sessions
                 PROVE  /\ PlainEntry(log[p][k].msg, log[p][k].by, p)'
                        /\ TxEntry(log[p][k].msg, u, p)'
    <3>1. \A p \in Addr : \A k \in 1 .. Len(log[p]) :
            /\ PlainEntry(log[p][k].msg, log[p][k].by, p)'
            /\ \A u \in Sessions : TxEntry(log[p][k].msg, u, p)'
      BY <2>1, LogTypes
    <3> QED
      BY <3>1 DEF EntriesOK
  <2> DEFINE m == log[p][k].msg
  <2>2. /\ PlainEntry(m, log[p][k].by, p) /\ TxEntry(m, u, p)
        /\ log[p][k].by \in Sessions
        /\ m' = m /\ log'[p][k].by = log[p][k].by
    BY TxTypes DEF TxInv, EntriesOK
  <2>3. \A v \in Sessions : YetToSend(v, p)' => YetToSend(v, p)
    BY DEF YetToSend
  <2> HIDE DEF m
  <2>4. PlainEntry(m, log[p][k].by, p)'
    BY <2>2, <2>3 DEF PlainEntry
  <2>5. TxEntry(m, u, p)'
    BY <2>2, <2>3 DEF TxEntry
  <2> QED
    BY <2>2, <2>4, <2>5 DEF m
<1> QED
  BY <1>1, <1>2, <1>3, <1>4, <1>5 DEF TxInv

LEMMA LeavesTx ==
    ASSUME TypeInv, TxInv, IdleOK', NEW s \in Sessions, UNCHANGED <<pc, arg, msg>> \/ Leaves(s),
           UNCHANGED <<txVars, begun, txEnd, raced, log, gor>>
    PROVE  TxInv'
<1>1. NoMoreToSend(s) /\ UNCHANGED <<txBuffer, slice>>
  BY DEF NoMoreToSend, txVars
<1>2. CASE UNCHANGED <<pc, arg, msg>>
  BY <1>1, <1>2, TxStill
<1>3. CASE Leaves(s)
  BY <1>1, <1>3, LeavesKeeps
<1> QED
  BY <1>2, <1>3

----------------------------------------------------------------------------
\* A frame is received.

LEMMA ReceiveMoves ==
    ASSUME TypeInv, IdleOK, NEW s \in Sessions, NEW f, NEW l, Receive(s, f, l)
    PROVE  /\ pc[s] = "idle" /\ pc'[s] = l /\ arg'[s] = f
           /\ l = "pub" => msg'[s] = f
           /\ Others(s) /\ NoMoreToSend(s)
           /\ \A p \in Addr : gor[s][p] = "none" /\ gor'[s][p] = "none"
           /\ UNCHANGED <<txVars, txBuffer, slice, gor, log>>
<1>1. /\ pc[s] = "idle" /\ pc'[s] = l /\ arg'[s] = f
      /\ IF l = "pub" THEN msg'[s] = f ELSE msg' = msg
      /\ \A u \in Sessions \ {s} : pc'[u] = pc[u] /\ arg'[u] = arg[u] /\ msg'[u] = msg[u]
      /\ UNCHANGED <<txVars, txBuffer, slice, gor, log>>
  BY ReceiveLands
<1> QED
  BY <1>1 DEF NoMoreToSend, IdleOK, Others

\* BEGIN, SEND in a transaction, whoever began it, and ABORT.
LEMMA UseTx ==
    ASSUME TypeInv, TxInv, IdleOK, NEW s \in Sessions, NEW f,
           NEW l \in {"beg1", "buf1", "abt1"}, Receive(s, f, l), TxKept,
           f.cmd # "COMMIT", f.from = s, f.no = arg[s].no + 1
    PROVE  TxInv'
<1>1. /\ pc[s] = "idle" /\ pc'[s] = l /\ arg'[s] = f /\ Others(s) /\ NoMoreToSend(s)
      /\ \A p \in Addr : gor'[s][p] = "none"
      /\ UNCHANGED <<txBuffer, slice, log>>
  BY ReceiveMoves
<1>2. arg[s].no \in Nat /\ arg'[s].no = arg[s].no + 1
  BY <1>1, TxTypes
<1>3. arg'[s].no \in Nat /\ arg[s].no < arg'[s].no /\ arg[s].no =< arg'[s].no
  BY <1>2
<1>4. BufferOK'
  BY <1>1, <1>3, BufferKept DEF TxInv
<1>5. SliceOf(s)'
  BY <1>1 DEF SliceOf, Committing
<1> QED
  BY <1>1, <1>3, <1>4, <1>5, TxElsewhere

\* The COMMIT of a transaction: nothing of it has been published yet.
LEMMA CommitTx ==
    ASSUME TypeInv, TxInv, IdleOK, LibraryClients, NEW s \in Sessions, Commit(s)
    PROVE  TxInv'
<1>1. PICK t \in TxIDs \ {Empty} :
        /\ begun[t] = s /\ txEnd[t] = ""
        /\ Receive(s, [NextFrame(s, "COMMIT") EXCEPT !.tx = t], "com1")
        /\ txEnd' = [txEnd EXCEPT ![t] = "COMMIT"]
        /\ UsesTx(s, t) /\ UNCHANGED begun
  BY DEF Commit, EndTx, MayEndTx
<1> DEFINE f == [NextFrame(s, "COMMIT") EXCEPT !.tx = t]
<1>2. f.cmd = "COMMIT" /\ f.from = s /\ f.no = arg[s].no + 1 /\ f.tx = t
  BY NextFields
<1>2a. Receive(s, f, "com1")
  BY <1>1
<1> HIDE DEF f
<1>3. /\ pc[s] = "idle" /\ pc'[s] = "com1" /\ arg'[s] = f /\ Others(s) /\ NoMoreToSend(s)
      /\ \A p \in Addr : gor'[s][p] = "none"
      /\ UNCHANGED <<txBuffer, slice, log>>
  BY <1>2a, ReceiveMoves
<1>4. txEnd'[t] = "COMMIT" /\ \A u \in TxIDs \ {t} : txEnd'[u] = txEnd[u]
  BY <1>1 DEF TypeInv, TypeOK
<1>5. TxKept
  BY <1>1, <1>4 DEF TxKept, UsesTx
<1>6. arg[s].no \in Nat /\ arg'[s].no = arg[s].no + 1
  BY <1>2, <1>3, TxTypes
<1>7. arg'[s].no \in Nat /\ arg[s].no < arg'[s].no /\ arg[s].no =< arg'[s].no
  BY <1>6
<1>8. BufferOK'
  BY <1>3, <1>5, <1>7, BufferKept DEF TxInv
<1>9. OwnerOf(s)' /\ SliceOf(s)'
  BY <1>1, <1>2, <1>3, <1>4 DEF OwnerOf, SliceOf, Committing
<1>10. OwnerOK' /\ SliceOK'
  BY <1>3, <1>5, <1>9, OthersKept DEF TxInv
<1>11. ASSUME NEW p \in Addr, NEW k \in 1 .. Len(log[p])
       PROVE  /\ log[p][k].by = s => PlainEntry(log[p][k].msg, s, p)'
              /\ TxEntry(log[p][k].msg, s, p)'
  <2> DEFINE m == log[p][k].msg
  <2>1. m' = m /\ m.no \in Nat /\ (m.tx # Empty => m.tx \in TxIDs)
    BY <1>3, TxTypes
  <2>2. /\ log[p][k].by = s => PlainEntry(m, s, p)
        /\ TxEntry(m, s, p)
    BY DEF TxInv, EntriesOK
  <2>3. ~YetToSend(s, p)'
    BY <1>3 DEF YetToSend
  <2> HIDE DEF m
  <2>4. log[p][k].by = s => PlainEntry(m, s, p)'
    BY <1>6, <1>7, <2>1, <2>2, <2>3 DEF PlainEntry
  <2>5. TxEntry(m, s, p)'
    <3>1. m.tx # Empty => m.tx \in TxIDs \ {t} /\ txEnd'[m.tx] = "COMMIT"
      BY <1>1, <1>4, <2>1, <2>2 DEF TxEntry
    <3>2. arg'[s].tx = t
      BY <1>2, <1>3
    <3> QED
      BY <2>1, <3>1, <3>2 DEF TxEntry
  <2> QED
    BY <1>3, <2>1, <2>4, <2>5 DEF m
<1>12. EntriesOK'
  BY <1>3, <1>5, <1>11, EntriesKept DEF TxInv
<1>13. SenderOrder'
  BY <1>3, <1>5 DEF TxInv, SenderOrder, TxKept
<1> QED
  BY <1>8, <1>10, <1>12, <1>13 DEF TxInv

\* SEND outside of transactions: the message is later than all of s before.
LEMMA SendPlain ==
    ASSUME TypeInv, TxInv, IdleOK, NEW s \in Sessions, NEW f, Receive(s, f, "pub"),
           f.cmd # "COMMIT", f.from = s, f.no = arg[s].no + 1, f.tx = Empty, TxKept
    PROVE  TxInv'
<1>1. /\ pc[s] = "idle" /\ pc'[s] = "pub" /\ arg'[s] = f /\ msg'[s] = f
      /\ Others(s) /\ NoMoreToSend(s)
      /\ UNCHANGED <<txBuffer, slice, log>>
  BY ReceiveMoves
<1>2. arg[s].no \in Nat /\ arg'[s].no = arg[s].no + 1 /\ msg'[s].no = arg[s].no + 1
  BY <1>1, TxTypes
<1>3. arg'[s].no \in Nat /\ arg[s].no < arg'[s].no /\ arg[s].no =< arg'[s].no
  BY <1>2
<1>4. BufferOK'
  BY <1>1, <1>3, BufferKept DEF TxInv
<1>5. OwnerOf(s)' /\ SliceOf(s)'
  BY <1>1 DEF OwnerOf, SliceOf, Committing
<1>6. OwnerOK' /\ SliceOK'
  BY <1>1, <1>5, OthersKept DEF TxInv
<1>7. ASSUME NEW p \in Addr, NEW k \in 1 .. Len(log[p])
      PROVE  /\ log[p][k].by = s => PlainEntry(log[p][k].msg, s, p)'
             /\ TxEntry(log[p][k].msg, s, p)'
  <2> DEFINE m == log[p][k].msg
  <2>1. m' = m /\ m.no \in Nat /\ (m.tx # Empty => m.tx \in TxIDs)
    BY <1>1, TxTypes
  <2>2. /\ log[p][k].by = s => PlainEntry(m, s, p)
        /\ TxEntry(m, s, p)
    BY DEF TxInv, EntriesOK
  <2> HIDE DEF m
  <2>3. log[p][k].by = s => PlainEntry(m, s, p)'
    BY <1>2, <1>3, <2>1, <2>2 DEF PlainEntry
  <2>4. TxEntry(m, s, p)'
    BY <1>1, <2>1, <2>2 DEF TxEntry, TxKept
  <2> QED
    BY <1>1, <2>1, <2>3, <2>4 DEF m
<1>8. EntriesOK'
  BY <1>1, <1>7, EntriesKept DEF TxInv
<1>9. SenderOrder'
  BY <1>1 DEF TxInv, SenderOrder, TxKept
<1> QED
  BY <1>4, <1>6, <1>8, <1>9 DEF TxInv

LEMMA ReceiveTx ==
    ASSUME TypeInv, TxInv, IdleOK, IdleOK', LibraryClients, NEW s \in Sessions, ReceiveStep(s)
    PROVE  TxInv'
<1>1. CASE Send(s)
  <2>1. PICK d \in Dests \cup {Empty}, t \in TxIDs \cup {Empty} :
          /\ Receive(s, [NextFrame(s, "SEND") EXCEPT !.dest = d, !.tx = t],
                     IF t # Empty THEN "buf1" ELSE "pub")
          /\ UsesTx(s, t) /\ UNCHANGED <<begun, txEnd>>
    BY <1>1 DEF Send
  <2> DEFINE f == [NextFrame(s, "SEND") EXCEPT !.dest = d, !.tx = t]
  <2>2. f.cmd = "SEND" /\ f.from = s /\ f.no = arg[s].no + 1 /\ f.tx = t
    BY NextFields
  <2>3. TxKept
    BY <2>1 DEF TxKept, UsesTx
  <2>4. Receive(s, f, IF t # Empty THEN "buf1" ELSE "pub")
    BY <2>1
  <2> HIDE DEF f
  <2>6. CASE t = Empty
    BY <2>2, <2>3, <2>4, <2>6, SendPlain
  <2>7. CASE t # Empty
    <3>1. Receive(s, f, "buf1")
      BY <2>4, <2>7
    <3> QED
      BY <2>2, <2>3, <3>1, UseTx
  <2> QED
    BY <2>6, <2>7
<1>2. CASE Begin(s)
  <2>1. PICK t \in TxIDs \ {Empty} :
          /\ begun[t] = Nil
          /\ Receive(s, [NextFrame(s, "BEGIN") EXCEPT !.tx = t], "beg1")
          /\ begun' = [begun EXCEPT ![t] = IF @ = Nil THEN s ELSE @]
          /\ UsesTx(s, t) /\ UNCHANGED txEnd
    BY <1>2 DEF Begin, MayBegin
  <2> DEFINE f == [NextFrame(s, "BEGIN") EXCEPT !.tx = t]
  <2>2. f.cmd = "BEGIN" /\ f.from = s /\ f.no = arg[s].no + 1
    BY NextFields
  <2>3. Receive(s, f, "beg1")
    BY <2>1
  <2>4. \A u \in TxIDs \ {t} : begun'[u] = begun[u]
    BY <2>1 DEF TypeInv, TypeOK
  <2>5. TxKept
    BY <2>1, <2>4, ProcessAssumption DEF TxKept, UsesTx
  <2> HIDE DEF f
  <2> QED
    BY <2>2, <2>3, <2>5, UseTx
<1>3. CASE Abort(s)
  <2>1. PICK t \in TxIDs \ {Empty} :
          /\ begun[t] = s /\ txEnd[t] = ""
          /\ Receive(s, [NextFrame(s, "ABORT") EXCEPT !.tx = t], "abt1")
          /\ txEnd' = [txEnd EXCEPT ![t] = "ABORT"]
          /\ UsesTx(s, t) /\ UNCHANGED begun
    BY <1>3 DEF Abort, EndTx, MayEndTx
  <2> DEFINE f == [NextFrame(s, "ABORT") EXCEPT !.tx = t]
  <2>2. f.cmd = "ABORT" /\ f.from = s /\ f.no = arg[s].no + 1
    BY NextFields
  <2>3. Receive(s, f, "abt1")
    BY <2>1
  <2>4. \A u \in TxIDs \ {t} : txEnd'[u] = txEnd[u]
    BY <2>1 DEF TypeInv, TypeOK
  <2>5. TxKept
    BY <2>1, <2>4 DEF TxKept, UsesTx
  <2> HIDE DEF f
  <2> QED
    BY <2>2, <2>3, <2>5, UseTx
<1>4. CASE \/ SubscribeTo(s) \/ Unsubscribe(s) \/ Ack(s) \/ AckMalformed(s) \/ Nack(s)
           \/ Disconnect(s)
  <2>1. UNCHANGED <<txVars, begun, txEnd, raced, log, gor>>
    BY <1>4 DEF SubscribeTo, Unsubscribe, Ack, AckMalformed, Nack, Disconnect, Receive,
                subVars, pubVars, txVars, clientVars
  <2> QED
    BY <1>4, <2>1, LeavesTx, ReceiveLeaves
<1> QED
  BY <1>1, <1>2, <1>3, <1>4, CommitTx DEF ReceiveStep

----------------------------------------------------------------------------
\* BEGIN, SEND in a transaction and ABORT: the buffer.

\* A session at work on a transaction, other than in the loop of a COMMIT.
LEMMA AtTx ==
    ASSUME TypeInv, TxInv, IdleOK, NEW s \in Sessions, pc[s] \in TxLabels
    PROVE  /\ arg[s].from = s
           /\ \A p \in Addr : gor[s][p] = "none"
           /\ pc[s] \notin {"com1", "com2"} => arg[s].cmd # "COMMIT"
           /\ pc[s] \in {"com1", "com2"} => arg[s].cmd = "COMMIT"
           /\ arg[s].no \in Nat
BY TxTypes DEF TxInv, OwnerOK, OwnerOf, IdleOK, TxLabels

\* A check is followed by the next step of the same handler.
LEMMA TxContinues ==
    ASSUME TypeInv, TxInv, IdleOK, NEW s \in Sessions,
           pc[s] \in TxLabels \ {"com1", "com2"},
           NEW l \in TxLabels \ {"com1", "com2"}, Continue(s, l),
           l \in BufLabels => pc[s] \in BufLabels, SliceOf(s)',
           \A u \in Sessions \ {s} : slice'[u] = slice[u],
           UNCHANGED <<txBuffer, begun, txEnd, raced, log, gor>>
    PROVE  TxInv'
<1>1. /\ pc'[s] = l /\ arg' = arg /\ msg' = msg
      /\ \A u \in Sessions \ {s} : pc'[u] = pc[u]
  BY ContinueMoves
<1>2. /\ arg[s].from = s /\ \A p \in Addr : gor[s][p] = "none"
      /\ arg[s].cmd # "COMMIT" /\ arg[s].no \in Nat
  BY AtTx
<1>3. Others(s) /\ TxKept /\ NoMoreToSend(s)
  BY <1>1 DEF Others, TxKept, NoMoreToSend
<1>4. arg'[s].no \in Nat /\ arg[s].no =< arg'[s].no
  BY <1>1, <1>2
<1>5. BufferOK'
  BY <1>1, <1>3, <1>4, BufferKept DEF TxInv
<1> QED
  BY <1>1, <1>2, <1>3, <1>4, <1>5, TxElsewhere DEF TxLabels

\* The handler is left after a change of its transaction's buffer.
LEMMA TxStores ==
    ASSUME TypeInv, TxInv, IdleOK, IdleOK', NEW s \in Sessions,
           pc[s] \in TxLabels \ {"com1", "com2"}, Return(s), NEW v,
           arg[s].tx \in TxIDs, txBuffer' = [txBuffer EXCEPT ![arg[s].tx] = v],
           \A u \in Sessions \ {s} : slice'[u] = slice[u] \/ Overwritten(u),
           UNCHANGED <<begun, txEnd, raced, log, gor>>,
           v # Nil =>
               /\ \A k \in 1 .. Len(v) : v[k].tx = arg[s].tx
               /\ arg[s].tx \notin raced =>
                     /\ InOrder(v)
                     /\ \A k \in 1 .. Len(v) : \A b \in Sessions : v[k].from = b =>
                           /\ v[k].no =< arg[b].no
                           /\ b # s /\ pc[b] \in BufLabels => v[k].no < arg[b].no
    PROVE  TxInv'
<1>1. PICK t \in TxIDs : t = arg[s].tx
  OBVIOUS
<1>2. Leaves(s) /\ pc'[s] = "idle" /\ arg'[s].no = arg[s].no /\ arg[s].no \in Nat
  <2>1. arg'[s] = Blank(s, arg[s].no) /\ pc'[s] = "idle"
    BY DEF Return, Goto, TypeInv, TypeOK, ProcTypeOK
  <2> QED
    BY <2>1, ReturnLeaves, BlankFields, TxTypes
<1>3. Others(s) /\ NoMoreToSend(s) /\ TxKept
  BY <1>2 DEF Leaves, Others, NoMoreToSend, TxKept
<1>4. txBuffer'[t] = v /\ \A u \in TxIDs \ {t} : txBuffer'[u] = txBuffer[u]
  BY <1>1 DEF TypeInv, TypeOK, TxTypeOK
<1>5. /\ \A b \in Sessions : arg'[b].no = arg[b].no
      /\ \A b \in Sessions : pc'[b] \in BufLabels => b # s /\ pc[b] \in BufLabels
  BY <1>2 DEF Leaves, BufLabels
<1>6. BufferOK'
  <2>1. BufferOf(t)'
    BY <1>1, <1>4, <1>5 DEF BufferOf, InOrder
  <2>2. ASSUME NEW u \in TxIDs \ {t} PROVE BufferOf(u)'
    <3>1. BufferOf(u) /\ txBuffer'[u] = txBuffer[u]
      BY <1>4 DEF TxInv, BufferOK
    <3> QED
      BY <1>5, <3>1 DEF BufferOf, InOrder
  <2> QED
    BY <2>1, <2>2 DEF BufferOK
<1>7. arg'[s].cmd # "COMMIT" /\ arg'[s].from = s
  BY <1>2, AtTx DEF Leaves
<1>8. SliceOf(s)'
  BY <1>2, <1>7 DEF SliceOf, Committing
<1>9. \A p \in Addr : gor'[s][p] = "none"
  BY AtTx
<1> QED
  BY <1>2, <1>3, <1>6, <1>7, <1>8, <1>9, TxElsewhere DEF Leaves, TxLabels

\* A frame is buffered after the ones before it.
LEMMA AppendInOrder ==
    ASSUME NEW q \in Seq(Frame), NEW f \in Frame, InOrder(q),
           \A k \in 1 .. Len(q) : q[k].from = f.from => q[k].no < f.no
    PROVE  InOrder(Append(q, f))
<1>1. Len(q) \in Nat /\ Len(Append(q, f)) = Len(q) + 1
  OBVIOUS
<1>2. /\ \A k \in 1 .. Len(q) : Append(q, f)[k] = q[k]
      /\ Append(q, f)[Len(q) + 1] = f
  OBVIOUS
<1>3. SUFFICES ASSUME NEW j \in 1 .. Len(q) + 1, NEW k \in 1 .. Len(q) + 1, j < k,
                      Append(q, f)[j].from = Append(q, f)[k].from
               PROVE  Append(q, f)[j].no < Append(q, f)[k].no
  BY <1>1 DEF InOrder
<1>4. j \in 1 .. Len(q)
  BY <1>1, <1>3
<1>5. CASE k = Len(q) + 1
  BY <1>2, <1>3, <1>4, <1>5
<1>6. CASE k # Len(q) + 1
  <2>1. k \in 1 .. Len(q)
    BY <1>1, <1>6
  <2> QED
    BY <1>2, <1>3, <1>4, <2>1 DEF InOrder
<1> QED
  BY <1>5, <1>6

\* A call whose slice was overwritten was using the same transaction.
LEMMA StoreOverwrites ==
    ASSUME TypeInv, RaceInv, NEW s \in Sessions, BufferTxStore(s)
    PROVE  \A u \in Sessions \ {s} : slice'[u] = slice[u] \/ Overwritten(u)
<1>1. /\ arg[s].tx # Empty /\ TxTypeOK /\ arg[s] \in Frame
  BY TxTypes DEF RaceInv, FoundOK, FoundOf, BufferTxStore, NamesTransaction, TypeInv, TypeOK
<1>2. SUFFICES ASSUME NEW u \in Sessions \ {s}, slice'[u] # slice[u]
               PROVE  Overwritten(u)
  OBVIOUS
<1>3. PICK k \in 1 .. Len(slice[u]) :
        arg[u].tx = arg[s].tx /\ slice'[u] = [slice[u] EXCEPT ![k] = arg[s]]
  BY <1>1, <1>2, BufferTxStoreSlices
<1>4. arg[u].tx \in raced
  BY <1>1, <1>3 DEF RaceInv, RaceOK
<1>5. slice[u] \in Seq(Frame)
  BY TxTypes
<1>6. \A j \in 1 .. Len(slice[u]) :
        slice'[u][j] = IF j = k THEN arg[s] ELSE slice[u][j]
  BY <1>3, <1>5
<1>7. Len(slice'[u]) = Len(slice[u])
  BY <1>3, <1>5
<1> QED
  BY <1>3, <1>4, <1>6, <1>7 DEF Overwritten

LEMMA BufferTxStoreTx ==
    ASSUME TypeInv, RaceInv, TxInv, IdleOK, IdleOK', NEW s \in Sessions, BufferTxStore(s),
           UNCHANGED <<subVars, clientVars>>
    PROVE  TxInv'
<1> DEFINE t == arg[s].tx
           v == Append(slice[s], arg[s])
<1>1. /\ pc[s] = "buf3" /\ pc[s] \in BufLabels /\ pc[s] \in TxLabels \ {"com1", "com2"}
      /\ Return(s) /\ txBuffer' = [txBuffer EXCEPT ![t] = v]
      /\ UNCHANGED <<begun, txEnd, raced, log, gor>>
  BY DEF BufferTxStore, TxLabels, BufLabels, subVars, pubVars, clientVars
<1>2. FoundOf(s) /\ t \in TxIDs
  BY <1>1 DEF RaceInv, FoundOK, FoundOf, NamesTransaction
<1>3. slice[s] \in Seq(Frame) /\ arg[s] \in Frame /\ arg[s].no \in Nat /\ arg[s].from = s
  BY <1>1, TxTypes, AtTx
<1>4. \A k \in 1 .. Len(slice[s]) : slice[s][k].tx = t
  BY <1>1 DEF TxInv, SliceOK, SliceOf
<1>5. /\ Len(v) = Len(slice[s]) + 1 /\ Len(slice[s]) \in Nat
      /\ \A k \in 1 .. Len(slice[s]) : v[k] = slice[s][k]
      /\ v[Len(slice[s]) + 1] = arg[s]
  BY <1>3
<1>6. \A k \in 1 .. Len(v) : k \in 1 .. Len(slice[s]) \/ k = Len(slice[s]) + 1
  BY <1>5
<1>7. ASSUME t \notin raced
      PROVE  /\ InOrder(v)
             /\ \A k \in 1 .. Len(v) : \A b \in Sessions : v[k].from = b =>
                   /\ v[k].no =< arg[b].no
                   /\ b # s /\ pc[b] \in BufLabels => v[k].no < arg[b].no
  <2>1. slice[s] = txBuffer[t] /\ txBuffer[t] # Nil
    BY <1>1, <1>2, <1>7 DEF FoundOf
  <2>2. /\ InOrder(slice[s])
        /\ \A k \in 1 .. Len(slice[s]) : \A b \in Sessions : slice[s][k].from = b =>
              /\ slice[s][k].no =< arg[b].no
              /\ pc[b] \in BufLabels => slice[s][k].no < arg[b].no
    BY <1>2, <1>7, <2>1 DEF TxInv, BufferOK, BufferOf
  <2>3. InOrder(v)
    BY <1>1, <1>3, <2>2, AppendInOrder
  <2>4. arg[s].no =< arg[s].no
    BY <1>3
  <2> HIDE DEF v, t
  <2>5. ASSUME NEW k \in 1 .. Len(v), NEW b \in Sessions, v[k].from = b
        PROVE  /\ v[k].no =< arg[b].no
               /\ b # s /\ pc[b] \in BufLabels => v[k].no < arg[b].no
    <3>1. CASE k \in 1 .. Len(slice[s])
      BY <1>5, <2>2, <2>5, <3>1
    <3>2. CASE k = Len(slice[s]) + 1
      BY <1>3, <1>5, <2>4, <2>5, <3>2
    <3> QED
      BY <1>6, <3>1, <3>2
  <2> QED
    BY <2>3, <2>5
<1> HIDE DEF v
<1>8. \A k \in 1 .. Len(v) : v[k].tx = t
  BY <1>4, <1>5, <1>6
<1> QED
  BY <1>1, <1>2, <1>7, <1>8, StoreOverwrites, TxStores

LEMMA BufferStepTx ==
    ASSUME TypeInv, RaceInv, TxInv, IdleOK, IdleOK', NEW s \in Sessions,
           \/ StartTxCheck(s) \/ StartTxStore(s) \/ BufferTxCheck(s) \/ BufferTxRead(s)
           \/ BufferTxStore(s) \/ DropTxCheck(s) \/ DropTxDelete(s),
           UNCHANGED <<subVars, clientVars>>
    PROVE  TxInv'
<1>1. UNCHANGED <<begun, txEnd, raced, log, gor>>
  BY DEF subVars, pubVars, clientVars
<1>2. CASE StartTxCheck(s) \/ BufferTxCheck(s) \/ DropTxCheck(s)
  <2>1. /\ pc[s] \in TxLabels \ {"com1", "com2"} /\ UNCHANGED <<txVars, txBuffer, slice>>
        /\ \/ Fail(s)
           \/ /\ \E l \in {"beg2", "abt2"} : Continue(s, l)
           \/ pc[s] = "buf1" /\ Continue(s, "buf2")
    BY <1>2 DEF StartTxCheck, BufferTxCheck, DropTxCheck, txVars, TxLabels
  <2>2. CASE Fail(s)
    BY <1>1, <2>1, <2>2, ReturnLeaves, LeavesTx
  <2>3. ASSUME NEW l \in {"beg2", "abt2", "buf2"}, Continue(s, l),
               l = "buf2" => pc[s] = "buf1"
        PROVE  TxInv'
    <3>1. pc'[s] = l /\ arg' = arg
      BY <2>3, ContinueMoves
    <3>2. arg[s].cmd # "COMMIT"
      BY <2>1, AtTx
    <3>3. SliceOf(s)'
      BY <3>1, <3>2 DEF SliceOf, Committing
    <3> QED
      BY <1>1, <2>1, <2>3, <3>3, TxContinues DEF TxLabels, BufLabels
  <2> QED
    BY <2>1, <2>2, <2>3
<1>3. CASE StartTxStore(s)
  <2>1. /\ pc[s] \in TxLabels \ {"com1", "com2"} /\ Return(s) /\ UNCHANGED slice
        /\ txBuffer' = [txBuffer EXCEPT ![arg[s].tx] = <<>>]
        /\ arg[s].tx \in TxIDs
    BY <1>3 DEF StartTxStore, TxLabels, TypeInv, ArgsOK, NamesTransaction
  <2>2. InOrder(<<>>) /\ 1 .. Len(<<>>) = {}
    BY DEF InOrder
  <2> QED
    BY <1>1, <2>1, <2>2, TxStores
<1>4. CASE BufferTxRead(s)
  <2>1. /\ pc[s] = "buf2" /\ pc[s] \in TxLabels \ {"com1", "com2"}
        /\ Continue(s, "buf3") /\ UNCHANGED txBuffer
        /\ slice' = [slice EXCEPT ![s] = Frames(arg[s].tx)]
        /\ arg[s].tx \in TxIDs
    BY <1>4 DEF BufferTxRead, TxLabels, TypeInv, ArgsOK, NamesTransaction
  <2>2. pc'[s] = "buf3" /\ arg' = arg
    BY <2>1, ContinueMoves
  <2>3. /\ slice'[s] = Frames(arg[s].tx)
        /\ \A u \in Sessions \ {s} : slice'[u] = slice[u]
    BY <2>1 DEF TypeInv, TypeOK, TxTypeOK
  <2>4. arg[s].cmd # "COMMIT"
    BY <2>1, AtTx
  <2>5. \A k \in 1 .. Len(slice'[s]) : slice'[s][k].tx = arg[s].tx
    <3>1. CASE txBuffer[arg[s].tx] = Nil
      <4>1. slice'[s] = <<>> /\ 1 .. Len(slice'[s]) = {}
        BY <2>3, <3>1 DEF Frames
      <4> QED
        BY <4>1
    <3>2. CASE txBuffer[arg[s].tx] # Nil
      BY <2>1, <2>3, <3>2 DEF Frames, TxInv, BufferOK, BufferOf
    <3> QED
      BY <3>1, <3>2
  <2>6. SliceOf(s)'
    BY <2>2, <2>4, <2>5 DEF SliceOf, Committing
  <2> QED
    BY <1>1, <2>1, <2>3, <2>6, TxContinues DEF TxLabels, BufLabels
<1>5. CASE BufferTxStore(s)
  BY <1>5, BufferTxStoreTx
<1>6. CASE DropTxDelete(s)
  <2>1. /\ pc[s] \in TxLabels \ {"com1", "com2"} /\ Return(s) /\ UNCHANGED slice
        /\ txBuffer' = [txBuffer EXCEPT ![arg[s].tx] = Nil]
        /\ arg[s].tx \in TxIDs
    BY <1>6 DEF DropTxDelete, TxLabels, TypeInv, ArgsOK, NamesTransaction
  <2> QED
    BY <1>1, <2>1, TxStores
<1> QED
  BY <1>2, <1>3, <1>4, <1>5, <1>6

----------------------------------------------------------------------------
\* COMMIT and publish().

\* A step of the goroutine of s within a COMMIT or a call of publish().
LEMMA TxAdvances ==
    ASSUME TypeInv, TxInv, NEW s \in Sessions, Others(s), NoMoreToSend(s),
           UNCHANGED <<txBuffer, begun, txEnd, raced, log>>,
           arg' = arg, pc'[s] \notin BufLabels,
           OwnerOf(s)', SliceOf(s)',
           \A p \in Addr, m \in Frame : /\ PlainEntry(m, s, p) => PlainEntry(m, s, p)'
                                        /\ TxEntry(m, s, p) => TxEntry(m, s, p)'
    PROVE  TxInv'
<1>1. TxKept
  BY DEF TxKept
<1>2. arg'[s].no \in Nat /\ arg[s].no =< arg'[s].no
  BY TxTypes
<1>3. BufferOK'
  BY <1>1, <1>2, BufferKept DEF TxInv
<1>4. OwnerOK' /\ SliceOK'
  BY <1>1, OthersKept DEF TxInv
<1>5. ASSUME NEW p \in Addr, NEW k \in 1 .. Len(log[p])
      PROVE  /\ log[p][k].by = s => PlainEntry(log[p][k].msg, s, p)'
             /\ TxEntry(log[p][k].msg, s, p)'
  <2>1. PICK m \in Frame : m = log[p][k].msg
    BY TxTypes
  <2>2. /\ log[p][k].by = s => PlainEntry(m, s, p)
        /\ TxEntry(m, s, p)
    BY <2>1 DEF TxInv, EntriesOK
  <2>3. /\ log[p][k].by = s => PlainEntry(m, s, p)'
        /\ TxEntry(m, s, p)'
    BY <2>2
  <2>4. m = log'[p][k].msg
    BY <2>1
  <2> QED
    BY <2>3, <2>4
<1>6. EntriesOK'
  BY <1>1, <1>5, EntriesKept DEF TxInv
<1>7. SenderOrder'
  BY DEF TxInv, SenderOrder
<1> QED
  BY <1>3, <1>4, <1>6, <1>7 DEF TxInv

LEMMA ForeachTxCheckTx ==
    ASSUME TypeInv, TxInv, IdleOK, IdleOK', NEW s \in Sessions, ForeachTxCheck(s),
           UNCHANGED <<subVars, clientVars>>
    PROVE  TxInv'
<1>1. /\ UNCHANGED <<begun, txEnd, raced, log, gor>>
      /\ pc[s] = "com1" /\ UNCHANGED <<txVars, txBuffer, slice>>
  BY DEF ForeachTxCheck, subVars, pubVars, clientVars, txVars
<1>2. CASE Fail(s)
  BY <1>1, <1>2, ReturnLeaves, LeavesTx
<1>3. CASE ~Fail(s)
  <2>1. /\ pc'[s] = "com2" /\ arg' = arg /\ msg' = msg
        /\ \A u \in Sessions \ {s} : pc'[u] = pc[u]
    BY <1>3, ContinueMoves DEF ForeachTxCheck
  <2>2. Others(s) /\ NoMoreToSend(s)
    BY <1>1, <2>1 DEF Others, NoMoreToSend
  <2>3. OwnerOf(s)
    BY DEF TxInv, OwnerOK
  <2>4. OwnerOf(s)' /\ SliceOf(s)'
    BY <1>1, <2>1, <2>3 DEF OwnerOf, SliceOf, Committing
  <2>5. \A p \in Addr : ~YetToSend(s, p)'
    BY <1>1, <2>1 DEF YetToSend, IdleOK
  <2>6. ASSUME NEW p \in Addr, NEW m \in Frame
        PROVE  /\ PlainEntry(m, s, p) => PlainEntry(m, s, p)'
               /\ TxEntry(m, s, p) => TxEntry(m, s, p)'
    BY <1>1, <2>1, <2>5 DEF PlainEntry, TxEntry
  <2> QED
    BY <1>1, <2>1, <2>2, <2>4, <2>6, TxAdvances DEF BufLabels
<1> QED
  BY <1>2, <1>3

\* The frames to publish are those of the transaction, in the order of the buffer.
LEMMA ForeachTxReadTx ==
    ASSUME TypeInv, TxInv, IdleOK, NEW s \in Sessions, ForeachTxRead(s),
           UNCHANGED <<subVars, clientVars>>
    PROVE  TxInv'
<1>1. /\ UNCHANGED <<begun, txEnd, raced, log, gor, txBuffer>>
      /\ pc[s] = "com2" /\ Continue(s, "foreach")
      /\ slice' = [slice EXCEPT ![s] = Frames(arg[s].tx)]
  BY DEF ForeachTxRead, subVars, pubVars, clientVars
<1>2. /\ pc'[s] = "foreach" /\ arg' = arg /\ msg' = msg
      /\ \A u \in Sessions \ {s} : pc'[u] = pc[u]
  BY <1>1, ContinueMoves
<1>3. slice'[s] = Frames(arg[s].tx) /\ \A u \in Sessions \ {s} : slice'[u] = slice[u]
  BY <1>1 DEF TypeInv, TypeOK, TxTypeOK
<1>4. Others(s) /\ NoMoreToSend(s)
  BY <1>1, <1>2, <1>3 DEF Others, NoMoreToSend
<1>5. OwnerOf(s) /\ arg[s].tx \in TxIDs \ {Empty} /\ arg[s].cmd = "COMMIT"
  BY <1>1 DEF TxInv, OwnerOK, OwnerOf
<1>6. OwnerOf(s)'
  BY <1>1, <1>2, <1>5 DEF OwnerOf
<1>7. /\ \A k \in 1 .. Len(slice'[s]) : slice'[s][k].tx = arg[s].tx
      /\ arg[s].tx \notin raced => InOrder(slice'[s])
  <2>1. CASE txBuffer[arg[s].tx] = Nil
    <3>1. slice'[s] = <<>> /\ 1 .. Len(slice'[s]) = {}
      BY <1>3, <2>1 DEF Frames
    <3> QED
      BY <3>1 DEF InOrder
  <2>2. CASE txBuffer[arg[s].tx] # Nil
    <3>1. slice'[s] = txBuffer[arg[s].tx] /\ BufferOf(arg[s].tx)
      BY <1>3, <1>5, <2>2 DEF Frames, TxInv, BufferOK
    <3> QED
      BY <2>2, <3>1 DEF BufferOf
  <2> QED
    BY <2>1, <2>2
<1>8. SliceOf(s)'
  BY <1>1, <1>2, <1>7 DEF SliceOf, InOrder, Committing
<1>9. \A p \in Addr : ~YetToSend(s, p)'
  BY <1>1, <1>2 DEF YetToSend, IdleOK
<1>10. ASSUME NEW p \in Addr, NEW m \in Frame
       PROVE  /\ PlainEntry(m, s, p) => PlainEntry(m, s, p)'
              /\ TxEntry(m, s, p) => TxEntry(m, s, p)'
  BY <1>1, <1>2, <1>5, <1>9 DEF PlainEntry, TxEntry
<1> QED
  BY <1>1, <1>2, <1>4, <1>6, <1>8, <1>10, TxAdvances DEF BufLabels

LEMMA HeadAndTail ==
    ASSUME NEW q \in Seq(Frame), q # <<>>
    PROVE  /\ 1 \in 1 .. Len(q) /\ Head(q) = q[1] /\ Len(Tail(q)) = Len(q) - 1
           /\ \A k \in 1 .. Len(Tail(q)) : Tail(q)[k] = q[k + 1]
OBVIOUS

LEMMA ForeachTxNextTx ==
    ASSUME TypeInv, TxInv, IdleOK, NEW s \in Sessions, ForeachTxNext(s),
           UNCHANGED <<subVars, clientVars>>
    PROVE  TxInv'
<1>1. /\ UNCHANGED <<begun, txEnd, raced, log, gor, txBuffer, arg>>
      /\ pc[s] = "foreach" /\ slice[s] # <<>> /\ pc' = [pc EXCEPT ![s] = "pub"]
      /\ msg' = [msg EXCEPT ![s] = Head(slice[s])]
      /\ slice' = [slice EXCEPT ![s] = Tail(@)]
  BY DEF ForeachTxNext, subVars, pubVars, clientVars, Goto
<1>2. /\ pc'[s] = "pub" /\ msg'[s] = Head(slice[s]) /\ slice'[s] = Tail(slice[s])
      /\ \A u \in Sessions \ {s} : pc'[u] = pc[u] /\ msg'[u] = msg[u] /\ slice'[u] = slice[u]
  BY <1>1 DEF TypeInv, TypeOK, TxTypeOK, ProcTypeOK
<1>3. Others(s) /\ NoMoreToSend(s)
  BY <1>1, <1>2 DEF Others, NoMoreToSend
<1>4. OwnerOf(s) /\ arg[s].tx \in TxIDs \ {Empty} /\ arg[s].cmd = "COMMIT"
  BY <1>1 DEF TxInv, OwnerOK, OwnerOf
<1>5. /\ \A k \in 1 .. Len(slice[s]) : slice[s][k].tx = arg[s].tx
      /\ arg[s].tx \notin raced => InOrder(slice[s])
  BY <1>1, <1>4 DEF TxInv, SliceOK, SliceOf, Committing
<1>6. slice[s] \in Seq(Frame) /\ Len(slice[s]) \in Nat
  BY TxTypes
<1>7. /\ 1 \in 1 .. Len(slice[s]) /\ msg'[s] = slice[s][1]
      /\ Len(slice'[s]) = Len(slice[s]) - 1
      /\ \A k \in 1 .. Len(slice'[s]) : slice'[s][k] = slice[s][k + 1]
  <2>1. PICK q \in Seq(Frame) : q = slice[s]
    BY <1>6
  <2>2. q # <<>> /\ msg'[s] = Head(q) /\ slice'[s] = Tail(q)
    BY <1>1, <1>2, <2>1
  <2>3. /\ 1 \in 1 .. Len(q) /\ Head(q) = q[1] /\ Len(Tail(q)) = Len(q) - 1
        /\ \A k \in 1 .. Len(Tail(q)) : Tail(q)[k] = q[k + 1]
    BY <2>2, HeadAndTail
  <2> QED
    BY <2>1, <2>2, <2>3
<1>8. \A k \in 1 .. Len(slice'[s]) : k + 1 \in 1 .. Len(slice[s]) /\ 1 < k + 1
  BY <1>6, <1>7
<1>9. OwnerOf(s)'
  BY <1>1, <1>2, <1>4, <1>5, <1>7 DEF OwnerOf
<1>10. /\ \A k \in 1 .. Len(slice'[s]) : slice'[s][k].tx = arg[s].tx
       /\ arg[s].tx \notin raced =>
             \A k \in 1 .. Len(slice'[s]) : msg'[s].from = slice'[s][k].from =>
                 msg'[s].no < slice'[s][k].no
  BY <1>5, <1>7, <1>8 DEF InOrder
<1>11. arg[s].tx \notin raced => InOrder(slice'[s])
  <2>1. SUFFICES ASSUME NEW j \in 1 .. Len(slice'[s]), NEW k \in 1 .. Len(slice'[s]), j < k,
                        slice'[s][j].from = slice'[s][k].from, InOrder(slice[s])
                 PROVE  slice'[s][j].no < slice'[s][k].no
    BY <1>5 DEF InOrder
  <2>2. j + 1 < k + 1
    BY <1>6, <1>7, <2>1
  <2> QED
    BY <1>7, <1>8, <2>1, <2>2 DEF InOrder
<1>12. SliceOf(s)'
  BY <1>1, <1>2, <1>10, <1>11 DEF SliceOf, InOrder, Committing
<1>13. msg'[s].tx # Empty /\ msg'[s].no \in Nat
  BY <1>4, <1>5, <1>7, TxTypes
<1>14. ASSUME NEW p \in Addr, NEW m \in Frame
       PROVE  /\ PlainEntry(m, s, p) => PlainEntry(m, s, p)'
              /\ TxEntry(m, s, p) => TxEntry(m, s, p)'
  <2>1. PlainEntry(m, s, p) => PlainEntry(m, s, p)'
    BY <1>1, <1>13 DEF PlainEntry
  <2>2. m.no \in Nat
    BY FrameFields
  <2>3. ASSUME TxEntry(m, s, p), m.tx # Empty, arg[s].tx = m.tx, m.tx \notin raced
        PROVE  /\ m.from = msg'[s].from => m.no < msg'[s].no
               /\ \A j \in 1 .. Len(slice'[s]) :
                     m.from = slice'[s][j].from => m.no < slice'[s][j].no
    BY <1>4, <1>7, <1>8, <2>3 DEF TxEntry
  <2>4. m.no < msg'[s].no => m.no =< msg'[s].no
    BY <1>13, <2>2
  <2>5. TxEntry(m, s, p) => TxEntry(m, s, p)'
    BY <1>1, <1>2, <2>3, <2>4 DEF TxEntry
  <2> QED
    BY <2>1, <2>5
<1> QED
  BY <1>1, <1>2, <1>3, <1>9, <1>12, <1>14, TxAdvances DEF BufLabels

LEMMA TransactionTx ==
    ASSUME TypeInv, RaceInv, TxInv, IdleOK, IdleOK', NEW s \in Sessions, TransactionStep(s),
           UNCHANGED <<sessVars, subVars, clientVars>>
    PROVE  TxInv'
<1>1. UNCHANGED <<subVars, clientVars>> /\ UNCHANGED <<begun, txEnd, raced, log, gor>>
  BY DEF subVars, pubVars, clientVars
<1>2. CASE ForeachTxLast(s)
  BY <1>1, <1>2, ReturnLeaves, LeavesTx DEF ForeachTxLast
<1> QED
  BY <1>1, <1>2, BufferStepTx, ForeachTxCheckTx, ForeachTxReadTx, ForeachTxNextTx
  DEF TransactionStep

LEMMA PublishRangeTx ==
    ASSUME TypeInv, TxInv, IdleOK, IdleOK', NEW s \in Sessions, PublishRange(s),
           UNCHANGED <<txVars, clientVars>>
    PROVE  TxInv'
<1>1. /\ pc[s] = "pub"
      /\ UNCHANGED <<log, txVars, txBuffer, slice, begun, txEnd, raced>>
  BY DEF PublishRange, txVars, clientVars
<1>2. CASE msg[s].dest = Empty
  BY <1>1, <1>2, ReturnLeaves, LeavesTx DEF PublishRange
<1>3. CASE msg[s].dest # Empty
  <2>1. /\ Continue(s, "wait") /\ \E g : gor' = [gor EXCEPT ![s] = g]
    BY <1>3 DEF PublishRange
  <2>2. /\ pc'[s] = "wait" /\ arg' = arg /\ msg' = msg
        /\ \A u \in Sessions \ {s} : pc'[u] = pc[u] /\ gor'[u] = gor[u]
    BY <2>1, ContinueMoves DEF TypeInv, TypeOK, SubTypeOK
  <2>3. Others(s) /\ NoMoreToSend(s)
    BY <1>1, <2>2 DEF Others, NoMoreToSend
  <2>4. OwnerOf(s) /\ SliceOf(s)
    BY DEF TxInv, OwnerOK, SliceOK
  <2>5. OwnerOf(s)'
    BY <1>1, <2>2, <2>4 DEF OwnerOf
  <2>6. SliceOf(s)'
    BY <1>1, <2>2, <2>4 DEF SliceOf, InOrder, Committing
  <2>7. ASSUME NEW p \in Addr, NEW m \in Frame
        PROVE  /\ PlainEntry(m, s, p) => PlainEntry(m, s, p)'
               /\ TxEntry(m, s, p) => TxEntry(m, s, p)'
    BY <1>1, <2>2 DEF PlainEntry, TxEntry, YetToSend
  <2> QED
    BY <1>1, <2>2, <2>3, <2>5, <2>6, <2>7, TxAdvances DEF BufLabels
<1> QED
  BY <1>2, <1>3

LEMMA PublishWaitTx ==
    ASSUME TypeInv, TxInv, IdleOK, IdleOK', NEW s \in Sessions, PublishWait(s),
           UNCHANGED <<txVars, clientVars>>
    PROVE  TxInv'
<1>1. /\ pc[s] = "wait" /\ \E g : gor' = [gor EXCEPT ![s] = g]
      /\ UNCHANGED <<log, txVars, txBuffer, slice, begun, txEnd, raced>>
  BY DEF PublishWait, txVars, clientVars
<1>2. \A u \in Sessions \ {s} : gor'[u] = gor[u]
  BY <1>1 DEF TypeInv, TypeOK, SubTypeOK
<1>3. NoMoreToSend(s)
  BY <1>2 DEF NoMoreToSend
<1>4. CASE arg[s].cmd # "COMMIT"
  <2>1. Leaves(s)
    BY <1>4, ReturnLeaves DEF PublishWait
  <2> QED
    BY <1>1, <1>3, <2>1, LeavesKeeps
<1>5. CASE arg[s].cmd = "COMMIT"
  <2>1. /\ pc'[s] = "foreach" /\ arg' = arg /\ msg' = msg
        /\ \A u \in Sessions \ {s} : pc'[u] = pc[u]
    BY <1>5, ContinueMoves DEF PublishWait
  <2>2. Others(s)
    BY <1>1, <2>1 DEF Others
  <2>3. OwnerOf(s) /\ SliceOf(s)
    BY DEF TxInv, OwnerOK, SliceOK
  <2>4. OwnerOf(s)'
    BY <1>1, <1>5, <2>1, <2>3 DEF OwnerOf
  <2>5. SliceOf(s)'
    BY <1>1, <2>1, <2>3 DEF SliceOf, InOrder, Committing
  <2>6. \A p \in Addr : ~YetToSend(s, p)'
    BY <2>1 DEF YetToSend, IdleOK
  <2>7. ASSUME NEW p \in Addr, NEW m \in Frame
        PROVE  /\ PlainEntry(m, s, p) => PlainEntry(m, s, p)'
               /\ TxEntry(m, s, p) => TxEntry(m, s, p)'
    BY <1>1, <2>1, <2>6 DEF PlainEntry, TxEntry
  <2> QED
    BY <1>1, <1>3, <2>1, <2>2, <2>4, <2>5, <2>7, TxAdvances DEF BufLabels
<1> QED
  BY <1>4, <1>5

\* What s is about to send is later than all that the subscription got from the same
\* sender, outside of transactions or of the same transaction.
LEMMA NextIsLater ==
    ASSUME TypeInv, TxInv, NEW s \in Sessions, NEW p \in Addr, pc[s] = "wait",
           YetToSend(s, p), msg[s].tx \notin raced,
           NEW j \in 1 .. Len(log[p]), log[p][j].msg.from = msg[s].from,
           log[p][j].msg.tx = msg[s].tx
    PROVE  log[p][j].msg.no < msg[s].no
<1>1. OwnerOf(s)
  BY DEF TxInv, OwnerOK
<1>2. /\ PlainEntry(log[p][j].msg, log[p][j].by, p)
      /\ TxEntry(log[p][j].msg, s, p)
  BY DEF TxInv, EntriesOK
<1>3. CASE arg[s].cmd = "COMMIT"
  BY <1>1, <1>2, <1>3 DEF OwnerOf, TxEntry
<1>4. CASE arg[s].cmd # "COMMIT"
  BY <1>1, <1>2, <1>4 DEF OwnerOf, PlainEntry
<1> QED
  BY <1>3, <1>4

\* The step that sends.
LEMMA SendWriteTx ==
    ASSUME TypeInv, TxInv, IdleOK, NEW s \in Sessions, NEW p \in Addr, SendWrite(s, p),
           UNCHANGED <<txVars, clientVars>>
    PROVE  TxInv'
<1> DEFINE e == [by |-> s, pub |-> npub[s], ack |-> nextAckNum[p], msg |-> msg[s]]
<1>1. /\ gor[s][p] = "locked" /\ SetGor(s, p, "written")
      /\ log' = [log EXCEPT ![p] = Append(@, e)]
      /\ UNCHANGED <<pc, arg, msg, slice, txBuffer, begun, txEnd, raced>>
  BY DEF SendWrite, procVars, txVars, clientVars
<1>2. e.by = s /\ e.msg = msg[s]
  OBVIOUS
<1>3. e \in Entry
  BY LogTypes, TxTypes DEF Entry
<1> HIDE DEF e
<1>4. /\ gor'[s][p] = "written"
      /\ \A t \in Sessions, q \in Addr : t # s \/ q # p => gor'[t][q] = gor[t][q]
  BY <1>1, SetGorType DEF GorStates, TypeInv, TypeOK
<1>5. /\ log[p] \in Seq(Entry) /\ Len(log[p]) \in Nat
      /\ log'[p] = Append(log[p], e)
      /\ \A q \in Addr \ {p} : log'[q] = log[q]
  BY <1>1, LogTypes DEF TypeInv, TypeOK, SubTypeOK
<1> DEFINE n == Len(log[p])
<1>6. /\ Len(log'[p]) = n + 1 /\ log'[p][n + 1] = e
      /\ \A k \in 1 .. n : log'[p][k] = log[p][k]
  BY <1>3, <1>5
<1>7. \A q \in Addr : \A k \in 1 .. Len(log'[q]) :
        \/ q = p /\ k = n + 1 /\ log'[q][k] = e
        \/ k \in 1 .. Len(log[q]) /\ log'[q][k] = log[q][k]
  BY <1>5, <1>6
<1>8. /\ OwnerOf(s) /\ SliceOf(s) /\ pc[s] = "wait"
      /\ msg[s] \in Frame /\ msg[s].no \in Nat /\ arg[s].no \in Nat
  BY <1>1, TxTypes DEF TxInv, OwnerOK, SliceOK, IdleOK
<1>9. YetToSend(s, p) /\ ~YetToSend(s, p)'
  BY <1>1, <1>4, <1>8 DEF YetToSend
<1>10. msg[s].no =< msg[s].no /\ arg[s].no =< arg[s].no
  BY <1>8
<1>11. PlainEntry(msg[s], s, p)' /\ \A u \in Sessions : TxEntry(msg[s], u, p)'
  <2>1. CASE arg[s].cmd = "COMMIT"
    <3>1. /\ msg[s].tx = arg[s].tx /\ msg[s].tx \in TxIDs \ {Empty} /\ begun[msg[s].tx] = s
          /\ txEnd[msg[s].tx] = "COMMIT"
      BY <1>8, <2>1 DEF OwnerOf
    <3>2. PlainEntry(msg[s], s, p)'
      BY <1>1, <3>1 DEF PlainEntry
    <3>3. ASSUME NEW u \in Sessions PROVE TxEntry(msg[s], u, p)'
      <4>1. CASE u # s
        <5>1. OwnerOf(u)
          BY DEF TxInv, OwnerOK
        <5>2. ~(arg[u].cmd = "COMMIT" /\ arg[u].tx = msg[s].tx)
          BY <3>1, <4>1, <5>1 DEF OwnerOf
        <5> QED
          BY <1>1, <3>1, <5>2 DEF TxEntry
      <4>2. CASE u = s
        <5>1. arg[s].tx \notin raced => \A j \in 1 .. Len(slice[s]) :
                msg[s].from = slice[s][j].from => msg[s].no < slice[s][j].no
          BY <1>8, <2>1 DEF SliceOf, Committing
        <5> QED
          BY <1>1, <1>8, <1>9, <1>10, <3>1, <4>2, <5>1 DEF TxEntry
      <4> QED
        BY <4>1, <4>2
    <3> QED
      BY <3>2, <3>3
  <2>2. CASE arg[s].cmd # "COMMIT"
    <3>1. msg[s] = arg[s] /\ msg[s].tx = Empty /\ msg[s].from = s
      BY <1>8, <2>2 DEF OwnerOf
    <3>2. PlainEntry(msg[s], s, p)'
      BY <1>1, <1>9, <1>10, <3>1 DEF PlainEntry
    <3>3. \A u \in Sessions : TxEntry(msg[s], u, p)'
      BY <1>1, <3>1 DEF TxEntry
    <3> QED
      BY <3>2, <3>3
  <2> QED
    BY <2>1, <2>2
<1>12. EntriesOK'
  <2>1. SUFFICES ASSUME NEW q \in Addr, NEW k \in 1 .. Len(log'[q])
                 PROVE  /\ PlainEntry(log[q][k].msg, log[q][k].by, q)'
                        /\ \A u \in Sessions : TxEntry(log[q][k].msg, u, q)'
    BY DEF EntriesOK
  <2>2. CASE q = p /\ k = n + 1 /\ log'[q][k] = e
    <3>1. log'[q][k].msg = msg'[s] /\ log'[q][k].by = s
      BY <1>1, <1>2, <2>2
    <3> QED
      BY <1>11, <2>2, <3>1
  <2>3. CASE k \in 1 .. Len(log[q]) /\ log'[q][k] = log[q][k]
    <3>1. PICK m \in Frame, b \in Sessions : m = log[q][k].msg /\ b = log[q][k].by
      BY <2>3, TxTypes
    <3>2. PlainEntry(m, b, q) /\ \A u \in Sessions : TxEntry(m, u, q)
      BY <2>3, <3>1 DEF TxInv, EntriesOK
    <3>3. \A u \in Sessions : YetToSend(u, q)' => YetToSend(u, q)
      BY <1>1, <1>4 DEF YetToSend
    <3>4. PlainEntry(m, b, q)'
      BY <1>1, <3>2, <3>3 DEF PlainEntry
    <3>5. \A u \in Sessions : TxEntry(m, u, q)'
      BY <1>1, <3>2, <3>3 DEF TxEntry
    <3>6. m = log'[q][k].msg /\ b = log'[q][k].by
      BY <2>3, <3>1
    <3> QED
      BY <3>4, <3>5, <3>6
  <2> QED
    BY <1>7, <2>2, <2>3
<1>13. SenderOrder'
  <2>1. SUFFICES ASSUME NEW q \in Addr, NEW j \in 1 .. Len(log'[q]), NEW k \in 1 .. Len(log'[q]),
                        j < k, log'[q][j].msg.from = log'[q][k].msg.from,
                        log'[q][j].msg.tx = log'[q][k].msg.tx,
                        log'[q][k].msg.tx \notin raced
                 PROVE  log'[q][j].msg.no < log'[q][k].msg.no
    BY <1>1 DEF SenderOrder
  <2>2. CASE q = p /\ k = n + 1 /\ log'[q][k] = e
    <3>1. j \in 1 .. n /\ log'[p][j] = log[p][j]
      BY <1>5, <1>6, <2>1, <2>2
    <3> QED
      BY <1>2, <1>8, <1>9, <2>1, <2>2, <3>1, NextIsLater
  <2>3. CASE k \in 1 .. Len(log[q]) /\ log'[q][k] = log[q][k]
    <3>1. j \in 1 .. Len(log[q])
      BY <2>1, <2>3, LogTypes
    <3>2. log'[q][j] = log[q][j]
      BY <1>5, <1>6, <3>1
    <3> QED
      BY <2>1, <2>3, <3>1, <3>2 DEF TxInv, SenderOrder
  <2> QED
    BY <1>7, <2>2, <2>3
<1>14. OwnerOK'
  BY <1>1 DEF TxInv, OwnerOK, OwnerOf
<1>15. SliceOK'
  BY <1>1 DEF TxInv, SliceOK, SliceOf, InOrder, Committing
<1>16. BufferOK'
  BY <1>1 DEF TxInv, BufferOK, BufferOf, InOrder
<1> QED
  BY <1>12, <1>13, <1>14, <1>15, <1>16 DEF TxInv

\* The other steps of the goroutines that publish() starts.
LEMMA GorTx ==
    ASSUME TypeInv, TxInv, NEW s \in Sessions, NEW p \in Addr,
           PublishNext(s, p) \/ SendLock(s, p) \/ SendDone(s, p) \/ SendFails(s, p),
           UNCHANGED <<txVars, clientVars>>
    PROVE  TxInv'
<1>1. PICK state \in GorStates :
        /\ SetGor(s, p, state)
        /\ state \in {"due", "start", "locked"} => gor[s][p] \in {"due", "start", "locked"}
  BY DEF PublishNext, SendLock, SendDone, SendFails, GorStates
<1>2. /\ gor'[s][p] = state
      /\ \A t \in Sessions, q \in Addr : t # s \/ q # p => gor'[t][q] = gor[t][q]
  BY <1>1, SetGorType DEF TypeInv, TypeOK
<1>3. UNCHANGED <<pc, arg, msg, slice, txBuffer, begun, txEnd, raced, log>>
  BY DEF PublishNext, SendLock, SendDone, SendFails, procVars, txVars, clientVars
<1> QED
  BY <1>1, <1>2, <1>3, TxStill

----------------------------------------------------------------------------
LEMMA TxInvInit == Init => TxInv
<1> SUFFICES ASSUME Init PROVE TxInv
  OBVIOUS
<1>1. /\ \A s \in Sessions : /\ pc[s] = "none" /\ arg[s] = Blank(s, 0)
                             /\ arg[s].from = s /\ arg[s].cmd = "NONE"
      /\ \A t \in TxIDs : txBuffer[t] = Nil
      /\ \A p \in Addr : log[p] = <<>> /\ 1 .. Len(log[p]) = {}
  <2>1. ProcInit /\ TxInit /\ SubInit
    BY DEF Init
  <2> QED
    BY <2>1, BlankFields DEF ProcInit, TxInit, SubInit
<1>2. OwnerOK /\ SliceOK
  BY <1>1 DEF OwnerOK, OwnerOf, SliceOK, SliceOf, Committing
<1>3. BufferOK
  BY <1>1 DEF BufferOK, BufferOf
<1>4. EntriesOK /\ SenderOrder
  BY <1>1 DEF EntriesOK, SenderOrder
<1> QED
  BY <1>2, <1>3, <1>4 DEF TxInv

LEMMA TxNext ==
    ASSUME LibraryClients, TypeInv, DeliveryInv, RaceInv, TxInv, [Next]_vars
    PROVE  TxInv'
<1>1. IdleOK /\ IdleOK'
  BY DeliveryNext DEF DeliveryInv
<1>2. CASE UNCHANGED vars
  <2>1. /\ UNCHANGED <<pc, arg, msg, slice, txBuffer, begun, txEnd, raced, log>>
        /\ gor' = gor
    BY <1>2 DEF vars, procVars, subVars, pubVars, txVars, clientVars
  <2> QED
    BY <2>1, TxStill
<1>3. CASE Next
  <2>1. PICK s \in Sessions :
          \/ ReceiveStep(s)
          \/ SessionStep(s) /\ UNCHANGED <<subVars, txVars, clientVars>>
          \/ SubscribeStep(s) /\ UNCHANGED <<sessVars, txVars, clientVars>>
          \/ TransactionStep(s) /\ UNCHANGED <<sessVars, subVars, clientVars>>
          \/ \E t \in Sessions : MapFault(s, t)
    BY <1>3 DEF Next
  <2>2. CASE ReceiveStep(s)
    BY <1>1, <2>2, ReceiveTx
  <2>3. CASE SessionStep(s) /\ UNCHANGED <<subVars, txVars, clientVars>>
    <3>1. UNCHANGED <<txVars, begun, txEnd, raced, log, gor>>
      BY <2>3 DEF subVars, pubVars, clientVars
    <3> QED
      BY <1>1, <2>3, <3>1, SessionMoves, LeavesTx
  <2>4. CASE TransactionStep(s) /\ UNCHANGED <<sessVars, subVars, clientVars>>
    BY <1>1, <2>4, TransactionTx
  <2>5. CASE \E t \in Sessions : MapFault(s, t)
    <3>1. UNCHANGED <<pc, arg, msg, txVars, begun, txEnd, raced, log, gor>>
      BY <2>5 DEF MapFault, Panic, subVars, pubVars, txVars, clientVars
    <3> QED
      BY <1>1, <3>1, LeavesTx
  <2>6. CASE SubscribeStep(s) /\ UNCHANGED <<sessVars, txVars, clientVars>>
    <3>1. \/ RegistryStep(s) \/ AddInsert(s) \/ PublishRange(s) \/ PublishWait(s)
          \/ AckApply(s) \/ \E p \in Addr : PublishNext(s, p) \/ SendStep(s, p)
      BY <2>6 DEF SubscribeStep, HandlerStep, RegistryStep
    <3>2. UNCHANGED <<txVars, clientVars, begun, txEnd, raced>>
      BY <2>6 DEF clientVars
    <3>3. CASE RegistryStep(s) \/ AddInsert(s) \/ AckApply(s)
      <4>1. UNCHANGED <<gor, log>>
        BY <3>3, RegistryOutside DEF deliveryVars, AddInsert, AckApply, pubVars
      <4> QED
        BY <1>1, <3>2, <3>3, <4>1, RegistryMoves, LeavesTx
    <3> QED
      BY <1>1, <3>1, <3>2, <3>3, PublishRangeTx, PublishWaitTx, SendWriteTx, GorTx
      DEF SendStep
  <2> QED
    BY <2>1, <2>2, <2>3, <2>4, <2>5, <2>6
<1> QED
  BY <1>2, <1>3

\* The inductive invariant holds in every reachable state.
LEMMA TxInvariant == ASSUME LibraryClients PROVE Spec => []TxInv
<1>1. Init => TxInv
  BY TxInvInit
<1>2. TypeInv /\ DeliveryInv /\ RaceInv /\ TxInv /\ [Next]_vars => TxInv'
  BY TxNext
<1> QED
  BY <1>1, <1>2, TypeInvariant, DeliveryInvariant, RaceInvariant, PTL DEF Spec

\* For any number of ClientHandlers, no MESSAGE of a transaction is written before its
\* COMMIT was received, whatever the interleaving of the sessions and whichever of them
\* send within the transaction.
THEOREM SilentUntilCommit == ASSUME LibraryClients PROVE Spec => []TxSilentUntilCommit
<1>1. TypeInv /\ TxInv => TxSilentUntilCommit
  <2>1. SUFFICES ASSUME TypeInv, TxInv, NEW p \in Addr, NEW k \in 1 .. Len(log[p]),
                        log[p][k].msg.tx # Empty
                 PROVE  txEnd[log[p][k].msg.tx] = "COMMIT"
    BY DEF TxSilentUntilCommit
  <2>2. TxEntry(log[p][k].msg, log[p][k].by, p)
    BY <2>1, LogTypes DEF TxInv, EntriesOK
  <2> QED
    BY <2>1, <2>2 DEF TxEntry
<1> QED
  BY <1>1, TypeInvariant, TxInvariant, PTL

\* For any number of ClientHandlers, no subscription gets two messages of one sender,
\* both outside of transactions or both of the same one, in the wrong order or twice:
\* also of a transaction that several sessions send within, as long as no two calls for
\* it have overlapped.
THEOREM SendersInOrder == ASSUME LibraryClients PROVE Spec => []SenderOrder
<1>1. TxInv => SenderOrder
  BY DEF TxInv
<1> QED
  BY <1>1, TxInvariant, PTL
=============================================================================
