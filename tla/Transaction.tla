---------------------------- MODULE Transaction ----------------------------
(***************************************************************************)
(* transaction.go: the process-wide buffer of the frames sent within       *)
(* transactions.  The map has no lock, so a check and the write that       *)
(* follows it are two steps.  slice[s] is the []*Frame a call of session   *)
(* s has read from the map.                                                *)
(***************************************************************************)
EXTENDS Process

VARIABLES
    txBuffer,   \* transaction ID => frames, Nil when there is no such transaction
    slice

txVars == <<txBuffer, slice>>

TxInit ==
    /\ txBuffer = [t \in TxIDs |-> Nil]
    /\ slice = [s \in Sessions |-> <<>>]

Absent(t) == IF t = Empty THEN TRUE ELSE txBuffer[t] = Nil

\* startTx
StartTxCheck(s) ==
    /\ At(s, "beg1")
    /\ IF arg[s].tx = Empty \/ ~Absent(arg[s].tx) THEN Fail(s) ELSE Continue(s, "beg2")
    /\ UNCHANGED txVars

StartTxStore(s) ==
    /\ At(s, "beg2")
    /\ txBuffer' = [txBuffer EXCEPT ![arg[s].tx] = <<>>]
    /\ Return(s)
    /\ UNCHANGED slice

\* bufferTxMessage: the check, the read of append's argument, and the store.
BufferTxCheck(s) ==
    /\ At(s, "buf1")
    /\ IF Absent(arg[s].tx) THEN Fail(s) ELSE Continue(s, "buf2")
    /\ UNCHANGED txVars

\* An absent key reads as an empty slice.
Frames(t) == IF txBuffer[t] = Nil THEN <<>> ELSE txBuffer[t]

BufferTxRead(s) ==
    /\ At(s, "buf2")
    /\ slice' = [slice EXCEPT ![s] = Frames(arg[s].tx)]
    /\ Continue(s, "buf3")
    /\ UNCHANGED txBuffer

\* Mutant: the frames buffered before are forgotten.
BufferTxStoreOnly(s) ==
    /\ At(s, "buf3")
    /\ txBuffer' = [txBuffer EXCEPT ![arg[s].tx] = <<arg[s]>>]
    /\ slice' = [slice EXCEPT ![s] = <<>>]
    /\ Return(s)

\* append() to n frames has room left in their array: an array of fewer than 256
\* elements is doubled when it is full, a longer one grows by less.
HasRoom(n) == n # 0 /\ (n < 256 => \A k \in 0 .. 7 : n # 2 ^ k)

\* append() makes a new array, or writes into the one that is there.  A call of u for
\* the same transaction that overlaps the one of s may have read a slice of that array,
\* and then finds the new frame in the place of one of its own.
SlicesAfter(s, u) ==
    {slice[u]} \cup
        {[slice[u] EXCEPT ![k] = arg[s]] :
            k \in {j \in 1 .. Len(slice[u]) : /\ arg[u].tx = arg[s].tx
                                              /\ HasRoom(Len(slice[s]))}}

BufferTxStore(s) ==
    /\ At(s, "buf3")
    /\ txBuffer' = [txBuffer EXCEPT ![arg[s].tx] = Append(slice[s], arg[s])]
    /\ \E q \in [Sessions -> UNION {SlicesAfter(s, u) : u \in Sessions}] :
          /\ \A u \in Sessions : q[u] \in SlicesAfter(s, u)
          /\ slice' = [q EXCEPT ![s] = <<>>]
    /\ Return(s)

\* foreachTx: the range expression is evaluated once; the transaction stays in the
\* map, and COMMIT does not call dropTx.
ForeachTxCheck(s) ==
    /\ At(s, "com1")
    /\ IF Absent(arg[s].tx) THEN Fail(s) ELSE Continue(s, "com2")
    /\ UNCHANGED txVars

ForeachTxRead(s) ==
    /\ At(s, "com2")
    /\ slice' = [slice EXCEPT ![s] = Frames(arg[s].tx)]
    /\ Continue(s, "foreach")
    /\ UNCHANGED txBuffer

\* Mutant: the buffer is used as a stack.
ForeachTxPop(s) ==
    /\ At(s, "foreach")
    /\ slice[s] # <<>>
    /\ msg' = [msg EXCEPT ![s] = slice[s][Len(slice[s])]]
    /\ slice' = [slice EXCEPT ![s] = SubSeq(@, 1, Len(@) - 1)]
    /\ Goto(s, "pub")
    /\ UNCHANGED <<status, arg, txBuffer>>

\* The closure of COMMIT publishes the next frame.
ForeachTxNext(s) ==
    /\ At(s, "foreach")
    /\ slice[s] # <<>>
    /\ msg' = [msg EXCEPT ![s] = Head(slice[s])]
    /\ slice' = [slice EXCEPT ![s] = Tail(@)]
    /\ Goto(s, "pub")
    /\ UNCHANGED <<status, arg, txBuffer>>

ForeachTxLast(s) ==
    /\ At(s, "foreach")
    /\ slice[s] = <<>>
    /\ Return(s)
    /\ UNCHANGED txVars

\* dropTx
DropTxCheck(s) ==
    /\ At(s, "abt1")
    /\ IF Absent(arg[s].tx) THEN Fail(s) ELSE Continue(s, "abt2")
    /\ UNCHANGED txVars

DropTxDelete(s) ==
    /\ At(s, "abt2")
    /\ txBuffer' = [txBuffer EXCEPT ![arg[s].tx] = Nil]
    /\ Return(s)
    /\ UNCHANGED slice

TransactionStep(s) ==
    \/ StartTxCheck(s) \/ StartTxStore(s)
    \/ BufferTxCheck(s) \/ BufferTxRead(s) \/ BufferTxStore(s)
    \/ ForeachTxCheck(s) \/ ForeachTxRead(s) \/ ForeachTxNext(s) \/ ForeachTxLast(s)
    \/ DropTxCheck(s) \/ DropTxDelete(s)

TxTypeOK ==
    /\ txBuffer \in [TxIDs -> Seq(Frame) \cup {Nil}]
    /\ slice \in [Sessions -> Seq(Frame)]
=============================================================================
