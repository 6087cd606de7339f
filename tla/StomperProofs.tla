--------------------------- MODULE StomperProofs ---------------------------
(***************************************************************************)
(* Proofs about the command-line client for any number of lines,           *)
(* connections, transactions, subscriptions and messages.                  *)
(***************************************************************************)
EXTENDS Stomper, SequenceTheorems, TLAPS

TxRec == [conn: Nat, alias: Aliases, open: BOOLEAN]
SubRec == [conn: Nat, dest: Dests, open: BOOLEAN]
Cmds == {"BEGIN", "SEND", "COMMIT", "ABORT", "SUBSCRIBE", "UNSUBSCRIBE", "DISCONNECT"}
FrameRec == [conn: Nat, cmd: Cmds, tx: Nat]

UserTypeOK ==
    /\ client \in Nat
    /\ currTxAlias \in Aliases \cup {None} /\ aliasToTx \in [Aliases -> Nat]
    /\ txs \in Seq(TxRec) /\ subs \in Seq(SubRec) /\ frames \in Seq(FrameRec)
    /\ destToSubs \in [Dests -> Nat]

\* An alias leads to an open transaction that was begun under it, over a connection
\* made so far.
AliasOK ==
    /\ \A a \in Aliases : aliasToTx[a] # 0 =>
          /\ aliasToTx[a] \in 1 .. Len(txs)
          /\ txs[aliasToTx[a]].alias = a /\ txs[aliasToTx[a]].open
    /\ \A t \in 1 .. Len(txs) : txs[t].conn <= client
    /\ currTxAlias # None => aliasToTx[currTxAlias] # 0

DestOK == \A d \in Dests : destToSubs[d] # 0 => destToSubs[d] \in 1 .. Len(subs)

\* OpenIsReachable for the transactions and for the subscriptions.
OpenTxOK ==
    \A t \in 1 .. Len(txs) : txs[t].open =>
        \/ aliasToTx[txs[t].alias] = t
        \/ \E u \in t + 1 .. Len(txs) : txs[u].alias = txs[t].alias

OpenSubOK ==
    \A s \in 1 .. Len(subs) : subs[s].open =>
        \/ destToSubs[subs[s].dest] = s
        \/ \E u \in s + 1 .. Len(subs) : subs[u].dest = subs[s].dest

\* The frames of transaction t, and those that end it.
Its(t) == {k \in 1 .. Len(frames) : frames[k].tx = t}
Ends(t) == {k \in Its(t) : frames[k].cmd \in {"COMMIT", "ABORT"}}

\* b is the BEGIN of t, and the rest of its frames follow it.
BeganAt(t, b) ==
    /\ b \in Its(t) /\ frames[b].cmd = "BEGIN" /\ frames[b].conn = txs[t].conn
    /\ \A k \in Its(t) \ {b} :
          /\ k > b /\ frames[k].conn >= frames[b].conn
          /\ frames[k].cmd = "SEND" \/ k \in Ends(t)
    /\ \A e \in Ends(t) : frames[e].conn = frames[b].conn /\ \A k \in Its(t) : k <= e
    /\ txs[t].open <=> Ends(t) = {}

FramesOK ==
    /\ \A k \in 1 .. Len(frames) : frames[k].tx <= Len(txs)
    /\ \A t \in 1 .. Len(txs) : \E b \in Its(t) : BeganAt(t, b)

UserInv == UserTypeOK /\ AliasOK /\ DestOK /\ OpenTxOK /\ OpenSubOK /\ FramesOK

----------------------------------------------------------------------------
\* ctx.messages holds the last messages that have arrived and are not sliced off, the
\* printed ones first while handleRead() is about to slice them off; the loads and
\* stores of it are in step as long as no two overlap.
ReadTypeOK ==
    /\ messages \in Seq(Nat) /\ shown \in Seq(Nat) /\ arrived \in Nat
    /\ reading \in Nat \cup {None} /\ loaded \in Seq(Nat) \cup {None}
    /\ appending \in [Conns -> Seq(Nat) \cup {None}]
    /\ raced \in BOOLEAN
    /\ loaded # None => reading # None

Printed == IF reading = None THEN 0 ELSE reading

Stored == IF \E c \in Conns : appending[c] # None THEN arrived - 1 ELSE arrived

InStep ==
    /\ \A i \in 1 .. Len(shown) : shown[i] = i
    /\ Printed <= Len(messages)
    /\ Len(shown) - Printed + Len(messages) = Stored
    /\ \A i \in 1 .. Len(messages) : messages[i] = Len(shown) - Printed + i
    /\ loaded # None =>
          /\ \A c \in Conns : appending[c] = None
          /\ Len(loaded) = Len(messages) - Printed
          /\ \A i \in 1 .. Len(loaded) : loaded[i] = Len(shown) + i
    /\ \A c \in Conns : appending[c] # None =>
          /\ \A d \in Conns : appending[d] # None => d = c
          /\ appending[c] = Append(messages, arrived)

ReadInv == ReadTypeOK /\ (raced \/ InStep)

----------------------------------------------------------------------------
\* What a frame that is written does to the frames.
LEMMA FrameSent ==
    ASSUME UserTypeOK, NEW c \in Nat, NEW cmd \in Cmds, NEW tx \in Nat, Sends(c, cmd, tx)
    PROVE  /\ frames' \in Seq(FrameRec) /\ Len(frames) \in Nat
           /\ Len(frames') = Len(frames) + 1
           /\ \A k \in 1 .. Len(frames) : frames'[k] = frames[k]
           /\ frames'[Len(frames) + 1].conn = c
           /\ frames'[Len(frames) + 1].cmd = cmd
           /\ frames'[Len(frames) + 1].tx = tx
<1> DEFINE fr == [conn |-> c, cmd |-> cmd, tx |-> tx]
<1>1. fr \in FrameRec
    BY DEF FrameRec
<1>2. frames \in Seq(FrameRec) /\ frames' = Append(frames, fr)
    BY DEF UserTypeOK, Sends
<1> HIDE DEF fr
<1>3. /\ frames' \in Seq(FrameRec) /\ Len(frames) \in Nat
      /\ Len(frames') = Len(frames) + 1
      /\ \A k \in 1 .. Len(frames) : frames'[k] = frames[k]
      /\ frames'[Len(frames) + 1] = fr
    BY <1>1, <1>2, AppendProperties, LenProperties
<1> QED
    BY <1>3 DEF fr

\* The parts of the type invariant.
LEMMA TypeFacts ==
    ASSUME UserTypeOK
    PROVE  /\ Len(txs) \in Nat /\ Len(subs) \in Nat /\ Len(frames) \in Nat
           /\ \A t \in 1 .. Len(txs) :
                 txs[t].conn \in Nat /\ txs[t].alias \in Aliases /\ txs[t].open \in BOOLEAN
           /\ \A s \in 1 .. Len(subs) :
                 subs[s].conn \in Nat /\ subs[s].dest \in Dests /\ subs[s].open \in BOOLEAN
           /\ \A k \in 1 .. Len(frames) :
                 frames[k].conn \in Nat /\ frames[k].cmd \in Cmds /\ frames[k].tx \in Nat
<1>1. Len(txs) \in Nat /\ Len(subs) \in Nat /\ Len(frames) \in Nat
    BY LenProperties DEF UserTypeOK
<1>2. \A t \in 1 .. Len(txs) : txs[t] \in TxRec
    BY ElementOfSeq DEF UserTypeOK
<1>3. \A s \in 1 .. Len(subs) : subs[s] \in SubRec
    BY ElementOfSeq DEF UserTypeOK
<1>4. \A k \in 1 .. Len(frames) : frames[k] \in FrameRec
    BY ElementOfSeq DEF UserTypeOK
<1> QED
    BY <1>1, <1>2, <1>3, <1>4 DEF TxRec, SubRec, FrameRec

\* tx_begin: one more transaction.
LEMMA TxAdded ==
    ASSUME UserTypeOK, NEW a \in Aliases,
           txs' = Append(txs, [conn |-> client, alias |-> a, open |-> TRUE])
    PROVE  /\ txs' \in Seq(TxRec) /\ Len(txs') = Len(txs) + 1
           /\ \A t \in 1 .. Len(txs) : txs'[t] = txs[t]
           /\ txs'[Len(txs) + 1].conn = client
           /\ txs'[Len(txs) + 1].alias = a
           /\ txs'[Len(txs) + 1].open
<1> DEFINE tx == [conn |-> client, alias |-> a, open |-> TRUE]
<1>1. tx \in TxRec
    BY DEF TxRec, UserTypeOK
<1>2. txs \in Seq(TxRec) /\ txs' = Append(txs, tx)
    BY DEF UserTypeOK
<1> HIDE DEF tx
<1>3. /\ txs' \in Seq(TxRec) /\ Len(txs') = Len(txs) + 1
      /\ \A t \in 1 .. Len(txs) : txs'[t] = txs[t]
      /\ txs'[Len(txs) + 1] = tx
    BY <1>1, <1>2, AppendProperties
<1> QED
    BY <1>3 DEF tx

\* A function on the indices of a slice is a slice of the same length.
LEMMA SameLength ==
    ASSUME NEW S, NEW seq \in Seq(S), NEW r \in [1 .. Len(seq) -> S]
    PROVE  r \in Seq(S) /\ Len(r) = Len(seq)
<1>1. Len(seq) \in Nat
    BY LenProperties
<1>2. r \in Seq(S)
    BY <1>1, SeqDef
<1>3. Len(r) \in Nat /\ 1 .. Len(r) = 1 .. Len(seq)
    BY <1>2, LenProperties
<1> QED
    BY <1>1, <1>2, <1>3

\* tx_commit, tx_abort: a transaction is closed.
LEMMA TxClosed ==
    ASSUME UserTypeOK, NEW t \in 1 .. Len(txs), txs' = [txs EXCEPT ![t].open = FALSE]
    PROVE  /\ txs' \in Seq(TxRec) /\ Len(txs') = Len(txs)
           /\ \A u \in 1 .. Len(txs) :
                 /\ txs'[u].conn = txs[u].conn /\ txs'[u].alias = txs[u].alias
                 /\ txs'[u].open = (u # t /\ txs[u].open)
<1>1. txs \in Seq(TxRec) /\ txs[t] \in TxRec
    BY ElementOfSeq DEF UserTypeOK
<1>2. PICK tx \in TxRec : /\ txs' = [txs EXCEPT ![t] = tx]
                          /\ tx.conn = txs[t].conn /\ tx.alias = txs[t].alias /\ tx.open = FALSE
  <2> DEFINE tx == [txs[t] EXCEPT !.open = FALSE]
  <2>1. txs' = [txs EXCEPT ![t] = tx]
    OBVIOUS
  <2>2. tx \in TxRec /\ tx.conn = txs[t].conn /\ tx.alias = txs[t].alias /\ tx.open = FALSE
    BY <1>1 DEF TxRec
  <2> HIDE DEF tx
  <2> QED
    BY <2>1, <2>2, Zenon
<1>3. Len(txs) \in Nat /\ txs \in [1 .. Len(txs) -> TxRec]
    BY <1>1, LenProperties
<1>4. /\ txs' \in [1 .. Len(txs) -> TxRec]
      /\ \A u \in 1 .. Len(txs) : txs'[u] = IF u = t THEN tx ELSE txs[u]
    BY <1>2, <1>3
<1>5. txs' \in Seq(TxRec) /\ Len(txs') = Len(txs)
    BY <1>1, <1>4, SameLength
<1>6. \A u \in 1 .. Len(txs) : txs[u].open \in BOOLEAN
    BY TypeFacts
<1> QED
    BY <1>2, <1>4, <1>5, <1>6

\* subscribe: one more subscription.
LEMMA SubAdded ==
    ASSUME UserTypeOK, NEW d \in Dests,
           subs' = Append(subs, [conn |-> client, dest |-> d, open |-> TRUE])
    PROVE  /\ subs' \in Seq(SubRec) /\ Len(subs') = Len(subs) + 1
           /\ \A s \in 1 .. Len(subs) : subs'[s] = subs[s]
           /\ subs'[Len(subs) + 1].dest = d
<1> DEFINE sub == [conn |-> client, dest |-> d, open |-> TRUE]
<1>1. sub \in SubRec
    BY DEF SubRec, UserTypeOK
<1>2. subs \in Seq(SubRec) /\ subs' = Append(subs, sub)
    BY DEF UserTypeOK
<1> HIDE DEF sub
<1>3. /\ subs' \in Seq(SubRec) /\ Len(subs') = Len(subs) + 1
      /\ \A s \in 1 .. Len(subs) : subs'[s] = subs[s]
      /\ subs'[Len(subs) + 1] = sub
    BY <1>1, <1>2, AppendProperties
<1> QED
    BY <1>3 DEF sub

\* unsubscribe: a subscription is closed.
LEMMA SubClosed ==
    ASSUME UserTypeOK, NEW s \in 1 .. Len(subs), subs' = [subs EXCEPT ![s].open = FALSE]
    PROVE  /\ subs' \in Seq(SubRec) /\ Len(subs') = Len(subs)
           /\ \A u \in 1 .. Len(subs) :
                 subs'[u].dest = subs[u].dest /\ subs'[u].open = (u # s /\ subs[u].open)
<1>1. subs \in Seq(SubRec) /\ subs[s] \in SubRec
    BY ElementOfSeq DEF UserTypeOK
<1>2. PICK sub \in SubRec : /\ subs' = [subs EXCEPT ![s] = sub]
                          /\ sub.dest = subs[s].dest /\ sub.open = FALSE
  <2> DEFINE sub == [subs[s] EXCEPT !.open = FALSE]
  <2>1. subs' = [subs EXCEPT ![s] = sub]
    OBVIOUS
  <2>2. sub \in SubRec /\ sub.dest = subs[s].dest /\ sub.open = FALSE
    BY <1>1 DEF SubRec
  <2> HIDE DEF sub
  <2> QED
    BY <2>1, <2>2, Zenon
<1>3. Len(subs) \in Nat /\ subs \in [1 .. Len(subs) -> SubRec]
    BY <1>1, LenProperties
<1>4. /\ subs' \in [1 .. Len(subs) -> SubRec]
      /\ \A u \in 1 .. Len(subs) : subs'[u] = IF u = s THEN sub ELSE subs[u]
    BY <1>2, <1>3
<1>5. subs' \in Seq(SubRec) /\ Len(subs') = Len(subs)
    BY <1>1, <1>4, SameLength
<1>6. \A u \in 1 .. Len(subs) : subs[u].open \in BOOLEAN
    BY TypeFacts
<1> QED
    BY <1>2, <1>4, <1>5, <1>6

----------------------------------------------------------------------------
\* What a line or a connection does to the variables of UserInv.
Quiet == client' \in {client, client + 1} /\ UNCHANGED <<txVars, subVars, frames>>

Chooses ==
    /\ currTxAlias' = None \/ \E a \in Aliases : aliasToTx[a] # 0 /\ currTxAlias' = a
    /\ UNCHANGED <<client, aliasToTx, txs, subVars, frames>>

Begins(a) ==
    /\ Sends(client, "BEGIN", Len(txs) + 1)
    /\ txs' = Append(txs, [conn |-> client, alias |-> a, open |-> TRUE])
    /\ aliasToTx' = [aliasToTx EXCEPT ![a] = Len(txs) + 1]
    /\ currTxAlias' = a
    /\ UNCHANGED <<client, subVars>>

Closes(t, cmd) ==
    /\ currTxAlias # None /\ t = aliasToTx[currTxAlias]
    /\ Sends(txs[t].conn, cmd, t)
    /\ txs' = [txs EXCEPT ![t].open = FALSE]
    /\ aliasToTx' = [aliasToTx EXCEPT ![currTxAlias] = 0]
    /\ currTxAlias' = None
    /\ UNCHANGED <<client, subVars>>

Writes(cmd, tx) ==
    /\ \/ tx = 0
       \/ cmd = "SEND" /\ currTxAlias # None /\ tx = aliasToTx[currTxAlias]
    /\ Sends(client, cmd, tx)
    /\ UNCHANGED <<client, txVars, subVars>>

Subscribes(d) ==
    /\ Sends(client, "SUBSCRIBE", 0)
    /\ subs' = Append(subs, [conn |-> client, dest |-> d, open |-> TRUE])
    /\ destToSubs' = [destToSubs EXCEPT ![d] = Len(subs) + 1]
    /\ UNCHANGED <<client, txVars>>

Unsubscribes(d, s) ==
    /\ s = destToSubs[d] /\ s # 0
    /\ Sends(subs[s].conn, "UNSUBSCRIBE", 0)
    /\ subs' = [subs EXCEPT ![s].open = FALSE]
    /\ destToSubs' = [destToSubs EXCEPT ![d] = 0]
    /\ UNCHANGED <<client, txVars>>

LEMMA UserSteps ==
    ASSUME [Next]_vars
    PROVE  \/ Quiet \/ Chooses
           \/ \E a \in Aliases : Begins(a)
           \/ \E cmd \in {"COMMIT", "ABORT"} : \E t : Closes(t, cmd)
           \/ \E cmd \in {"SEND", "DISCONNECT"} : \E tx : Writes(cmd, tx)
           \/ \E d \in Dests : Subscribes(d)
           \/ \E d \in Dests : \E s : Unsubscribes(d, s)
<1>1. CASE UNCHANGED vars
    BY <1>1 DEF vars, Quiet, txVars, subVars
<1>2. CASE HandleConnect
    BY <1>2 DEF HandleConnect, Quiet
<1>3. CASE NoClient \/ BlankLine
    BY <1>3 DEF NoClient, BlankLine, Panic, Quiet
<1>4. CASE HandleTxLeave
    BY <1>4 DEF HandleTxLeave, Chooses
<1>5. CASE HandleSend
  <2>1. CASE MayFail(client)
    BY <1>5, <2>1 DEF HandleSend, MayFail, Quiet
  <2>2. CASE Sends(client, "SEND", IF currTxAlias = None THEN 0 ELSE aliasToTx[currTxAlias])
    <3>1. UNCHANGED <<client, txVars, subVars>>
        BY <1>5 DEF HandleSend
    <3>2. CASE currTxAlias = None
      <4>1. Writes("SEND", 0)
        BY <2>2, <3>1, <3>2 DEF Writes
      <4> QED
        BY <4>1
    <3>3. CASE currTxAlias # None
      <4>1. Writes("SEND", aliasToTx[currTxAlias])
        BY <2>2, <3>1, <3>3 DEF Writes
      <4> QED
        BY <4>1
    <3> QED
        BY <3>2, <3>3
  <2> QED
    BY <1>5, <2>1, <2>2 DEF HandleSend
<1>6. CASE HandleDisconnect
  <2>1. CASE MayFail(client)
    BY <1>6, <2>1 DEF HandleDisconnect, MayFail, Quiet
  <2>2. CASE Sends(client, "DISCONNECT", 0)
    <3>1. Writes("DISCONNECT", 0)
        BY <1>6, <2>2 DEF HandleDisconnect, Writes
    <3> QED
        BY <3>1
  <2> QED
    BY <1>6, <2>1, <2>2 DEF HandleDisconnect
<1>7. ASSUME NEW a \in Aliases, HandleTxBegin(a) \/ HandleTxEnter(a)
      PROVE  Quiet \/ Chooses \/ Begins(a)
    BY <1>7 DEF HandleTxBegin, HandleTxEnter, MayFail, Quiet, Chooses, Begins, txVars
<1>8. ASSUME NEW cmd \in {"COMMIT", "ABORT"}, HandleTxEnd(cmd)
      PROVE  Quiet \/ Closes(aliasToTx[currTxAlias], cmd)
    BY <1>8 DEF HandleTxEnd, MayFail, Quiet, Closes
<1>9. ASSUME NEW d \in Dests, HandleSubscribe(d)
      PROVE  Quiet \/ Subscribes(d)
    BY <1>9 DEF HandleSubscribe, MayFail, Quiet, Subscribes
<1>10. ASSUME NEW d \in Dests, HandleUnsubscribe(d)
       PROVE  Quiet \/ Unsubscribes(d, destToSubs[d])
    BY <1>10 DEF HandleUnsubscribe, Panic, MayFail, Quiet, Unsubscribes
<1>11. CASE \/ \E all \in BOOLEAN : HandleRead(all)
            \/ ReadLoad \/ ReadStore \/ Torn
            \/ \E c \in Conns : AppendLoad(c) \/ AppendStore(c) \/ ConnLost(c)
    BY <1>11 DEF HandleRead, ReadLoad, ReadStore, Torn, AppendLoad, AppendStore, ConnLost, Quiet
<1> QED
    BY <1>1, <1>2, <1>3, <1>4, <1>5, <1>6, <1>7, <1>8, <1>9, <1>10, <1>11 DEF Next

----------------------------------------------------------------------------
\* The transaction that is current, and the numbers in the maps.
LEMMA CurrentFacts ==
    ASSUME UserInv, currTxAlias # None
    PROVE  /\ currTxAlias \in Aliases /\ aliasToTx[currTxAlias] \in 1 .. Len(txs)
           /\ txs[aliasToTx[currTxAlias]].open
           /\ txs[aliasToTx[currTxAlias]].alias = currTxAlias
           /\ txs[aliasToTx[currTxAlias]].conn \in Nat
           /\ txs[aliasToTx[currTxAlias]].conn <= client
    BY TypeFacts DEF UserInv, UserTypeOK, AliasOK

LEMMA UserTypeStep ==
    ASSUME UserInv, [Next]_vars
    PROVE  UserTypeOK'
<1> USE DEF UserTypeOK
<1>1. UserTypeOK
    BY DEF UserInv
<1>2. Len(txs) \in Nat /\ Len(subs) \in Nat
    BY <1>1, TypeFacts
<1>3. CASE Quiet \/ Chooses
    BY <1>1, <1>3 DEF Quiet, Chooses, txVars, subVars
<1>4. ASSUME NEW a \in Aliases, Begins(a)
      PROVE  UserTypeOK'
  <2>1. frames' \in Seq(FrameRec)
    <3>1. client \in Nat /\ Len(txs) + 1 \in Nat /\ "BEGIN" \in Cmds
        BY <1>1, <1>2 DEF Cmds
    <3>2. Sends(client, "BEGIN", Len(txs) + 1)
        BY <1>4 DEF Begins
    <3> QED
        BY <1>1, <3>1, <3>2, FrameSent
  <2>2. txs' \in Seq(TxRec)
    BY <1>1, <1>4, TxAdded DEF Begins
  <2> QED
    BY <1>1, <1>2, <1>4, <2>1, <2>2 DEF Begins, subVars
<1>5. ASSUME NEW t, NEW cmd \in {"COMMIT", "ABORT"}, Closes(t, cmd)
      PROVE  UserTypeOK'
  <2>1. t \in 1 .. Len(txs) /\ txs[t].conn \in Nat
    BY <1>5, CurrentFacts DEF Closes
  <2>2. frames' \in Seq(FrameRec)
    BY <1>1, <1>2, <1>5, <2>1, FrameSent DEF Closes, Cmds
  <2>3. txs' \in Seq(TxRec)
    BY <1>1, <1>5, <2>1, TxClosed DEF Closes
  <2> QED
    BY <1>1, <1>5, <2>2, <2>3 DEF Closes, subVars
<1>6. ASSUME NEW tx, NEW cmd \in {"SEND", "DISCONNECT"}, Writes(cmd, tx)
      PROVE  UserTypeOK'
  <2>1. tx \in Nat
    BY <1>1, <1>2, <1>6, CurrentFacts DEF Writes
  <2>2. frames' \in Seq(FrameRec)
    BY <1>1, <1>6, <2>1, FrameSent DEF Writes, Cmds
  <2> QED
    BY <1>1, <1>6, <2>2 DEF Writes, txVars, subVars
<1>7. ASSUME NEW d \in Dests, Subscribes(d)
      PROVE  UserTypeOK'
  <2>1. frames' \in Seq(FrameRec)
    BY <1>1, <1>7, FrameSent DEF Subscribes, Cmds
  <2>2. subs' \in Seq(SubRec)
    BY <1>1, <1>7, SubAdded DEF Subscribes
  <2> QED
    BY <1>1, <1>2, <1>7, <2>1, <2>2 DEF Subscribes, txVars
<1>8. ASSUME NEW d \in Dests, NEW s, Unsubscribes(d, s)
      PROVE  UserTypeOK'
  <2>1. s \in 1 .. Len(subs) /\ subs[s].conn \in Nat
    BY <1>1, <1>8, TypeFacts DEF Unsubscribes, UserInv, DestOK
  <2>2. frames' \in Seq(FrameRec)
    BY <1>1, <1>8, <2>1, FrameSent DEF Unsubscribes, Cmds
  <2>3. subs' \in Seq(SubRec)
    BY <1>1, <1>8, <2>1, SubClosed DEF Unsubscribes
  <2> QED
    BY <1>1, <1>8, <2>2, <2>3 DEF Unsubscribes, txVars
<1> QED
    BY <1>3, <1>4, <1>5, <1>6, <1>7, <1>8, UserSteps

LEMMA AliasStep ==
    ASSUME UserInv, [Next]_vars
    PROVE  AliasOK'
<1> USE DEF AliasOK
<1>1. UserTypeOK /\ AliasOK
    BY DEF UserInv
<1>2. /\ client \in Nat /\ aliasToTx \in [Aliases -> Nat] /\ Len(txs) \in Nat
      /\ None \notin Aliases
      /\ \A t \in 1 .. Len(txs) : txs[t].conn \in Nat
    BY <1>1, TypeFacts, StomperAssumption DEF UserTypeOK
<1>3. CASE Quiet
    BY <1>1, <1>2, <1>3 DEF Quiet, txVars
<1>4. CASE Chooses
    BY <1>1, <1>2, <1>4 DEF Chooses
<1>5. ASSUME NEW a \in Aliases, Begins(a)
      PROVE  AliasOK'
  <2>1. /\ Len(txs') = Len(txs) + 1
        /\ \A t \in 1 .. Len(txs) : txs'[t] = txs[t]
        /\ txs'[Len(txs) + 1].conn = client /\ txs'[Len(txs) + 1].alias = a
        /\ txs'[Len(txs) + 1].open
    BY <1>1, <1>5, TxAdded DEF Begins
  <2>2. \A b \in Aliases : aliasToTx'[b] = IF b = a THEN Len(txs) + 1 ELSE aliasToTx[b]
    BY <1>2, <1>5 DEF Begins
  <2>3. client' = client /\ currTxAlias' = a
    BY <1>5 DEF Begins
  <2>4. ASSUME NEW b \in Aliases, aliasToTx'[b] # 0
        PROVE  /\ aliasToTx'[b] \in 1 .. Len(txs')
               /\ txs'[aliasToTx'[b]].alias = b /\ txs'[aliasToTx'[b]].open
    <3>1. CASE b = a
        BY <1>2, <2>1, <2>2, <3>1
    <3>2. CASE b # a
      <4>1. aliasToTx'[b] = aliasToTx[b] /\ aliasToTx[b] \in 1 .. Len(txs)
        BY <1>1, <2>2, <2>4, <3>2
      <4> QED
        BY <1>1, <1>2, <2>1, <2>4, <4>1
    <3> QED
        BY <3>1, <3>2
  <2>5. \A t \in 1 .. Len(txs') : txs'[t].conn <= client'
    <3> SUFFICES ASSUME NEW t \in 1 .. Len(txs')
                 PROVE  txs'[t].conn <= client'
        OBVIOUS
    <3>1. t = Len(txs) + 1 \/ t \in 1 .. Len(txs)
        BY <1>2, <2>1
    <3> QED
        BY <1>1, <1>2, <2>1, <2>3, <3>1
  <2> QED
    BY <1>2, <2>2, <2>3, <2>4, <2>5
<1>6. ASSUME NEW t, NEW cmd \in {"COMMIT", "ABORT"}, Closes(t, cmd)
      PROVE  AliasOK'
  <2>1. t \in 1 .. Len(txs) /\ currTxAlias \in Aliases /\ txs[t].alias = currTxAlias
    BY <1>6, CurrentFacts DEF Closes
  <2>2. /\ Len(txs') = Len(txs)
        /\ \A u \in 1 .. Len(txs) :
              /\ txs'[u].conn = txs[u].conn /\ txs'[u].alias = txs[u].alias
              /\ txs'[u].open = (u # t /\ txs[u].open)
    BY <1>1, <1>6, <2>1, TxClosed DEF Closes
  <2>3. \A b \in Aliases : aliasToTx'[b] = IF b = currTxAlias THEN 0 ELSE aliasToTx[b]
    BY <1>2, <1>6 DEF Closes
  <2>4. client' = client /\ currTxAlias' = None
    BY <1>6 DEF Closes
  <2>5. ASSUME NEW b \in Aliases, aliasToTx'[b] # 0
        PROVE  /\ aliasToTx'[b] \in 1 .. Len(txs')
               /\ txs'[aliasToTx'[b]].alias = b /\ txs'[aliasToTx'[b]].open
    <3>1. b # currTxAlias /\ aliasToTx'[b] = aliasToTx[b] /\ aliasToTx[b] # 0
        BY <2>3, <2>5
    <3>2. /\ aliasToTx[b] \in 1 .. Len(txs)
          /\ txs[aliasToTx[b]].alias = b /\ txs[aliasToTx[b]].open
        BY <1>1, <3>1
    <3>3. aliasToTx[b] # t
        BY <2>1, <3>1, <3>2
    <3> QED
        BY <2>2, <3>1, <3>2, <3>3
  <2>6. \A u \in 1 .. Len(txs') : txs'[u].conn <= client'
    BY <1>1, <2>2, <2>4
  <2> QED
    BY <2>4, <2>5, <2>6
<1>7. ASSUME NEW tx, NEW cmd \in {"SEND", "DISCONNECT"}, Writes(cmd, tx)
      PROVE  AliasOK'
    BY <1>1, <1>7 DEF Writes, txVars
<1>8. ASSUME NEW d \in Dests, Subscribes(d)
      PROVE  AliasOK'
    BY <1>1, <1>8 DEF Subscribes, txVars
<1>9. ASSUME NEW d \in Dests, NEW s, Unsubscribes(d, s)
      PROVE  AliasOK'
    BY <1>1, <1>9 DEF Unsubscribes, txVars
<1> QED
    BY <1>3, <1>4, <1>5, <1>6, <1>7, <1>8, <1>9, UserSteps

LEMMA OpenTxStep ==
    ASSUME UserInv, [Next]_vars
    PROVE  OpenTxOK'
<1> USE DEF OpenTxOK
<1>1. UserTypeOK /\ AliasOK /\ OpenTxOK
    BY DEF UserInv
<1>2. /\ aliasToTx \in [Aliases -> Nat] /\ Len(txs) \in Nat
      /\ \A t \in 1 .. Len(txs) : txs[t].alias \in Aliases /\ txs[t].open \in BOOLEAN
    BY <1>1, TypeFacts DEF UserTypeOK
<1>3. CASE Quiet \/ Chooses
    BY <1>1, <1>3 DEF Quiet, Chooses, txVars
<1>4. ASSUME NEW a \in Aliases, Begins(a)
      PROVE  OpenTxOK'
  <2>1. /\ Len(txs') = Len(txs) + 1
        /\ \A t \in 1 .. Len(txs) : txs'[t] = txs[t]
        /\ txs'[Len(txs) + 1].alias = a
    BY <1>1, <1>4, TxAdded DEF Begins
  <2>2. \A b \in Aliases : aliasToTx'[b] = IF b = a THEN Len(txs) + 1 ELSE aliasToTx[b]
    BY <1>2, <1>4 DEF Begins
  <2> SUFFICES ASSUME NEW t \in 1 .. Len(txs'), txs'[t].open
               PROVE  \/ aliasToTx'[txs'[t].alias] = t
                      \/ \E u \in t + 1 .. Len(txs') : txs'[u].alias = txs'[t].alias
    OBVIOUS
  <2>3. CASE t = Len(txs) + 1
    BY <2>1, <2>2, <2>3
  <2>4. CASE t \in 1 .. Len(txs)
    <3>1. txs'[t] = txs[t] /\ txs[t].open
        BY <2>1, <2>4
    <3>2. CASE \E u \in t + 1 .. Len(txs) : txs[u].alias = txs[t].alias
        BY <1>2, <2>1, <2>4, <3>1, <3>2
    <3>3. CASE aliasToTx[txs[t].alias] = t /\ txs[t].alias = a
      <4>1. Len(txs) + 1 \in t + 1 .. Len(txs')
        BY <1>2, <2>1, <2>4
      <4> QED
        BY <2>1, <3>1, <3>3, <4>1
    <3>4. CASE aliasToTx[txs[t].alias] = t /\ txs[t].alias # a
        BY <1>2, <2>2, <2>4, <3>1, <3>4
    <3> QED
        BY <1>1, <2>4, <3>1, <3>2, <3>3, <3>4
  <2> QED
    BY <1>2, <2>1, <2>3, <2>4
<1>5. ASSUME NEW t, NEW cmd \in {"COMMIT", "ABORT"}, Closes(t, cmd)
      PROVE  OpenTxOK'
  <2>1. t \in 1 .. Len(txs) /\ currTxAlias \in Aliases /\ t = aliasToTx[currTxAlias]
    BY <1>5, CurrentFacts DEF Closes
  <2>2. /\ Len(txs') = Len(txs)
        /\ \A u \in 1 .. Len(txs) :
              txs'[u].alias = txs[u].alias /\ txs'[u].open = (u # t /\ txs[u].open)
    BY <1>1, <1>5, <2>1, TxClosed DEF Closes
  <2>3. \A b \in Aliases : aliasToTx'[b] = IF b = currTxAlias THEN 0 ELSE aliasToTx[b]
    BY <1>2, <1>5 DEF Closes
  <2> SUFFICES ASSUME NEW v \in 1 .. Len(txs'), txs'[v].open
               PROVE  \/ aliasToTx'[txs'[v].alias] = v
                      \/ \E u \in v + 1 .. Len(txs') : txs'[u].alias = txs'[v].alias
    OBVIOUS
  <2>4. v \in 1 .. Len(txs) /\ v # t /\ txs[v].open /\ txs'[v].alias = txs[v].alias
    BY <2>2
  <2>5. CASE \E u \in v + 1 .. Len(txs) : txs[u].alias = txs[v].alias
    BY <1>2, <2>2, <2>4, <2>5
  <2>6. CASE aliasToTx[txs[v].alias] = v
    BY <1>2, <2>1, <2>3, <2>4, <2>6
  <2> QED
    BY <1>1, <2>4, <2>5, <2>6
<1>6. ASSUME NEW tx, NEW cmd \in {"SEND", "DISCONNECT"}, Writes(cmd, tx)
      PROVE  OpenTxOK'
    BY <1>1, <1>6 DEF Writes, txVars
<1>7. ASSUME NEW d \in Dests, Subscribes(d)
      PROVE  OpenTxOK'
    BY <1>1, <1>7 DEF Subscribes, txVars
<1>8. ASSUME NEW d \in Dests, NEW s, Unsubscribes(d, s)
      PROVE  OpenTxOK'
    BY <1>1, <1>8 DEF Unsubscribes, txVars
<1> QED
    BY <1>3, <1>4, <1>5, <1>6, <1>7, <1>8, UserSteps

LEMMA SubsStep ==
    ASSUME UserInv, [Next]_vars
    PROVE  DestOK' /\ OpenSubOK'
<1> USE DEF DestOK, OpenSubOK
<1>1. UserTypeOK /\ DestOK /\ OpenSubOK
    BY DEF UserInv
<1>2. /\ destToSubs \in [Dests -> Nat] /\ Len(subs) \in Nat
      /\ \A s \in 1 .. Len(subs) : subs[s].dest \in Dests /\ subs[s].open \in BOOLEAN
    BY <1>1, TypeFacts DEF UserTypeOK
<1>3. CASE Quiet \/ Chooses
    BY <1>1, <1>3 DEF Quiet, Chooses, subVars
<1>4. ASSUME NEW a \in Aliases, Begins(a)
      PROVE  DestOK' /\ OpenSubOK'
    BY <1>1, <1>4 DEF Begins, subVars
<1>5. ASSUME NEW t, NEW cmd \in {"COMMIT", "ABORT"}, Closes(t, cmd)
      PROVE  DestOK' /\ OpenSubOK'
    BY <1>1, <1>5 DEF Closes, subVars
<1>6. ASSUME NEW tx, NEW cmd \in {"SEND", "DISCONNECT"}, Writes(cmd, tx)
      PROVE  DestOK' /\ OpenSubOK'
    BY <1>1, <1>6 DEF Writes, subVars
<1>7. ASSUME NEW d \in Dests, Subscribes(d)
      PROVE  DestOK' /\ OpenSubOK'
  <2>1. /\ Len(subs') = Len(subs) + 1
        /\ \A s \in 1 .. Len(subs) : subs'[s] = subs[s]
        /\ subs'[Len(subs) + 1].dest = d
    BY <1>1, <1>7, SubAdded DEF Subscribes
  <2>2. \A b \in Dests : destToSubs'[b] = IF b = d THEN Len(subs) + 1 ELSE destToSubs[b]
    BY <1>2, <1>7 DEF Subscribes
  <2>3. DestOK'
    BY <1>1, <1>2, <2>1, <2>2
  <2>4. ASSUME NEW s \in 1 .. Len(subs'), subs'[s].open
        PROVE  \/ destToSubs'[subs'[s].dest] = s
               \/ \E u \in s + 1 .. Len(subs') : subs'[u].dest = subs'[s].dest
    <3>1. CASE s = Len(subs) + 1
        BY <2>1, <2>2, <3>1
    <3>2. CASE s \in 1 .. Len(subs)
      <4>1. subs'[s] = subs[s] /\ subs[s].open
        BY <2>1, <2>4, <3>2
      <4>2. CASE \E u \in s + 1 .. Len(subs) : subs[u].dest = subs[s].dest
        BY <1>2, <2>1, <3>2, <4>1, <4>2
      <4>3. CASE destToSubs[subs[s].dest] = s /\ subs[s].dest = d
        <5>1. Len(subs) + 1 \in s + 1 .. Len(subs')
            BY <1>2, <2>1, <3>2
        <5> QED
            BY <2>1, <4>1, <4>3, <5>1
      <4>4. CASE destToSubs[subs[s].dest] = s /\ subs[s].dest # d
        BY <1>2, <2>2, <3>2, <4>1, <4>4
      <4> QED
        BY <1>1, <3>2, <4>1, <4>2, <4>3, <4>4
    <3> QED
        BY <1>2, <2>1, <3>1, <3>2
  <2> QED
    BY <2>3, <2>4
<1>8. ASSUME NEW d \in Dests, NEW s, Unsubscribes(d, s)
      PROVE  DestOK' /\ OpenSubOK'
  <2>1. s \in 1 .. Len(subs) /\ s = destToSubs[d]
    BY <1>1, <1>8 DEF Unsubscribes
  <2>2. /\ Len(subs') = Len(subs)
        /\ \A u \in 1 .. Len(subs) :
              subs'[u].dest = subs[u].dest /\ subs'[u].open = (u # s /\ subs[u].open)
    BY <1>1, <1>8, <2>1, SubClosed DEF Unsubscribes
  <2>3. \A b \in Dests : destToSubs'[b] = IF b = d THEN 0 ELSE destToSubs[b]
    BY <1>2, <1>8 DEF Unsubscribes
  <2>4. DestOK'
    BY <1>1, <2>2, <2>3
  <2>5. ASSUME NEW v \in 1 .. Len(subs'), subs'[v].open
        PROVE  \/ destToSubs'[subs'[v].dest] = v
               \/ \E u \in v + 1 .. Len(subs') : subs'[u].dest = subs'[v].dest
    <3>1. v \in 1 .. Len(subs) /\ v # s /\ subs[v].open /\ subs'[v].dest = subs[v].dest
        BY <2>2, <2>5
    <3>2. CASE \E u \in v + 1 .. Len(subs) : subs[u].dest = subs[v].dest
        BY <1>2, <2>2, <3>1, <3>2
    <3>3. CASE destToSubs[subs[v].dest] = v
        BY <1>2, <2>1, <2>3, <3>1, <3>3
    <3> QED
        BY <1>1, <3>1, <3>2, <3>3
  <2> QED
    BY <2>4, <2>5
<1> QED
    BY <1>3, <1>4, <1>5, <1>6, <1>7, <1>8, UserSteps

----------------------------------------------------------------------------
\* A frame that does not belong to t leaves the frames of t as they are.
LEMMA OthersFrame ==
    ASSUME UserTypeOK, NEW t \in 1 .. Len(txs), NEW b \in Its(t), BeganAt(t, b),
           Len(frames') = Len(frames) + 1,
           \A k \in 1 .. Len(frames) : frames'[k] = frames[k],
           frames'[Len(frames) + 1].tx # t,
           txs'[t].conn = txs[t].conn, txs'[t].open = txs[t].open
    PROVE  b \in Its(t)' /\ BeganAt(t, b)'
<1>1. Len(frames) \in Nat
    BY TypeFacts
<1>2. Its(t)' = Its(t)
  <2>1. \A k \in 1 .. Len(frames') : k \in 1 .. Len(frames) \/ k = Len(frames) + 1
    BY <1>1
  <2>2. \A k \in Its(t)' : k \in Its(t)
    BY <2>1 DEF Its
  <2>3. \A k \in Its(t) : k \in Its(t)'
    BY <1>1 DEF Its
  <2> QED
    BY <2>2, <2>3
<1>3. \A k \in Its(t) : frames'[k] = frames[k]
    BY DEF Its
<1>4. Ends(t)' = Ends(t) /\ Ends(t) \subseteq Its(t)
    BY <1>2, <1>3 DEF Ends
<1>5. frames'[b] = frames[b] /\ \A e \in Ends(t) : frames'[e] = frames[e]
    BY <1>3, <1>4
<1>6. \A k \in Its(t)' \ {b} :
        /\ k > b /\ frames'[k].conn >= frames'[b].conn
        /\ frames'[k].cmd = "SEND" \/ k \in Ends(t)'
    BY <1>2, <1>3, <1>4, <1>5 DEF BeganAt
<1>7. \A e \in Ends(t)' : frames'[e].conn = frames'[b].conn /\ \A k \in Its(t)' : k <= e
    BY <1>2, <1>4, <1>5 DEF BeganAt
<1>8. /\ frames'[b].cmd = "BEGIN" /\ frames'[b].conn = txs'[t].conn
      /\ txs'[t].open <=> Ends(t)' = {}
    BY <1>4, <1>5 DEF BeganAt
<1> QED
    BY <1>2, <1>6, <1>7, <1>8 DEF BeganAt

\* One more frame of t: the ones before come first.
LEMMA ItsFrame ==
    ASSUME UserTypeOK, NEW t,
           Len(frames') = Len(frames) + 1,
           \A k \in 1 .. Len(frames) : frames'[k] = frames[k],
           frames'[Len(frames) + 1].tx = t
    PROVE  /\ Its(t)' = Its(t) \cup {Len(frames) + 1}
           /\ \A k \in Its(t) : k \in Nat /\ k < Len(frames) + 1 /\ frames'[k] = frames[k]
           /\ Ends(t) \subseteq Its(t)
           /\ Ends(t)' = Ends(t) \cup (IF frames'[Len(frames) + 1].cmd \in {"COMMIT", "ABORT"}
                                       THEN {Len(frames) + 1} ELSE {})
<1>1. Len(frames) \in Nat
    BY TypeFacts
<1>2. Its(t)' = Its(t) \cup {Len(frames) + 1}
    BY <1>1 DEF Its
<1>3. \A k \in Its(t) : k \in Nat /\ k < Len(frames) + 1 /\ frames'[k] = frames[k]
    BY <1>1 DEF Its
<1>4. Ends(t)' = {k \in Its(t)' : frames'[k].cmd \in {"COMMIT", "ABORT"}}
    BY DEF Ends
<1>5. Ends(t)' = Ends(t) \cup (IF frames'[Len(frames) + 1].cmd \in {"COMMIT", "ABORT"}
                               THEN {Len(frames) + 1} ELSE {})
  <2>1. CASE frames'[Len(frames) + 1].cmd \in {"COMMIT", "ABORT"}
    BY <1>2, <1>3, <1>4, <2>1 DEF Ends
  <2>2. CASE frames'[Len(frames) + 1].cmd \notin {"COMMIT", "ABORT"}
    BY <1>2, <1>3, <1>4, <2>2 DEF Ends
  <2> QED
    BY <2>1, <2>2
<1> QED
    BY <1>2, <1>3, <1>5 DEF Ends

\* A SEND over a connection that is not older, while t is open.
LEMMA SendFrame ==
    ASSUME UserTypeOK, NEW t \in 1 .. Len(txs), NEW b \in Its(t), BeganAt(t, b), txs[t].open,
           NEW c \in Nat, c >= txs[t].conn, Sends(c, "SEND", t), txs' = txs
    PROVE  b \in Its(t)' /\ BeganAt(t, b)'
<1>0. PICK n : n = Len(frames) + 1
    OBVIOUS
<1>1. t \in Nat /\ "SEND" \in Cmds
    BY <1>0, TypeFacts DEF Cmds
<1>2. /\ Len(frames') = n /\ \A k \in 1 .. Len(frames) : frames'[k] = frames[k]
      /\ frames'[n].conn = c /\ frames'[n].cmd = "SEND" /\ frames'[n].tx = t
    BY <1>0, <1>1, FrameSent
<1>3. Ends(t) = {}
    BY DEF BeganAt
<1>4. /\ Its(t)' = Its(t) \cup {n}
      /\ \A k \in Its(t) : k \in Nat /\ k < n /\ frames'[k] = frames[k]
      /\ Ends(t)' = {}
    BY <1>0, <1>2, <1>3, ItsFrame
<1>5. n > b
    BY <1>4
<1> QED
    BY <1>2, <1>3, <1>4, <1>5 DEF BeganAt

\* COMMIT or ABORT over the connection of t, while t is open.
LEMMA CloseFrame ==
    ASSUME UserTypeOK, NEW t \in 1 .. Len(txs), NEW b \in Its(t), BeganAt(t, b), txs[t].open,
           NEW cmd \in {"COMMIT", "ABORT"}, Sends(txs[t].conn, cmd, t),
           txs'[t].conn = txs[t].conn, ~txs'[t].open
    PROVE  b \in Its(t)' /\ BeganAt(t, b)'
<1>0. PICK n : n = Len(frames) + 1
    OBVIOUS
<1>1. t \in Nat /\ cmd \in Cmds /\ txs[t].conn \in Nat /\ n \in Nat
    BY <1>0, TypeFacts DEF Cmds
<1>2. /\ Len(frames') = n /\ \A k \in 1 .. Len(frames) : frames'[k] = frames[k]
      /\ frames'[n].conn = txs[t].conn /\ frames'[n].cmd = cmd /\ frames'[n].tx = t
    BY <1>0, <1>1, FrameSent
<1>3. Ends(t) = {}
    BY DEF BeganAt
<1>4. /\ Its(t)' = Its(t) \cup {n}
      /\ \A k \in Its(t) : k \in Nat /\ k < n /\ frames'[k] = frames[k]
      /\ Ends(t)' = {n}
    BY <1>0, <1>2, <1>3, ItsFrame
<1>5. n > b
    BY <1>4
<1>6. /\ frames[b].cmd = "BEGIN" /\ frames[b].conn = txs[t].conn
      /\ \A k \in Its(t) \ {b} :
            k > b /\ frames[k].conn >= frames[b].conn /\ frames[k].cmd = "SEND"
    BY <1>3 DEF BeganAt
<1>7. /\ frames'[b].cmd = "BEGIN" /\ frames'[b].conn = txs'[t].conn
      /\ frames'[n].conn = frames'[b].conn
    BY <1>2, <1>4, <1>6
<1>8. \A k \in Its(t)' \ {b} :
        /\ k > b /\ frames'[k].conn >= frames'[b].conn
        /\ frames'[k].cmd = "SEND" \/ k \in Ends(t)'
    BY <1>1, <1>4, <1>5, <1>6, <1>7
<1>9. \A k \in Its(t)' : k <= n
    BY <1>1, <1>4
<1> QED
    BY <1>4, <1>7, <1>8, <1>9 DEF BeganAt

\* The BEGIN of a transaction that no frame named before.
LEMMA BeginFrame ==
    ASSUME UserTypeOK, NEW t \in Nat, Its(t) = {}, NEW c \in Nat, Sends(c, "BEGIN", t),
           txs'[t].conn = c, txs'[t].open
    PROVE  \E b \in Its(t)' : BeganAt(t, b)'
<1>0. PICK n : n = Len(frames) + 1
    OBVIOUS
<1>1. "BEGIN" \in Cmds /\ n \in Nat
    BY <1>0, TypeFacts DEF Cmds
<1>2. /\ Len(frames') = n /\ \A k \in 1 .. Len(frames) : frames'[k] = frames[k]
      /\ frames'[n].conn = c /\ frames'[n].cmd = "BEGIN" /\ frames'[n].tx = t
    BY <1>0, <1>1, FrameSent
<1>3. Its(t)' = {n} /\ Ends(t)' = {}
    BY <1>0, <1>2, ItsFrame
<1>4. n \in Its(t)' /\ BeganAt(t, n)'
    BY <1>2, <1>3 DEF BeganAt
<1> QED
    BY <1>4

LEMMA FramesStep ==
    ASSUME UserInv, [Next]_vars
    PROVE  FramesOK'
<1> USE DEF FramesOK
<1>1. UserTypeOK /\ FramesOK
    BY DEF UserInv
<1>2. /\ Len(txs) \in Nat /\ client \in Nat /\ Len(frames) \in Nat
      /\ \A k \in 1 .. Len(frames) : frames[k].tx \in Nat
      /\ \A s \in 1 .. Len(subs) : subs[s].conn \in Nat
    BY <1>1, TypeFacts DEF UserTypeOK
<1>3. ASSUME UNCHANGED <<txs, frames>>
      PROVE  FramesOK'
    BY <1>1, <1>3 DEF BeganAt, Its, Ends
<1>4. ASSUME NEW c \in Nat, NEW cmd \in Cmds, Sends(c, cmd, 0), txs' = txs
      PROVE  FramesOK'
  <2>1. /\ Len(frames') = Len(frames) + 1
        /\ \A k \in 1 .. Len(frames) : frames'[k] = frames[k]
        /\ frames'[Len(frames) + 1].tx = 0
    BY <1>1, <1>4, FrameSent
  <2>2. \A k \in 1 .. Len(frames') : frames'[k].tx <= Len(txs')
    BY <1>1, <1>2, <1>4, <2>1
  <2>3. ASSUME NEW t \in 1 .. Len(txs)
        PROVE  \E b \in Its(t)' : BeganAt(t, b)'
    <3>1. PICK b \in Its(t) : BeganAt(t, b)
        BY <1>1
    <3> QED
        BY <1>1, <1>4, <2>1, <3>1, OthersFrame
  <2> QED
    BY <1>4, <2>2, <2>3
<1>5. CASE Quiet \/ Chooses
    BY <1>3, <1>5 DEF Quiet, Chooses, txVars
<1>6. ASSUME NEW a \in Aliases, Begins(a)
      PROVE  FramesOK'
  <2>0. PICK n : n = Len(txs) + 1
    OBVIOUS
  <2>1. n \in Nat /\ "BEGIN" \in Cmds /\ Sends(client, "BEGIN", n)
    BY <1>2, <1>6, <2>0 DEF Begins, Cmds
  <2>2. /\ Len(frames') = Len(frames) + 1
        /\ \A k \in 1 .. Len(frames) : frames'[k] = frames[k]
        /\ frames'[Len(frames) + 1].tx = n
    BY <1>1, <1>2, <2>1, FrameSent
  <2>3. /\ Len(txs') = n /\ \A t \in 1 .. Len(txs) : txs'[t] = txs[t]
        /\ txs'[n].conn = client /\ txs'[n].open
    BY <1>1, <1>6, <2>0, TxAdded DEF Begins
  <2>4. Its(n) = {}
    BY <1>1, <1>2, <2>0 DEF Its
  <2>5. \E b \in Its(n)' : BeganAt(n, b)'
    BY <1>1, <1>2, <2>1, <2>3, <2>4, BeginFrame
  <2>6. ASSUME NEW t \in 1 .. Len(txs)
        PROVE  \E b \in Its(t)' : BeganAt(t, b)'
    <3>1. PICK b \in Its(t) : BeganAt(t, b)
        BY <1>1
    <3>2. n # t
        BY <1>2, <2>0
    <3> QED
        BY <1>1, <2>2, <2>3, <3>1, <3>2, OthersFrame
  <2>7. \A k \in 1 .. Len(frames') : frames'[k].tx <= Len(txs')
    BY <1>1, <1>2, <2>0, <2>2, <2>3
  <2>8. \A t \in 1 .. Len(txs') : t = n \/ t \in 1 .. Len(txs)
    BY <1>2, <2>0, <2>3
  <2> QED
    BY <2>5, <2>6, <2>7, <2>8
<1>7. ASSUME NEW t, NEW cmd \in {"COMMIT", "ABORT"}, Closes(t, cmd)
      PROVE  FramesOK'
  <2>1. t \in 1 .. Len(txs) /\ txs[t].open /\ txs[t].conn \in Nat
    BY <1>7, CurrentFacts DEF Closes
  <2>2. t \in Nat /\ cmd \in Cmds /\ Sends(txs[t].conn, cmd, t)
    BY <1>7, <2>1 DEF Closes, Cmds
  <2>3. /\ Len(frames') = Len(frames) + 1
        /\ \A k \in 1 .. Len(frames) : frames'[k] = frames[k]
        /\ frames'[Len(frames) + 1].tx = t
    BY <1>1, <2>1, <2>2, FrameSent
  <2>4. /\ Len(txs') = Len(txs)
        /\ \A u \in 1 .. Len(txs) :
              txs'[u].conn = txs[u].conn /\ txs'[u].open = (u # t /\ txs[u].open)
    BY <1>1, <1>7, <2>1, TxClosed DEF Closes
  <2>5. ASSUME NEW u \in 1 .. Len(txs)
        PROVE  \E b \in Its(u)' : BeganAt(u, b)'
    <3>1. PICK b \in Its(u) : BeganAt(u, b)
        BY <1>1
    <3>2. CASE u = t
        BY <1>1, <2>1, <2>2, <2>4, <3>1, <3>2, CloseFrame
    <3>3. CASE u # t
      <4>1. txs'[u].open = txs[u].open
        <5>1. txs[u].open \in BOOLEAN
            BY <1>1, TypeFacts
        <5> QED
            BY <2>4, <3>3, <5>1
      <4> QED
        BY <1>1, <2>3, <2>4, <3>1, <3>3, <4>1, OthersFrame
    <3> QED
        BY <3>2, <3>3
  <2>6. \A k \in 1 .. Len(frames') : frames'[k].tx <= Len(txs')
    BY <1>1, <1>2, <2>1, <2>3, <2>4
  <2> QED
    BY <2>4, <2>5, <2>6
<1>8. ASSUME NEW tx, NEW cmd \in {"SEND", "DISCONNECT"}, Writes(cmd, tx)
      PROVE  FramesOK'
  <2>1. cmd \in Cmds /\ Sends(client, cmd, tx) /\ txs' = txs
    BY <1>8 DEF Writes, txVars, Cmds
  <2>2. CASE tx = 0
    BY <1>2, <1>4, <2>1, <2>2
  <2>3. CASE tx # 0
    <3>1. cmd = "SEND" /\ currTxAlias # None /\ tx = aliasToTx[currTxAlias]
        BY <1>8, <2>3 DEF Writes
    <3>2. tx \in 1 .. Len(txs) /\ txs[tx].open /\ txs[tx].conn \in Nat /\ txs[tx].conn <= client
        BY <3>1, CurrentFacts
    <3>3. tx \in Nat /\ client >= txs[tx].conn
        BY <1>2, <3>2
    <3>4. /\ Len(frames') = Len(frames) + 1
          /\ \A k \in 1 .. Len(frames) : frames'[k] = frames[k]
          /\ frames'[Len(frames) + 1].tx = tx
        BY <1>1, <1>2, <2>1, <3>3, FrameSent
    <3>5. ASSUME NEW u \in 1 .. Len(txs)
          PROVE  \E b \in Its(u)' : BeganAt(u, b)'
      <4>1. PICK b \in Its(u) : BeganAt(u, b)
        BY <1>1
      <4>2. CASE u = tx
        BY <1>1, <1>2, <2>1, <3>1, <3>2, <3>3, <4>1, <4>2, SendFrame
      <4>3. CASE u # tx
        BY <1>1, <2>1, <3>4, <4>1, <4>3, OthersFrame
      <4> QED
        BY <4>2, <4>3
    <3>6. \A k \in 1 .. Len(frames') : frames'[k].tx <= Len(txs')
        BY <1>1, <1>2, <2>1, <3>2, <3>4
    <3> QED
        BY <2>1, <3>5, <3>6
  <2> QED
    BY <2>2, <2>3
<1>9. ASSUME NEW d \in Dests, Subscribes(d)
      PROVE  FramesOK'
    BY <1>2, <1>4, <1>9 DEF Subscribes, txVars, Cmds
<1>10. ASSUME NEW d \in Dests, NEW s, Unsubscribes(d, s)
       PROVE  FramesOK'
  <2>1. s \in 1 .. Len(subs)
    BY <1>10 DEF Unsubscribes, UserInv, DestOK
  <2> QED
    BY <1>2, <1>4, <1>10, <2>1 DEF Unsubscribes, txVars, Cmds
<1> QED
    BY <1>5, <1>6, <1>7, <1>8, <1>9, <1>10, UserSteps

----------------------------------------------------------------------------
LEMMA UserInit == Init => UserInv
<1> SUFFICES ASSUME Init
             PROVE  UserInv
    OBVIOUS
<1>1. /\ txs = <<>> /\ subs = <<>> /\ frames = <<>> /\ client = 0 /\ currTxAlias = None
      /\ aliasToTx = [a \in Aliases |-> 0] /\ destToSubs = [d \in Dests |-> 0]
    BY DEF Init
<1>2. /\ txs \in Seq(TxRec) /\ subs \in Seq(SubRec) /\ frames \in Seq(FrameRec)
      /\ Len(txs) = 0 /\ Len(subs) = 0 /\ Len(frames) = 0
    BY <1>1, EmptySeq
<1> QED
    BY <1>1, <1>2
    DEF UserInv, UserTypeOK, AliasOK, DestOK, OpenTxOK, OpenSubOK, FramesOK

LEMMA UserInvariant == Spec => []UserInv
<1>1. UserInv /\ [Next]_vars => UserInv'
    BY UserTypeStep, AliasStep, OpenTxStep, SubsStep, FramesStep DEF UserInv
<1> QED
    BY <1>1, UserInit, PTL DEF Spec

\* tx_commit, tx_abort and send never meet a nil or a closed Transaction
\* (stomper.go:246, :261, :369).
THEOREM CurrentIsOpen == Spec => []CurrentTxKnown
<1>1. UserInv => CurrentTxKnown
  <2> SUFFICES ASSUME UserInv, currTxAlias # None
               PROVE  /\ aliasToTx[currTxAlias] # 0
                      /\ txs[aliasToTx[currTxAlias]].open
    BY DEF CurrentTxKnown
  <2> QED
    BY CurrentFacts
<1> QED
    BY <1>1, UserInvariant, PTL

\* What is open can be named by the user, unless a later one took its name
\* (stomper.go:236, :312).
THEOREM OpenStaysReachable == Spec => []OpenIsReachable
<1>1. UserInv => OpenIsReachable
  <2> SUFFICES ASSUME UserInv
               PROVE  OpenIsReachable
    OBVIOUS
  <2>1. DOMAIN txs = 1 .. Len(txs) /\ DOMAIN subs = 1 .. Len(subs)
    BY LenProperties DEF UserInv, UserTypeOK
  <2> QED
    BY <2>1 DEF UserInv, OpenTxOK, OpenSubOK, OpenIsReachable
<1> QED
    BY <1>1, UserInvariant, PTL

\* The frames of a transaction: a BEGIN, SENDs, and one COMMIT or ABORT over the
\* connection of the BEGIN once it is closed.
THEOREM TransactionFrames == Spec => []TxFramesOrdered
<1>1. UserInv => TxFramesOrdered
  <2> SUFFICES ASSUME UserInv
               PROVE  TxFramesOrdered
    OBVIOUS
  <2>1. DOMAIN txs = 1 .. Len(txs) /\ DOMAIN frames = 1 .. Len(frames)
    BY LenProperties DEF UserInv, UserTypeOK
  <2> SUFFICES
        ASSUME NEW t \in 1 .. Len(txs)
        PROVE  \E b \in Its(t) :
                  /\ frames[b].cmd = "BEGIN"
                  /\ \A k \in Its(t) \ {b} :
                        /\ k > b /\ frames[k].conn >= frames[b].conn
                        /\ frames[k].cmd = "SEND" \/ k \in Ends(t)
                  /\ \A e \in Ends(t) : frames[e].conn = frames[b].conn /\ \A k \in Its(t) : k <= e
                  /\ txs[t].open <=> Ends(t) = {}
    BY <2>1 DEF TxFramesOrdered, Its, Ends
  <2>2. PICK b \in Its(t) : BeganAt(t, b)
    BY DEF UserInv, FramesOK
  <2> QED
    BY <2>2 DEF BeganAt
<1> QED
    BY <1>1, UserInvariant, PTL

----------------------------------------------------------------------------
LEMMA ReadSteps ==
    ASSUME [Next]_vars
    PROVE  \/ UNCHANGED msgVars
           \/ \E all \in BOOLEAN : HandleRead(all)
           \/ ReadLoad \/ ReadStore
           \/ \E c \in Conns : AppendLoad(c) \/ AppendStore(c)
<1>1. CASE UNCHANGED vars
    BY <1>1 DEF vars, msgVars
<1>2. CASE HandleConnect \/ NoClient \/ BlankLine \/ HandleTxLeave \/ HandleSend \/ HandleDisconnect
    BY <1>2 DEF HandleConnect, NoClient, BlankLine, Panic, HandleTxLeave, HandleSend, HandleDisconnect
<1>3. CASE \/ \E a \in Aliases : HandleTxBegin(a) \/ HandleTxEnter(a)
           \/ \E cmd \in {"COMMIT", "ABORT"} : HandleTxEnd(cmd)
    BY <1>3 DEF HandleTxBegin, HandleTxEnter, HandleTxEnd
<1>4. CASE \E d \in Dests : HandleSubscribe(d) \/ HandleUnsubscribe(d)
    BY <1>4 DEF HandleSubscribe, HandleUnsubscribe, Panic
<1>5. CASE Torn \/ \E c \in Conns : ConnLost(c)
    BY <1>5 DEF Torn, ConnLost
<1> QED
    BY <1>1, <1>2, <1>3, <1>4, <1>5 DEF Next

LEMMA ReadTypeFacts ==
    ASSUME ReadTypeOK
    PROVE  /\ Len(messages) \in Nat /\ Len(shown) \in Nat /\ arrived \in Nat
           /\ None \notin Nat /\ None \notin Seq(Nat)
           /\ reading # None => reading \in Nat
           /\ loaded # None => loaded \in Seq(Nat) /\ Len(loaded) \in Nat
           /\ \A c \in Conns : appending[c] # None => appending[c] \in Seq(Nat)
           /\ Printed \in Nat
    BY LenProperties, StomperAssumption DEF ReadTypeOK, Printed

\* One or all of the messages are printed.
LEMMA HandleReadStep ==
    ASSUME ReadInv, NEW all \in BOOLEAN, HandleRead(all)
    PROVE  ReadInv'
<1>1. /\ ReadTypeOK /\ reading = None /\ messages # <<>> /\ messages \in Seq(Nat)
      /\ loaded = None /\ shown \in Seq(Nat)
    BY DEF ReadInv, ReadTypeOK, HandleRead, Line
<1>2. Len(messages) \in Nat \ {0} /\ Len(shown) \in Nat
    BY <1>1, EmptySeq, LenProperties
<1>3. PICK n \in 1 .. Len(messages) :
        /\ shown' = shown \o SubSeq(messages, 1, n) /\ reading' = n
  <2>1. CASE all
    BY <1>2, <2>1 DEF HandleRead
  <2>2. CASE ~all
    BY <1>2, <2>2 DEF HandleRead
  <2> QED
    BY <2>1, <2>2
<1>4. PICK s \in Seq(Nat) : /\ s = SubSeq(messages, 1, n) /\ Len(s) = n
                            /\ \A i \in 1 .. n : s[i] = messages[i]
  <2>1. n \in Int /\ 1 \in Int /\ \A i \in 1 .. n : messages[i] \in Nat
    BY <1>1, <1>2, ElementOfSeq
  <2>2. /\ SubSeq(messages, 1, n) \in Seq(Nat)
        /\ Len(SubSeq(messages, 1, n)) = IF 1 <= n THEN n - 1 + 1 ELSE 0
        /\ \A i \in 1 .. n - 1 + 1 : SubSeq(messages, 1, n)[i] = messages[1 + i - 1]
    BY <2>1, SubSeqProperties
  <2>3. /\ Len(SubSeq(messages, 1, n)) = n
        /\ \A i \in 1 .. n : SubSeq(messages, 1, n)[i] = messages[i]
    BY <1>2, <2>1, <2>2
  <2> QED
    BY <2>2, <2>3, Zenon
<1>5. /\ shown' \in Seq(Nat) /\ Len(shown') = Len(shown) + n
      /\ \A i \in 1 .. Len(shown) + n :
            shown'[i] = IF i <= Len(shown) THEN shown[i] ELSE s[i - Len(shown)]
    BY <1>1, <1>3, <1>4, ConcatProperties
<1>6. UNCHANGED <<messages, arrived, loaded, appending, raced>>
    BY DEF HandleRead
<1>7. ReadTypeOK'
    BY <1>1, <1>2, <1>3, <1>5, <1>6 DEF ReadTypeOK
<1>8. ASSUME InStep
      PROVE  InStep'
  <2>1. Printed = 0 /\ Printed' = n /\ Stored' = Stored
    BY <1>1, <1>2, <1>3, <1>6, StomperAssumption DEF Printed, Stored
  <2>2. /\ \A i \in 1 .. Len(shown) : shown[i] = i
        /\ \A i \in 1 .. Len(messages) : messages[i] = Len(shown) + i
        /\ Len(shown) + Len(messages) = Stored
    BY <1>2, <1>8, <2>1 DEF InStep
  <2>3. \A i \in 1 .. Len(shown') : shown'[i] = i
    BY <1>2, <1>3, <1>4, <1>5, <2>2
  <2>4. /\ Len(shown') - n = Len(shown) /\ n <= Len(messages)
    BY <1>2, <1>3, <1>5
  <2> QED
    BY <1>1, <1>6, <1>8, <2>1, <2>2, <2>3, <2>4 DEF InStep
<1> QED
    BY <1>6, <1>7, <1>8 DEF ReadInv

\* The rest of the slice is loaded.
LEMMA ReadLoadStep ==
    ASSUME ReadInv, ReadLoad
    PROVE  ReadInv'
<1>1. ReadTypeOK /\ reading # None /\ loaded = None /\ messages \in Seq(Nat)
    BY DEF ReadInv, ReadTypeOK, ReadLoad
<1>2. Len(messages) \in Nat /\ Len(shown) \in Nat /\ reading \in Nat /\ None \notin Seq(Nat)
    BY <1>1, ReadTypeFacts
<1>3. /\ raced' = (raced \/ Overlaps(Conns))
      /\ UNCHANGED <<messages, arrived, shown, reading, appending>>
    BY DEF ReadLoad
<1>4. CASE Len(messages) < reading
  <2>1. loaded' = loaded
    BY <1>4 DEF ReadLoad
  <2>2. ReadTypeOK'
    BY <1>1, <1>3, <2>1 DEF ReadTypeOK, Overlaps
  <2>3. InStep => InStep'
    BY <1>3, <2>1 DEF InStep, Printed, Stored
  <2> QED
    BY <1>3, <2>2, <2>3 DEF ReadInv, ReadTypeOK
<1>5. CASE ~(Len(messages) < reading)
  <2>1. loaded' = SubSeq(messages, reading + 1, Len(messages))
    BY <1>5 DEF ReadLoad
  <2>2. /\ loaded' \in Seq(Nat) /\ Len(loaded') = Len(messages) - reading
        /\ \A i \in 1 .. Len(messages) - reading : loaded'[i] = messages[reading + i]
    <3>1. /\ reading + 1 \in Int /\ Len(messages) \in Int
          /\ \A i \in reading + 1 .. Len(messages) : messages[i] \in Nat
        BY <1>1, <1>2, ElementOfSeq
    <3>2. PICK m, n : m = reading + 1 /\ n = Len(messages) /\ loaded' = SubSeq(messages, m, n)
        BY <2>1
    <3>3. /\ loaded' \in Seq(Nat)
          /\ Len(loaded') = IF m <= n THEN n - m + 1 ELSE 0
          /\ \A i \in 1 .. n - m + 1 : loaded'[i] = messages[m + i - 1]
        BY <3>1, <3>2, SubSeqProperties
    <3> QED
        BY <1>2, <1>5, <3>2, <3>3
  <2>3. ReadTypeOK'
    BY <1>1, <1>2, <1>3, <2>2 DEF ReadTypeOK, Overlaps
  <2>4. ASSUME InStep, ~Overlaps(Conns)
        PROVE  InStep'
    <3>1. Printed = reading /\ Printed' = reading /\ Stored' = Stored
        BY <1>1, <1>3 DEF Printed, Stored
    <3>2. \A c \in Conns : appending[c] = None /\ appending'[c] = None
        BY <1>3, <2>4 DEF Overlaps
    <3>3. \A i \in 1 .. Len(loaded') : loaded'[i] = Len(shown) + i
      <4> SUFFICES ASSUME NEW i \in 1 .. Len(loaded')
                   PROVE  loaded'[i] = Len(shown) + i
        OBVIOUS
      <4>1. reading + i \in 1 .. Len(messages)
        BY <1>2, <2>2
      <4>2. messages[reading + i] = Len(shown) - reading + (reading + i)
        BY <2>4, <3>1, <4>1 DEF InStep
      <4> QED
        BY <1>2, <2>2, <4>1, <4>2
    <3> QED
        BY <1>3, <2>2, <2>4, <3>1, <3>2, <3>3 DEF InStep
  <2> QED
    BY <1>3, <2>3, <2>4 DEF ReadInv
<1> QED
    BY <1>4, <1>5

\* The rest of the slice is stored.
LEMMA ReadStoreStep ==
    ASSUME ReadInv, ReadStore
    PROVE  ReadInv'
<1>1. ReadTypeOK /\ loaded # None /\ reading # None
    BY DEF ReadInv, ReadTypeOK, ReadStore
<1>2. /\ loaded \in Seq(Nat) /\ Len(loaded) \in Nat /\ Len(messages) \in Nat /\ Len(shown) \in Nat
      /\ reading \in Nat
    BY <1>1, ReadTypeFacts
<1>3. /\ messages' = loaded /\ reading' = None /\ loaded' = None
      /\ UNCHANGED <<arrived, shown, appending, raced>>
    BY DEF ReadStore
<1>4. ReadTypeOK'
    BY <1>1, <1>2, <1>3 DEF ReadTypeOK
<1>5. ASSUME InStep
      PROVE  InStep'
  <2>1. Printed = reading /\ Printed' = 0 /\ Stored' = Stored
    BY <1>1, <1>3 DEF Printed, Stored
  <2>2. /\ \A c \in Conns : appending[c] = None
        /\ Len(loaded) = Len(messages) - reading
        /\ \A i \in 1 .. Len(loaded) : loaded[i] = Len(shown) + i
        /\ Len(shown) - reading + Len(messages) = Stored
        /\ \A i \in 1 .. Len(shown) : shown[i] = i
    BY <1>1, <1>5, <2>1 DEF InStep
  <2>3. Len(shown') - Printed' = Len(shown)
    BY <1>2, <1>3, <2>1
  <2>4. Len(shown) + Len(loaded) = Stored
    BY <1>2, <2>2
  <2>5. /\ Len(shown') - Printed' + Len(messages') = Stored'
        /\ Printed' <= Len(messages')
    BY <1>2, <1>3, <2>1, <2>3, <2>4
  <2>6. \A i \in 1 .. Len(messages') : messages'[i] = Len(shown') - Printed' + i
    BY <1>3, <2>2, <2>3
  <2>7. \A c \in Conns : appending'[c] = None
    BY <1>3, <2>2
  <2> QED
    BY <1>3, <2>2, <2>5, <2>6, <2>7 DEF InStep
<1> QED
    BY <1>3, <1>4, <1>5 DEF ReadInv

\* append() loads the slice.
LEMMA AppendLoadStep ==
    ASSUME ReadInv, NEW c \in Conns, AppendLoad(c)
    PROVE  ReadInv'
<1>1. ReadTypeOK /\ appending[c] = None /\ messages \in Seq(Nat) /\ arrived \in Nat
    BY DEF ReadInv, ReadTypeOK, AppendLoad
<1>2. /\ arrived' = arrived + 1
      /\ appending' = [appending EXCEPT ![c] = Append(messages, arrived + 1)]
      /\ raced' = (raced \/ Overlaps(Conns \ {c}))
      /\ UNCHANGED <<messages, shown, reading, loaded>>
    BY DEF AppendLoad
<1>3. PICK s \in Seq(Nat) : s = Append(messages, arrived + 1)
  <2>1. arrived + 1 \in Nat
    BY <1>1
  <2>2. Append(messages, arrived + 1) \in Seq(Nat)
    BY <1>1, <2>1, AppendProperties
  <2> QED
    BY <2>2
<1>4. None \notin Seq(Nat) /\ s # None
    BY <1>3, StomperAssumption
<1>5. \A d \in Conns : appending'[d] = IF d = c THEN s ELSE appending[d]
    BY <1>1, <1>2, <1>3 DEF ReadTypeOK
<1>6. appending' \in [Conns -> Seq(Nat) \cup {None}]
    BY <1>1, <1>2, <1>3 DEF ReadTypeOK
<1>7. ReadTypeOK'
    BY <1>1, <1>2, <1>6 DEF ReadTypeOK, Overlaps
<1>8. ASSUME InStep, ~Overlaps(Conns \ {c})
      PROVE  InStep'
  <2>1. loaded = None /\ \A d \in Conns \ {c} : appending[d] = None
    BY <1>8 DEF Overlaps
  <2>2. \A d \in Conns : appending[d] = None
    BY <1>1, <2>1
  <2>3. Stored = arrived
    BY <2>2 DEF Stored
  <2>4. Stored' = Stored
    <3>1. appending'[c] # None
        BY <1>4, <1>5
    <3>2. Stored' = arrived' - 1
        BY <3>1 DEF Stored, Conns
    <3> QED
        BY <1>1, <1>2, <2>3, <3>2
  <2>5. Printed' = Printed
    BY <1>2 DEF Printed
  <2>6. \A d \in Conns : appending'[d] # None => d = c /\ appending'[d] = Append(messages, arrived')
    BY <1>2, <1>3, <1>5, <2>2
  <2> QED
    BY <1>2, <1>8, <2>1, <2>4, <2>5, <2>6 DEF InStep
<1> QED
    BY <1>2, <1>7, <1>8 DEF ReadInv

\* What append() returns is stored.
LEMMA AppendStoreStep ==
    ASSUME ReadInv, NEW c \in Conns, AppendStore(c)
    PROVE  ReadInv'
<1>1. /\ ReadTypeOK /\ appending[c] # None /\ messages \in Seq(Nat) /\ arrived \in Nat
      /\ appending[c] \in Seq(Nat)
    BY ReadTypeFacts DEF ReadInv, ReadTypeOK, AppendStore
<1>2. /\ messages' = appending[c] /\ appending' = [appending EXCEPT ![c] = None]
      /\ UNCHANGED <<arrived, shown, reading, loaded, raced>>
    BY DEF AppendStore
<1>3. ReadTypeOK'
    BY <1>1, <1>2 DEF ReadTypeOK
<1>4. \A d \in Conns : appending'[d] = IF d = c THEN None ELSE appending[d]
    BY <1>1, <1>2 DEF ReadTypeOK
<1>5. ASSUME InStep
      PROVE  InStep'
  <2>1. /\ \A d \in Conns : appending[d] # None => d = c
        /\ appending[c] = Append(messages, arrived)
        /\ loaded = None
    BY <1>1, <1>5 DEF InStep
  <2>2. \A d \in Conns : appending'[d] = None
    BY <1>4, <2>1
  <2>3. Stored = arrived - 1 /\ Stored' = arrived
    BY <1>1, <1>2, <2>2 DEF Stored, Conns
  <2>4. /\ Len(messages') = Len(messages) + 1
        /\ \A i \in 1 .. Len(messages) : messages'[i] = messages[i]
        /\ messages'[Len(messages) + 1] = arrived
    BY <1>1, <1>2, <2>1, AppendProperties
  <2>5. Printed' = Printed /\ Printed \in Nat /\ Len(messages) \in Nat /\ Len(shown) \in Nat
    BY <1>1, <1>2, ReadTypeFacts DEF Printed
  <2>6. /\ \A i \in 1 .. Len(shown) : shown[i] = i
        /\ Printed <= Len(messages)
        /\ Len(shown) - Printed + Len(messages) = Stored
        /\ \A i \in 1 .. Len(messages) : messages[i] = Len(shown) - Printed + i
    BY <1>5 DEF InStep
  <2>7. \A i \in 1 .. Len(messages') : messages'[i] = Len(shown) - Printed + i
    <3> SUFFICES ASSUME NEW i \in 1 .. Len(messages')
                 PROVE  messages'[i] = Len(shown) - Printed + i
        OBVIOUS
    <3>1. CASE i \in 1 .. Len(messages)
        BY <2>4, <2>6, <3>1
    <3>2. CASE i = Len(messages) + 1
      <4>1. arrived = Len(shown) - Printed + Len(messages) + 1
        BY <1>1, <2>3, <2>5, <2>6
      <4> QED
        BY <2>4, <2>5, <3>2, <4>1
    <3> QED
        BY <2>4, <2>5, <3>1, <3>2
  <2>8. Len(shown) - Printed + Len(messages') = Stored' /\ Printed <= Len(messages')
    BY <1>1, <2>3, <2>4, <2>5, <2>6
  <2> QED
    BY <1>2, <2>1, <2>2, <2>5, <2>6, <2>7, <2>8 DEF InStep
<1> QED
    BY <1>2, <1>3, <1>5 DEF ReadInv

LEMMA ReadInit == Init => ReadInv
<1> SUFFICES ASSUME Init
             PROVE  ReadInv
    OBVIOUS
<1>1. /\ messages = <<>> /\ shown = <<>> /\ arrived = 0 /\ reading = None /\ loaded = None
      /\ appending = [c \in Conns |-> None] /\ raced = FALSE
    BY DEF Init
<1>2. messages \in Seq(Nat) /\ shown \in Seq(Nat) /\ Len(messages) = 0 /\ Len(shown) = 0
    BY <1>1, EmptySeq
<1>3. \A c \in Conns : appending[c] = None
    BY <1>1
<1>4. ReadTypeOK
    BY <1>1, <1>2 DEF ReadTypeOK
<1>5. Printed = 0 /\ Stored = 0
    BY <1>1, <1>3 DEF Printed, Stored
<1>6. InStep
    BY <1>1, <1>2, <1>3, <1>5 DEF InStep
<1> QED
    BY <1>4, <1>6 DEF ReadInv

LEMMA ReadInvariant == Spec => []ReadInv
<1>1. ReadInv /\ [Next]_vars => ReadInv'
  <2> SUFFICES ASSUME ReadInv, [Next]_vars
               PROVE  ReadInv'
    OBVIOUS
  <2>1. CASE UNCHANGED msgVars
    BY <2>1 DEF msgVars, ReadInv, ReadTypeOK, InStep, Printed, Stored
  <2> QED
    BY <2>1, ReadSteps, HandleReadStep, ReadLoadStep, ReadStoreStep, AppendLoadStep, AppendStoreStep
<1> QED
    BY <1>1, ReadInit, PTL DEF Spec

\* read shows every message once and in order, and the reader of the connection loses
\* none, unless two loads and stores of ctx.messages overlap (stomper.go:139, :336).
THEOREM ReadIsExact == Spec => []ReadExactUnlessRacing
<1>1. ReadInv => ReadExactUnlessRacing
  <2> SUFFICES ASSUME ReadInv, ~raced, reading = None, \A c \in Conns : appending[c] = None
               PROVE  shown \o messages = [i \in 1 .. arrived |-> i]
    BY DEF ReadExactUnlessRacing
  <2>1. ReadTypeOK /\ InStep /\ Printed = 0 /\ Stored = arrived
    BY DEF ReadInv, Printed, Stored
  <2>2. /\ messages \in Seq(Nat) /\ shown \in Seq(Nat) /\ arrived \in Nat
        /\ Len(messages) \in Nat /\ Len(shown) \in Nat
    BY <2>1, ReadTypeFacts DEF ReadTypeOK
  <2>3. /\ \A i \in 1 .. Len(shown) : shown[i] = i
        /\ \A i \in 1 .. Len(messages) : messages[i] = Len(shown) + i
        /\ Len(shown) + Len(messages) = arrived
    BY <2>1, <2>2 DEF InStep
  <2>4. PICK both \in Seq(Nat) :
          /\ both = shown \o messages /\ Len(both) = Len(shown) + Len(messages)
          /\ \A i \in 1 .. Len(shown) + Len(messages) :
                both[i] = IF i <= Len(shown) THEN shown[i] ELSE messages[i - Len(shown)]
    <3>1. /\ shown \o messages \in Seq(Nat)
          /\ Len(shown \o messages) = Len(shown) + Len(messages)
          /\ \A i \in 1 .. Len(shown) + Len(messages) :
                (shown \o messages)[i] =
                    IF i <= Len(shown) THEN shown[i] ELSE messages[i - Len(shown)]
        BY <2>2, ConcatProperties
    <3> QED
        BY <3>1
  <2>5. both \in [1 .. arrived -> Nat]
    BY <2>3, <2>4, LenProperties
  <2>6. \A i \in 1 .. arrived : both[i] = i
    <3> SUFFICES ASSUME NEW i \in 1 .. arrived
                 PROVE  both[i] = i
        OBVIOUS
    <3>1. CASE i <= Len(shown)
        BY <2>2, <2>3, <2>4, <3>1
    <3>2. CASE ~(i <= Len(shown))
      <4>1. i - Len(shown) \in 1 .. Len(messages)
        BY <2>2, <2>3, <3>2
      <4> QED
        BY <2>2, <2>3, <2>4, <3>2, <4>1
    <3> QED
        BY <3>1, <3>2
  <2> QED
    BY <2>4, <2>5, <2>6
<1> QED
    BY <1>1, ReadInvariant, PTL
=============================================================================
