------------------------------ MODULE Stomper ------------------------------
(***************************************************************************)
(* cmd/stomper/stomper.go: the command-line client.  The prompt calls      *)
(* executor() with one line after the other; the reader of every           *)
(* connection made so far calls msgHandler(), which appends to             *)
(* ctx.messages without a lock.  Connections, transactions and             *)
(* subscriptions are numbered in the order in which they are made.         *)
(***************************************************************************)
EXTENDS Naturals, Sequences, FiniteSets

CONSTANTS
    Aliases,    \* the names the user gives to transactions
    Dests,
    MaxLines,   \* bound: lines that the user enters
    MaxConns,   \* bound: connect lines
    MaxMsgs,    \* bound: messages that arrive
    None

\* None is no name, no number and no slice.
ASSUME StomperAssumption ==
    /\ MaxLines \in Nat /\ MaxConns \in Nat /\ MaxMsgs \in Nat
    /\ None \notin Aliases \cup Nat /\ None \notin Seq(Nat)

VARIABLES
    proc,       \* "up", "exit" after bye, "panic"
    nlines,
    client,     \* ctx.client: the number of the connection, 0 for nil
    lost,       \* connections that have ended
    currTxAlias,
    aliasToTx,  \* alias => number of the transaction, 0 when there is none
    txs,        \* the transactions: connection, alias and state
    destToSubs, \* destination => number of the subscription, 0 when there is none
    subs,       \* the subscriptions: connection, destination and state
    frames,     \* the frames sent so far: connection, command, transaction (history)
    messages,   \* ctx.messages
    arrived,    \* how many messages have come: they are 1 .. arrived
    shown,      \* the messages that read has printed (history)
    reading,    \* handleRead(): None, or how many messages are to be removed
    loaded,     \* handleRead(): the ctx.messages that it slices, or None
    appending,  \* connection => the slice that its msgHandler() stores, or None
    raced       \* two of these overlapped (history)

txVars == <<currTxAlias, aliasToTx, txs>>
subVars == <<destToSubs, subs>>
msgVars == <<messages, arrived, shown, reading, loaded, appending, raced>>
vars == <<proc, nlines, client, lost, txVars, subVars, frames, msgVars>>

Conns == 1 .. MaxConns

Init ==
    /\ proc = "up" /\ nlines = 0 /\ client = 0 /\ lost = {}
    /\ currTxAlias = None /\ aliasToTx = [a \in Aliases |-> 0] /\ txs = <<>>
    /\ destToSubs = [d \in Dests |-> 0] /\ subs = <<>> /\ frames = <<>>
    /\ messages = <<>> /\ arrived = 0 /\ shown = <<>>
    /\ reading = None /\ loaded = None
    /\ appending = [c \in Conns |-> None] /\ raced = FALSE

----------------------------------------------------------------------------
\* executor(): the next line, when the last one was handled.
Line ==
    /\ proc = "up" /\ reading = None
    /\ nlines < MaxLines
    /\ nlines' = nlines + 1

\* A frame is written to connection c.  It can fail when the connection has ended.
Sends(c, cmd, tx) == frames' = Append(frames, [conn |-> c, cmd |-> cmd, tx |-> tx])

MayFail(c) == c \in lost /\ UNCHANGED frames

\* connect: NewClientHandler() ends the program when it cannot dial; ctx keeps the
\* transactions and the subscriptions of the connection before.
HandleConnect ==
    /\ Line
    /\ client < MaxConns
    /\ \/ client' = client + 1 /\ UNCHANGED proc
       \/ proc' = "exit" /\ UNCHANGED client
    /\ UNCHANGED <<lost, txVars, subVars, frames, msgVars>>

\* A method of a nil ClientHandler or Subscription, and a line of blanks.
Panic ==
    /\ proc' = "panic"
    /\ UNCHANGED <<client, lost, txVars, subVars, frames, msgVars>>

NoClient == Line /\ client = 0 /\ Panic

BlankLine == Line /\ Panic

\* tx_begin
HandleTxBegin(alias) ==
    /\ Line /\ client # 0
    /\ currTxAlias = None
    /\ \/ /\ Sends(client, "BEGIN", Len(txs) + 1)
          /\ txs' = Append(txs, [conn |-> client, alias |-> alias, open |-> TRUE])
          /\ aliasToTx' = [aliasToTx EXCEPT ![alias] = Len(txs) + 1]
          /\ currTxAlias' = alias
       \/ MayFail(client) /\ UNCHANGED txVars
    /\ UNCHANGED <<proc, client, lost, subVars, msgVars>>

HandleTxEnter(alias) ==
    /\ Line
    /\ aliasToTx[alias] # 0
    /\ currTxAlias' = alias
    /\ UNCHANGED <<proc, client, lost, aliasToTx, txs, subVars, frames, msgVars>>

HandleTxLeave ==
    /\ Line
    /\ currTxAlias' = None
    /\ UNCHANGED <<proc, client, lost, aliasToTx, txs, subVars, frames, msgVars>>

\* Mutant: tx_commit leaves the transaction without forgetting its alias.
HandleTxEndKeepAlias(cmd) ==
    LET t == aliasToTx[currTxAlias] IN
    /\ Line
    /\ currTxAlias # None
    /\ txs[t].open
    /\ Sends(txs[t].conn, cmd, t)
    /\ txs' = [txs EXCEPT ![t].open = FALSE]
    /\ currTxAlias' = None
    /\ UNCHANGED <<proc, client, lost, aliasToTx, subVars, msgVars>>

\* Mutant: tx_commit forgets the alias even when the COMMIT could not be sent.
HandleTxEndForget(cmd) ==
    LET t == aliasToTx[currTxAlias] IN
    /\ Line
    /\ currTxAlias # None
    /\ \/ Sends(txs[t].conn, cmd, t) /\ txs' = [txs EXCEPT ![t].open = FALSE]
       \/ MayFail(txs[t].conn) /\ UNCHANGED txs
    /\ aliasToTx' = [aliasToTx EXCEPT ![currTxAlias] = 0]
    /\ currTxAlias' = None
    /\ UNCHANGED <<proc, client, lost, subVars, msgVars>>

\* tx_commit and tx_abort: over the connection that began the transaction.
HandleTxEnd(cmd) ==
    LET t == aliasToTx[currTxAlias] IN
    /\ Line
    /\ currTxAlias # None
    /\ \/ /\ Sends(txs[t].conn, cmd, t)
          /\ txs' = [txs EXCEPT ![t].open = FALSE]
          /\ aliasToTx' = [aliasToTx EXCEPT ![currTxAlias] = 0]
          /\ currTxAlias' = None
       \/ MayFail(txs[t].conn) /\ UNCHANGED txVars
    /\ UNCHANGED <<proc, client, lost, subVars, msgVars>>

\* send: the header of the current transaction, over the last connection.
HandleSend ==
    /\ Line /\ client # 0
    /\ \/ Sends(client, "SEND", IF currTxAlias = None THEN 0 ELSE aliasToTx[currTxAlias])
       \/ MayFail(client)
    /\ UNCHANGED <<proc, client, lost, txVars, subVars, msgVars>>

HandleSubscribe(d) ==
    /\ Line /\ client # 0
    /\ \/ /\ Sends(client, "SUBSCRIBE", 0)
          /\ subs' = Append(subs, [conn |-> client, dest |-> d, open |-> TRUE])
          /\ destToSubs' = [destToSubs EXCEPT ![d] = Len(subs) + 1]
       \/ MayFail(client) /\ UNCHANGED subVars
    /\ UNCHANGED <<proc, client, lost, txVars, msgVars>>

HandleUnsubscribe(d) ==
    LET s == destToSubs[d] IN
    /\ Line
    /\ IF s = 0 THEN Panic
       ELSE /\ \/ /\ Sends(subs[s].conn, "UNSUBSCRIBE", 0)
                  /\ subs' = [subs EXCEPT ![s].open = FALSE]
                  /\ destToSubs' = [destToSubs EXCEPT ![d] = 0]
               \/ MayFail(subs[s].conn) /\ UNCHANGED subVars
            /\ UNCHANGED <<proc, client, lost, txVars, msgVars>>

\* disconnect, bye and quit: os.Exit(0), whether DISCONNECT could be sent or not.
HandleDisconnect ==
    /\ Line /\ client # 0
    /\ Sends(client, "DISCONNECT", 0) \/ MayFail(client)
    /\ proc' = "exit"
    /\ UNCHANGED <<client, lost, txVars, subVars, msgVars>>

----------------------------------------------------------------------------
\* Another access to ctx.messages is between its load and its store.
Overlaps(others) == loaded # None \/ \E c \in others : appending[c] # None

\* read, and read -a: the messages are printed and afterwards sliced off.
HandleRead(all) ==
    /\ Line
    /\ messages # <<>>
    /\ LET n == IF all THEN Len(messages) ELSE 1 IN
        /\ shown' = shown \o SubSeq(messages, 1, n)
        /\ reading' = n
    /\ UNCHANGED <<proc, client, lost, txVars, subVars, frames,
                   messages, arrived, loaded, appending, raced>>

\* Mutant: the last message printed stays.
ReadLoadOffByOne ==
    /\ proc = "up" /\ reading # None /\ loaded = None
    /\ loaded' = SubSeq(messages, reading, Len(messages))
    /\ raced' = (raced \/ Overlaps(Conns))
    /\ UNCHANGED <<proc, nlines, client, lost, txVars, subVars, frames,
                   messages, arrived, shown, reading, appending>>

\* ctx.messages[poll+1:] is loaded, and stored in a step of its own.  When another
\* append has stored less in the meantime the bound is out of range.
ReadLoad ==
    /\ proc = "up" /\ reading # None /\ loaded = None
    /\ IF Len(messages) < reading THEN proc' = "panic" /\ UNCHANGED loaded
       ELSE loaded' = SubSeq(messages, reading + 1, Len(messages)) /\ UNCHANGED proc
    /\ raced' = (raced \/ Overlaps(Conns))
    /\ UNCHANGED <<nlines, client, lost, txVars, subVars, frames,
                   messages, arrived, shown, reading, appending>>

ReadStore ==
    /\ proc = "up" /\ loaded # None
    /\ messages' = loaded
    /\ reading' = None /\ loaded' = None
    /\ UNCHANGED <<proc, nlines, client, lost, txVars, subVars, frames,
                   arrived, shown, appending, raced>>

\* msgHandler() of connection c: append() loads the slice, and the result is stored.
AppendLoad(c) ==
    /\ proc = "up"
    /\ c \in 1 .. client /\ c \notin lost /\ appending[c] = None
    /\ arrived < MaxMsgs
    /\ arrived' = arrived + 1
    /\ appending' = [appending EXCEPT ![c] = Append(messages, arrived + 1)]
    /\ raced' = (raced \/ Overlaps(Conns \ {c}))
    /\ UNCHANGED <<proc, nlines, client, lost, txVars, subVars, frames,
                   messages, shown, reading, loaded>>

AppendStore(c) ==
    /\ proc = "up" /\ appending[c] # None
    /\ messages' = appending[c]
    /\ appending' = [appending EXCEPT ![c] = None]
    /\ UNCHANGED <<proc, nlines, client, lost, txVars, subVars, frames,
                   arrived, shown, reading, loaded, raced>>

\* The data race on ctx.messages: a slice is stored in several words, so one that is
\* read or written meanwhile may get the length of one slice and the array of another.
Torn ==
    /\ proc = "up"
    /\ Cardinality({c \in Conns : appending[c] # None}) + (IF reading # None THEN 1 ELSE 0) > 1
    /\ proc' = "panic"
    /\ UNCHANGED <<nlines, client, lost, txVars, subVars, frames, msgVars>>

\* The broker or the network ends a connection.
ConnLost(c) ==
    /\ proc = "up" /\ c \in 1 .. client /\ c \notin lost
    /\ lost' = lost \cup {c}
    /\ UNCHANGED <<proc, nlines, client, txVars, subVars, frames, msgVars>>

Next ==
    \/ HandleConnect \/ NoClient \/ BlankLine \/ HandleTxLeave \/ HandleSend \/ HandleDisconnect
    \/ \E a \in Aliases : HandleTxBegin(a) \/ HandleTxEnter(a)
    \/ \E cmd \in {"COMMIT", "ABORT"} : HandleTxEnd(cmd)
    \/ \E d \in Dests : HandleSubscribe(d) \/ HandleUnsubscribe(d)
    \/ \E all \in BOOLEAN : HandleRead(all)
    \/ ReadLoad \/ ReadStore \/ Torn
    \/ \E c \in Conns : AppendLoad(c) \/ AppendStore(c) \/ ConnLost(c)

Spec == Init /\ [][Next]_vars

----------------------------------------------------------------------------
\* The current transaction, if there is one, is in aliasToTx and can still be used:
\* tx_commit, tx_abort and send never meet a nil or closed Transaction, whatever was
\* entered, left, failed or reconnected before (stomper.go:246, :261, :369).
CurrentTxKnown ==
    currTxAlias # None => aliasToTx[currTxAlias] # 0 /\ txs[aliasToTx[currTxAlias]].open

\* A transaction or subscription that is still open can be named by the user, unless
\* a later one took its alias or its destination (stomper.go:236, :312); one that
\* could not be closed because its connection has ended included.
OpenIsReachable ==
    /\ \A t \in DOMAIN txs : txs[t].open =>
          \/ aliasToTx[txs[t].alias] = t
          \/ \E u \in t + 1 .. Len(txs) : txs[u].alias = txs[t].alias
    /\ \A s \in DOMAIN subs : subs[s].open =>
          \/ destToSubs[subs[s].dest] = s
          \/ \E u \in s + 1 .. Len(subs) : subs[u].dest = subs[s].dest

\* The frames of a transaction are a BEGIN, SENDs and at most one COMMIT or ABORT over
\* the connection of the BEGIN, in this order, also when the user goes back and forth
\* between transactions and connections.
TxFramesOrdered ==
    \A t \in DOMAIN txs :
        LET its == {k \in DOMAIN frames : frames[k].tx = t}
            ends == {k \in its : frames[k].cmd \in {"COMMIT", "ABORT"}}
        IN \E b \in its :
              /\ frames[b].cmd = "BEGIN"
              /\ \A k \in its \ {b} :
                    /\ k > b /\ frames[k].conn >= frames[b].conn
                    /\ frames[k].cmd = "SEND" \/ k \in ends
              /\ \A e \in ends : frames[e].conn = frames[b].conn /\ \A k \in its : k <= e
              /\ txs[t].open <=> ends = {}

\* read shows every message once and in the order of arrival, and none is lost between
\* the prompt and the reader of the connection, unless two of them were between the
\* load and the store of ctx.messages at the same time (stomper.go:139, :336).
ReadExactUnlessRacing ==
    ~raced /\ reading = None /\ (\A c \in Conns : appending[c] = None)
        => shown \o messages = [i \in 1 .. arrived |-> i]
=============================================================================
