------------------------------ MODULE Session ------------------------------
(***************************************************************************)
(* The Session of broker.go: its connection, the CONNECT handshake with    *)
(* the heartbeat negotiation, the ERROR and RECEIPT frames it writes, and  *)
(* its end.  Heartbeat jobs live in the process-wide gocron scheduler.     *)
(***************************************************************************)
EXTENDS Process

CONSTANTS
    BrokerSendMsec, \* BrokerOpts.HeartbeatSendIntervalMsec
    BrokerRecvMsec, \* BrokerOpts.HeartbeatReceiveIntervalMsec
    HbHeaders       \* pairs <<send, receive>> of heart-beat headers clients send

ASSUME SessionAssumption ==
    /\ BrokerSendMsec \in Nat
    /\ BrokerRecvMsec \in Nat
    /\ HbHeaders \subseteq (Nat \X Nat)

VARIABLES
    conn,    \* conn[s]: "none", "open", "gone" (the peer left), "closed" (by us)
    out,     \* out[s]: the frames written to s other than MESSAGE
    hbSend,  \* hbSend[s]: hbSendIntervalMsec
    hbRecv,  \* hbRecv[s]: hbRecvIntervalMsec
    hbJob,   \* hbJob[s]: the job the session knows of, 0 when nil
    jobs,    \* jobs[s]: the jobs of s in the scheduler (1 is the first one made)
    every    \* every[s][j]: the interval that job j was scheduled with

sessVars == <<conn, out, hbSend, hbRecv, hbJob, jobs, every>>

SessInit ==
    /\ conn = [s \in Sessions |-> "none"]
    /\ out = [s \in Sessions |-> <<>>]
    /\ hbSend = [s \in Sessions |-> BrokerSendMsec]
    /\ hbRecv = [s \in Sessions |-> BrokerRecvMsec]
    /\ hbJob = [s \in Sessions |-> 0]
    /\ jobs = [s \in Sessions |-> {}]
    /\ every = [s \in Sessions |-> <<>>]

(***************************************************************************)
(* conn.Write under backoff.Retry, by its final outcome.  It succeeds on   *)
(* an open connection, fails on one we closed, and may do either when the  *)
(* peer has left (the kernel may still take the bytes).                    *)
(***************************************************************************)
WriteSucceeds(s) == conn[s] \in {"open", "gone"}

WriteFails(s) == conn[s] \in {"gone", "closed"}

\* send() of a control frame whose error the caller ignores.
SendIgnoringError(s, f) ==
    \/ WriteSucceeds(s) /\ out' = [out EXCEPT ![s] = Append(@, f)]
    \/ WriteFails(s) /\ UNCHANGED out

hbVars == <<hbSend, hbRecv, hbJob, jobs, every>>

\* The accept loop takes a connection and starts its session's goroutine.
Accept(s) ==
    /\ At(s, "none")
    /\ conn' = [conn EXCEPT ![s] = "open"]
    /\ Continue(s, "idle")
    /\ UNCHANGED <<out, hbVars>>

\* The peer closes the connection or crashes, at any time.
PeerLeaves(s) ==
    /\ conn[s] = "open"
    /\ conn' = [conn EXCEPT ![s] = "gone"]
    /\ UNCHANGED <<procVars, out, hbVars>>

\* Mutant: the smaller interval wins.
NegotiateMin(ours, theirs) ==
    IF theirs = 0 \/ ours = 0 THEN 0 ELSE IF theirs < ours THEN theirs ELSE ours

\* negotiateHeartbeats: one direction, from our interval and the client's.
Negotiate(ours, theirs) ==
    IF theirs = 0 \/ ours = 0 THEN 0 ELSE IF theirs > ours THEN theirs ELSE ours

\* negotiateHeartbeats of a heart-beat header hb, which schedules a new job when
\* heartbeats are to be sent and removes none; Nil is a CONNECT without the header.
NegotiateHeartbeats(s, hb) ==
    IF hb = Nil THEN UNCHANGED hbVars
    ELSE /\ hbRecv' = [hbRecv EXCEPT ![s] = Negotiate(@, hb[1])]
         /\ hbSend' = [hbSend EXCEPT ![s] = Negotiate(@, hb[2])]
         /\ IF hbSend'[s] = 0 THEN UNCHANGED <<hbJob, jobs, every>>
            ELSE /\ hbJob' = [hbJob EXCEPT ![s] = @ + 1]
                 /\ jobs' = [jobs EXCEPT ![s] = @ \cup {hbJob'[s]}]
                 /\ every' = [every EXCEPT ![s] = Append(@, hbSend'[s])]

\* handleConnect of a client that is let in.  The session ends if CONNECTED
\* cannot be written.
Connect(s, hb) ==
    /\ MayReceive(s, "CONNECT")
    /\ NegotiateHeartbeats(s, hb)
    /\ \/ /\ WriteSucceeds(s)
          /\ out' = [out EXCEPT ![s] = Append(@, "CONNECTED")]
          /\ HandledAtOnce(s, "idle")
       \/ /\ WriteFails(s)
          /\ HandledAtOnce(s, "return")
          /\ UNCHANGED out
    /\ UNCHANGED conn

\* handleConnect when loginFunc refuses the credentials.
ConnectDenied(s) ==
    /\ MayReceive(s, "CONNECT")
    /\ SendIgnoringError(s, "ERROR")
    /\ HandledAtOnce(s, "return")
    /\ UNCHANGED <<conn, hbVars>>

\* handleConnect when accept-version lacks 1.2 or heart-beat does not parse.
ConnectRefused(s) ==
    /\ MayReceive(s, "CONNECT")
    /\ HandledAtOnce(s, "return")
    /\ UNCHANGED sessVars

\* Start(): a frame that Validate() refuses is answered with ERROR, unless send()
\* refuses that too: the message header quotes what was wrong.
InvalidFrame(s) ==
    /\ MayReceive(s, "INVALID")
    /\ SendIgnoringError(s, "ERROR") \/ UNCHANGED out
    /\ HandledAtOnce(s, "return")
    /\ UNCHANGED <<conn, hbVars>>

\* Start(): after a decoding error frame is nil, and frame.String(), a method on
\* the value, dereferences it before the ERROR is sent.
UndecodableFrame(s) ==
    /\ MayReceive(s, "UNDECODABLE")
    /\ Panic("nil frame")
    /\ UNCHANGED sessVars

\* DISCONNECT after its cleanupSubscriptions: RECEIPT is sent, and the connection
\* is closed whether that worked or not.
ByeReceipt(s) ==
    /\ At(s, "bye1")
    /\ SendIgnoringError(s, "RECEIPT")
    /\ Continue(s, "bye2")
    /\ UNCHANGED <<conn, hbVars>>

\* Mutant: DISCONNECT leaves the connection open.
ByeNoClose(s) ==
    /\ At(s, "bye2")
    /\ Return(s)
    /\ UNCHANGED sessVars

ByeClose(s) ==
    /\ At(s, "bye2")
    /\ conn' = [conn EXCEPT ![s] = "closed"]
    /\ Return(s)
    /\ UNCHANGED <<out, hbVars>>

\* The scanner's channel is closed once reading fails: Start() leaves its loop.
EndOfStream(s) ==
    /\ At(s, "idle")
    /\ conn[s] \in {"gone", "closed"}
    /\ Fail(s)
    /\ UNCHANGED sessVars

\* frameSplitter() returns an error: the scanner stops and closes its channel
\* although the connection is open.
ScannerStops(s) ==
    /\ MayReceive(s, "UNSCANNABLE")
    /\ HandledAtOnce(s, "return")
    /\ UNCHANGED sessVars

\* The deferred cleanup(): the connection is closed and wgSessions.Done() is called.
\* The two may be one step: only wgSessions.Wait() could see the state in between.
Cleanup(s) ==
    /\ At(s, "return")
    /\ conn' = [conn EXCEPT ![s] = "closed"]
    /\ Continue(s, "done")
    /\ UNCHANGED <<out, hbVars>>

\* After Done() the job the session knows of is removed, if it knows of one.
RemoveJob(s) ==
    /\ At(s, "done")
    /\ jobs' = [jobs EXCEPT ![s] = @ \ {hbJob[s]}]
    /\ Continue(s, "ended")
    /\ UNCHANGED <<conn, out, hbSend, hbRecv, hbJob, every>>

SessionStep(s) ==
    \/ Accept(s)
    \/ PeerLeaves(s)
    \/ \E hb \in HbHeaders \cup {Nil} : Connect(s, hb)
    \/ ConnectDenied(s)
    \/ ConnectRefused(s)
    \/ InvalidFrame(s)
    \/ UndecodableFrame(s)
    \/ ByeReceipt(s)
    \/ ByeClose(s)
    \/ EndOfStream(s)
    \/ ScannerStops(s)
    \/ Cleanup(s)
    \/ RemoveJob(s)

SessTypeOK ==
    /\ conn \in [Sessions -> {"none", "open", "gone", "closed"}]
    /\ out \in [Sessions -> Seq({"CONNECTED", "RECEIPT", "ERROR"})]
    /\ hbSend \in [Sessions -> Nat]
    /\ hbRecv \in [Sessions -> Nat]
    /\ hbJob \in [Sessions -> Nat]
    /\ jobs \in [Sessions -> SUBSET Nat]
    /\ every \in [Sessions -> Seq(Nat)]
=============================================================================
