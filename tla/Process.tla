------------------------------ MODULE Process ------------------------------
(***************************************************************************)
(* The broker process: one goroutine per client session (tcp.go, Start in  *)
(* broker.go), each with the frame it is handling and the place it has     *)
(* reached in the handler.  A panic or a fatal error of the Go runtime in  *)
(* any goroutine ends the whole process: nothing in the repository calls   *)
(* recover().                                                              *)
(***************************************************************************)
EXTENDS Naturals, Sequences

CONSTANTS
    Sessions,   \* client connections; each one is accepted at most once
    Dests,      \* destinations
    SubsIDs,    \* values of the id header of SUBSCRIBE
    TxIDs,      \* values of the transaction header
    Empty,      \* the empty header value ""
    Nil,        \* Go's nil: an absent map entry, a free mutex
    ClientSends,\* the frames the clients of a run send (Cmds and OddFrames)
    MaxFrames   \* bound: how many frames one client sends

VARIABLES
    status,     \* "up", or what killed the process
    pc,         \* pc[s]: where the goroutine of session s is
    arg,        \* arg[s]: the frame s is handling, with the handler's locals
    msg         \* msg[s]: the frame handed to publish()

procVars == <<status, pc, arg, msg>>

\* Client Frame Commands that stateMachine() handles by calling other code.
Cmds == {"NONE", "SEND", "SUBSCRIBE", "UNSUBSCRIBE", "ACK", "NACK", "BEGIN",
         "COMMIT", "ABORT", "DISCONNECT"}

\* Frames Start() handles without the rest of the broker: CONNECT or STOMP, a
\* frame Validate() refuses, one NewFrameFromBytes() cannot decode, and bytes
\* frameSplitter() cannot split into frames.
OddFrames == {"CONNECT", "INVALID", "UNDECODABLE", "UNSCANNABLE"}

ASSUME ProcessAssumption ==
    /\ ClientSends \subseteq Cmds \cup OddFrames
    /\ MaxFrames \in Nat
    /\ Nil \notin Sessions
    /\ Empty \notin Dests \cup SubsIDs

AckModes == {"", "auto", "client", "client-individual"}

(***************************************************************************)
(* A decoded frame: its command, the headers the broker looks at, and who  *)
(* sent it as the no-th frame of the session (the identity of a message;   *)
(* bodies are not interpreted).  ack is the number in the id of an ACK.    *)
(***************************************************************************)
Frame == [cmd: Cmds, from: Sessions, no: Nat, dest: Dests \cup {Empty},
          id: SubsIDs \cup {Empty}, tx: TxIDs \cup {Empty},
          mode: AckModes, ack: Nat]

Blank(s, n) == [cmd |-> "NONE", from |-> s, no |-> n, dest |-> Empty,
                id |-> Empty, tx |-> Empty, mode |-> "", ack |-> 0]

Labels == {"none", "idle", "return", "done", "ended",
           "add1", "add2", "add3", "add4", "add5",
           "rm1", "rm2", "rm3", "rm4", "rm5", "rm6", "rm7", "rm8",
           "cleanup1", "cleanup2", "bye1", "bye2",
           "ack1", "ack2", "ack3", "pub", "wait",
           "beg1", "beg2", "buf1", "buf2", "buf3", "abt1", "abt2",
           "com1", "com2", "foreach"}

Deaths == {"nil pointer", "nil map", "nil set", "nil frame",
           "index out of range", "concurrent map access"}

ProcInit ==
    /\ status = "up"
    /\ pc = [s \in Sessions |-> "none"]
    /\ arg = [s \in Sessions |-> Blank(s, 0)]
    /\ msg = [s \in Sessions |-> Blank(s, 0)]

At(s, label) == pc[s] = label

Goto(s, label) == pc' = [pc EXCEPT ![s] = label]

\* Control goes on to label within the handler; its frame stays as it is.
Continue(s, label) == Goto(s, label) /\ UNCHANGED <<status, arg, msg>>

\* Start() can take a frame of this kind from the frame scanner's channel.  The
\* scanner may hold frames that arrived before the connection was closed.
MayReceive(s, kind) ==
    /\ At(s, "idle")
    /\ kind \in ClientSends
    /\ arg[s].no < MaxFrames

\* A frame that is handled in one step, ending at label ("idle" or "return").
HandledAtOnce(s, label) ==
    /\ Goto(s, label)
    /\ arg' = [arg EXCEPT ![s] = Blank(s, arg[s].no + 1)]
    /\ UNCHANGED <<status, msg>>

\* The handler returns nil: Start() takes the next frame from the scanner.
Return(s) ==
    /\ Goto(s, "idle")
    /\ arg' = [arg EXCEPT ![s] = Blank(s, arg[s].no)]
    /\ msg' = [msg EXCEPT ![s] = Blank(s, 0)]
    /\ UNCHANGED status

\* The handler returns an error: Start() returns and its deferred cleanup runs.
Fail(s) ==
    /\ Goto(s, "return")
    /\ arg' = [arg EXCEPT ![s] = Blank(s, arg[s].no)]
    /\ msg' = [msg EXCEPT ![s] = Blank(s, 0)]
    /\ UNCHANGED status

\* The goroutine panics, which ends the process.
Panic(why) == status' = why /\ UNCHANGED <<pc, arg, msg>>

ProcTypeOK ==
    /\ status \in {"up"} \cup Deaths
    /\ pc \in [Sessions -> Labels]
    /\ arg \in [Sessions -> Frame]
    /\ msg \in [Sessions -> Frame]
=============================================================================
