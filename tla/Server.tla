------------------------------- MODULE Server -------------------------------
(***************************************************************************)
(* The life of the broker's process: StartBroker, ListenAndServe and       *)
(* Shutdown of the TCP broker (tcp.go) and of the Websocket broker         *)
(* (websocket.go), the goroutine that waits for SIGTERM or SIGINT, and     *)
(* stompd, which ends when ListenAndServe returns.                         *)
(***************************************************************************)
EXTENDS Broker

CONSTANT TransportOpts  \* the values of BrokerOpts.Transport of a run

ASSUME ServerAssumption == TransportOpts \subseteq {"", "TCP", "Websocket"}

VARIABLES
    transport,
    listener,   \* "none" (not listening yet), "open", "closed" (by Shutdown)
    serve       \* ListenAndServe: "called", "accept", "wait", "returned"

serverVars == <<transport, listener, serve>>
allVars == <<vars, serverVars>>

\* Mutant: the default is not filled in.
TransportAsIs(opt) == opt

\* The default value of BrokerOpts.Transport.
TransportOf(opt) == IF opt = "" THEN "TCP" ELSE opt

\* startTcpBroker listens before it returns; http.Server listens when it serves.
ServerInit ==
    /\ Init
    /\ transport \in {TransportOf(opt) : opt \in TransportOpts}
    /\ listener = IF transport = "TCP" THEN "open" ELSE "none"
    /\ serve = "called"

\* Shutdown closes the listener and nothing else; http.Server also remembers it
\* when it does not listen yet.  The goroutine that takes the first SIGTERM or
\* SIGINT from termChan calls it, and so may the program that embeds the broker.
Shutdown ==
    /\ listener # "closed"
    /\ listener' = "closed"
    /\ UNCHANGED <<vars, transport, serve>>

\* ListenAndServe begins.  Listening fails when the address is in use, or after
\* Shutdown, and then http.Server returns.
ServeBegin ==
    /\ serve = "called"
    /\ \/ /\ listener # "closed" \/ transport = "TCP"
          /\ serve' = "accept"
          /\ listener' = IF listener = "none" THEN "open" ELSE listener
       \/ /\ transport = "Websocket"
          /\ serve' = "returned"
          /\ UNCHANGED listener
    /\ UNCHANGED <<vars, transport>>

\* Mutant: the loop goes on after every error of Accept.
AcceptAgain ==
    /\ serve = "accept"
    /\ listener = "closed"
    /\ UNCHANGED allVars

\* Accept on a closed listener fails: the TCP loop goes on to wgSessions.Wait(),
\* and http.Server returns; it has no part in connections that were hijacked.
AcceptClosed ==
    /\ serve = "accept"
    /\ listener = "closed"
    /\ serve' = IF transport = "TCP" THEN "wait" ELSE "returned"
    /\ UNCHANGED <<vars, transport, listener>>

\* Every error of Accept ends the TCP loop, a passing one too (no descriptors
\* left, a connection reset before it was accepted).
AcceptError ==
    /\ transport = "TCP"
    /\ serve = "accept"
    /\ serve' = "wait"
    /\ UNCHANGED <<vars, transport, listener>>

\* s has not called wgSessions.Done().
Running(s) == pc[s] \notin {"none", "done", "ended"}

\* Mutant: ListenAndServe does not wait for the sessions.
WaitNotAtAll ==
    /\ serve = "wait"
    /\ serve' = "returned"
    /\ UNCHANGED <<vars, transport, listener>>

\* wgSessions.Wait(): every session has called Done().
WaitSessions ==
    /\ serve = "wait"
    /\ \A s \in Sessions : ~Running(s)
    /\ serve' = "returned"
    /\ UNCHANGED <<vars, transport, listener>>

\* A session starts while the loop accepts.  An HTTP request that came in before
\* Shutdown may become a session after it.
MayAccept == serve = "accept" /\ (listener = "open" \/ transport = "Websocket")

BrokerStep ==
    /\ Next
    /\ \A s \in Sessions : At(s, "none") /\ pc'[s] # "none" => MayAccept
    /\ UNCHANGED serverVars

Serving == ServeBegin \/ AcceptClosed \/ WaitSessions

\* The process is over when ListenAndServe has returned or a goroutine panicked.
ServerNext ==
    /\ status = "up"
    /\ serve # "returned"
    /\ \/ Shutdown \/ Serving \/ AcceptError
       \/ BrokerStep

(***************************************************************************)
(* Fairness: the goroutines of the process run.  The scanner of a          *)
(* connection that is closed sees the end of the stream.                   *)
(***************************************************************************)
ProcessUp == status = "up" /\ serve # "returned"

SessionRuns(s) ==
    /\ ProcessUp
    /\ \/ Handling(s)
       \/ EndOfStream(s) /\ UNCHANGED <<subVars, txVars, clientVars>>
    /\ UNCHANGED serverVars

SenderRuns(s, p) == ProcessUp /\ Sending(s, p) /\ UNCHANGED serverVars

ServerSpec ==
    /\ ServerInit /\ [][ServerNext]_allVars
    /\ \A s \in Sessions : WF_allVars(SessionRuns(s))
    /\ \A s \in Sessions, p \in Addr : WF_allVars(SenderRuns(s, p))
    /\ WF_allVars(ProcessUp /\ Serving)

----------------------------------------------------------------------------
\* The type invariant of the transports.
ServerTypeOK ==
    /\ transport \in {"TCP", "Websocket"}
    /\ listener \in {"none", "open", "closed"}
    /\ serve \in {"called", "accept", "wait", "returned"}

\* "Shutdown should be called to bring down the underlying server gracefully"
\* (broker.go:303), for TCP: when ListenAndServe returns no client is cut off. Each
\* connection that was ever accepted has been closed by its own session. The heartbeat
\* jobs that are left belong to handshakes that were repeated, or to a session that is
\* just between Done() and the removal of its job: then the one it knows of is left too.
GracefulReturn ==
    serve = "returned" /\ transport = "TCP" =>
        \A s \in Sessions :
            /\ conn[s] \in {"none", "closed"}
            /\ jobs[s] = 1 .. (IF At(s, "done") THEN hbJob[s] ELSE hbJob[s] - 1)

\* Once Shutdown was called and the clients have gone ListenAndServe returns: no
\* session can keep the others from ending, unless one of them is left waiting for
\* a MESSAGE that could not be written (publish() without wg.Done()).
ShutdownCompletes ==
    (listener = "closed" /\ \A s \in Sessions : conn[s] # "open")
        ~> \/ serve = "returned"
           \/ status # "up"
           \/ \E s \in Sessions : conn[s] = "open"
           \/ \E s \in Sessions, p \in Addr : gor[s][p] = "failed"
=============================================================================
