---------------------------- MODULE TopicStream ----------------------------
(***************************************************************************)
(* What publish() promises, without maps, goroutines and locks: every      *)
(* subscription has a stream of numbered messages; a publisher makes one   *)
(* call at a time, and a call writes its message once to the stream of     *)
(* each subscription of the topic, and leaves one out only if it cannot be *)
(* reached at that moment.                                                 *)
(***************************************************************************)
EXTENDS Naturals, Sequences

CONSTANTS
    Publishers,
    Subs,       \* identities of subscriptions
    Topics,
    Messages,   \* records with a field dest
    Width,      \* the numbers of a stream are 0 .. Width - 1, cyclically
    None        \* no topic, no message

VARIABLES
    topic,      \* topic[p]: the topic of subscription p, None before there is one
    reachable,  \* reachable[p]: p is subscribed at present and its peer connected
    stream,     \* stream[p]: what p was sent
    calls,      \* calls[s]: how often s has published
    cur,        \* cur[s]: the message s is publishing, None between two calls
    todo        \* todo[s]: the subscriptions that the call has not dealt with

vars == <<topic, reachable, stream, calls, cur, todo>>

Init ==
    /\ topic = [p \in Subs |-> None]
    /\ reachable = [p \in Subs |-> FALSE]
    /\ stream = [p \in Subs |-> <<>>]
    /\ calls = [s \in Publishers |-> 0]
    /\ cur = [s \in Publishers |-> None]
    /\ todo = [s \in Publishers |-> {}]

\* A subscription is made; others may become unreachable by it.
Open(p) ==
    /\ topic[p] = None
    /\ \E t \in Topics : topic' = [topic EXCEPT ![p] = t]
    /\ reachable' \in [Subs -> BOOLEAN]
    /\ UNCHANGED <<stream, calls, cur, todo>>

\* Peers leave, subscriptions are cancelled or displaced.
Churn ==
    /\ reachable' \in [Subs -> BOOLEAN]
    /\ UNCHANGED <<topic, stream, calls, cur, todo>>

Begin(s) ==
    /\ cur[s] = None
    /\ cur'[s] \in Messages
    /\ cur' = [cur EXCEPT ![s] = cur'[s]]
    /\ calls' = [calls EXCEPT ![s] = @ + 1]
    /\ todo' = [todo EXCEPT ![s] = {p \in Subs : p \in todo'[s]}]
    /\ \A p \in todo'[s] : topic[p] = cur'[s].dest
    /\ \A p \in Subs : reachable[p] /\ topic[p] = cur'[s].dest => p \in todo'[s]
    /\ UNCHANGED <<topic, reachable, stream>>

Deliver(s, p) ==
    /\ p \in todo[s]
    /\ stream' = [stream EXCEPT ![p] = Append(@,
                     [by |-> s, pub |-> calls[s], ack |-> Len(@) % Width, msg |-> cur[s]])]
    /\ todo' = [todo EXCEPT ![s] = @ \ {p}]
    /\ UNCHANGED <<topic, reachable, calls, cur>>

LeaveOut(s, p) ==
    /\ p \in todo[s]
    /\ ~reachable[p]
    /\ todo' = [todo EXCEPT ![s] = @ \ {p}]
    /\ UNCHANGED <<topic, reachable, stream, calls, cur>>

End(s) ==
    /\ cur[s] # None
    /\ todo[s] = {}
    /\ cur' = [cur EXCEPT ![s] = None]
    /\ UNCHANGED <<topic, reachable, stream, calls, todo>>

Next ==
    \/ Churn
    \/ \E p \in Subs : Open(p)
    \/ \E s \in Publishers :
        \/ Begin(s)
        \/ End(s)
        \/ \E p \in Subs : Deliver(s, p) \/ LeaveOut(s, p)

Spec == Init /\ [][Next]_vars
=============================================================================
