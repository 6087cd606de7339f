--------------------------- MODULE BrokerStreams ---------------------------
(***************************************************************************)
(* The broker implements TopicStream: subsInfo objects are subscriptions,  *)
(* the sendIt goroutines that have not written yet are what a call still   *)
(* has to do.                                                              *)
(***************************************************************************)
EXTENDS Broker

\* p is in the map of its destination and the connection of its session works.
Reachable(p) ==
    IF info[p] = Nil THEN FALSE
    ELSE Lookup(info[p].dest, info[p].id) = p /\ conn[info[p].sess] = "open"

Stream == INSTANCE TopicStream WITH
    Publishers <- Sessions, Subs <- Addr, Topics <- Dests, Messages <- Frame,
    Width <- AckMod, None <- Nil,
    topic <- [p \in Addr |-> IF info[p] = Nil THEN Nil ELSE info[p].dest],
    reachable <- [p \in Addr |-> Reachable(p)],
    stream <- log,
    calls <- npub,
    cur <- [s \in Sessions |-> IF At(s, "wait") THEN msg[s] ELSE Nil],
    todo <- [s \in Sessions |-> {p \in Addr : gor[s][p] \in {"due", "start", "locked"}}]

\* Publishing implements TopicStream whatever the interleaving of publishers, of
\* their sendIt goroutines and of clients that subscribe, leave or crash: streams
\* are numbered without gaps, a call deals with every subscription of its
\* destination once, and leaves out only what is unreachable at that moment.
ImplementsTopicStream == Stream!Spec
=============================================================================
