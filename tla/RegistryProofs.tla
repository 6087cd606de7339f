--------------------------- MODULE RegistryProofs ---------------------------
(***************************************************************************)
(* The three maps of subscribe.go when every client is a ClientHandler,    *)
(* whose subscription IDs are never reused: whatever the interleaving of   *)
(* addSubscription, removeSubscription and cleanupSubscriptions, what can  *)
(* be routed can be found, no method is called on a nil set, and only      *)
(* another subscriber of its destination displaces a subscription.         *)
(***************************************************************************)
EXTENDS DeliveryProofs

USE DEF At

Adding == {"add1", "add2", "add3", "add4", "add5"}

Removing == {"rm1", "rm2", "rm3", "rm4", "rm5", "rm6", "rm7", "rm8"}

\* Where the maps disagree about the subscription in hand.
Touching == {"add4", "add5", "rm5", "rm6", "rm7", "rm8"}

\* i is in the set of session s.
Live(s, i) == sessToSubsMap[s] # Nil /\ i \in sessToSubsMap[s]

\* An object was made for ID i and destination d.
Known(i, d) == \E p \in 1 .. nInfo : info[p].id = i /\ info[p].dest = d

Untouched(i) == subsToDestMap[i] = Nil /\ \A p \in 1 .. nInfo : info[p].id # i

\* Somebody else has asked for destination d.
Shared(d, i) == \E j \in Asked(d) : j # i

----------------------------------------------------------------------------
\* What holds of a session, by the place its handler has reached.

\* Handlers work on IDs of their own session.
OwnID(s) ==
    pc[s] \in Adding \cup Removing => arg[s].id \in SubsIDs /\ issued[arg[s].id] = s

NewID(s) == pc[s] \in {"add1", "add2", "add3"} => Untouched(arg[s].id)

AddOK(s) ==
    /\ pc[s] = "add4" => Known(arg[s].id, arg[s].dest)
    /\ pc[s] = "add4" => subsToDestMap[arg[s].id] = Nil

RemoveOK(s) ==
    /\ pc[s] \in {"add5", "rm2", "rm3", "rm4", "rm5", "rm6", "rm7", "rm8"} =>
            subsToDestMap[arg[s].id] = arg[s].dest
    /\ pc[s] \in {"rm2", "rm3", "rm4"} => Live(s, arg[s].id)
    /\ pc[s] \in {"rm5", "rm6", "rm7", "rm8"} => ~Live(s, arg[s].id)
    /\ pc[s] = "rm4" => info[ptr[s]].id = arg[s].id
    /\ pc[s] \in {"rm6", "rm7", "rm8"} => \A d \in Dests : Lookup(d, arg[s].id) = Nil

AckOK(s) ==
    /\ pc[s] \in {"ack1", "ack2"} => Known(arg[s].id, arg[s].dest)
    /\ pc[s] = "ack2" => Live(s, arg[s].id) \/ issued[arg[s].id] # s

\* cleanupSubscriptions has yet to remove what is left in the session's set.
CleanupOK(s) ==
    /\ pc[s] = "cleanup2" => sessToSubsMap[s] = rmIDs[s]
    /\ Disconnecting(s) /\ pc[s] \in {"rm1", "rm2", "rm3", "rm4"} =>
            sessToSubsMap[s] = rmIDs[s] \cup {arg[s].id} /\ arg[s].id \notin rmIDs[s]
    /\ Disconnecting(s) /\ pc[s] \in {"rm5", "rm6", "rm7", "rm8"} =>
            sessToSubsMap[s] = rmIDs[s]

SessOK(s) == OwnID(s) /\ NewID(s) /\ AddOK(s) /\ RemoveOK(s) /\ AckOK(s) /\ CleanupOK(s)

----------------------------------------------------------------------------
\* What holds of a subscription ID.

\* One object at most, made by the session that uses the ID.
ObjectOK(i) ==
    /\ issued[i] = Nil => Untouched(i)
    /\ \A p \in 1 .. nInfo : info[p].id = i => issued[i] = info[p].sess
    /\ \A p, q \in 1 .. nInfo : info[p].id = i /\ info[q].id = i => p = q

IndexOK(i) ==
    subsToDestMap[i] # Nil =>
        /\ Known(i, subsToDestMap[i])
        /\ \/ Live(issued[i], i)
           \/ pc[issued[i]] \in Touching \ {"add4"} /\ arg[issued[i]].id = i

SetOK(i) == \A s \in Sessions : Live(s, i) => issued[i] = s /\ subsToDestMap[i] # Nil

RouteOK(i) ==
    \A d \in Dests : Lookup(d, i) # Nil =>
        \/ pc[issued[i]] \in {"add4", "add5", "rm5"} /\ arg[issued[i]].id = i
        \/ subsToDestMap[i] = d /\ Live(issued[i], i)

\* Routed, unless somebody else subscribed to the destination.
DisplacedOK(i) ==
    \A d \in Dests :
        /\ Known(i, d)
        /\ \/ Live(issued[i], i)
           \/ pc[issued[i]] \in {"add4", "add5"} /\ arg[issued[i]].id = i
        => Lookup(d, i) # Nil \/ Shared(d, i)

IDOK(i) == ObjectOK(i) /\ IndexOK(i) /\ SetOK(i) /\ RouteOK(i) /\ DisplacedOK(i)

NilPointerOK ==
    status = "nil pointer" => \/ \E d \in Dests : \E i, j \in Asked(d) : i # j
                              \/ \E s \in Sessions : AcksForeign(s)

RegInv ==
    /\ \A s \in Sessions : SessOK(s)
    /\ \A i \in SubsIDs : IDOK(i)
    /\ NoNilSet /\ NilPointerOK

----------------------------------------------------------------------------
\* A step of session s that concerns the IDs in F leaves the rest as it is.
StepOf(s, F) ==
    /\ \A t \in Sessions \ {s} :
          /\ pc'[t] = pc[t] /\ arg'[t] = arg[t] /\ ptr'[t] = ptr[t]
          /\ rmIDs'[t] = rmIDs[t] /\ sessToSubsMap'[t] = sessToSubsMap[t]
    /\ \A i \in SubsIDs \ F :
          /\ issued'[i] = issued[i] /\ subsToDestMap'[i] = subsToDestMap[i]
          /\ Live(s, i)' <=> Live(s, i)
          /\ \A d \in Dests : Lookup(d, i)' \in {Lookup(d, i), Nil}
    /\ pc[s] \in Touching => arg[s].id \in F
    /\ pc'[s] \in Touching => arg'[s].id \in F
    /\ \A i \in F : issued[i] \in {s, Nil} /\ issued'[i] \in {s, Nil}
    /\ \A p \in 1 .. nInfo : p \in 1 .. nInfo' /\ info'[p] = info[p]
    /\ \A p \in 1 .. nInfo' : p \in 1 .. nInfo \/ info'[p].id \in F

LEMMA KnownStays ==
    ASSUME NEW s, NEW F, StepOf(s, F), NEW i, NEW d, Known(i, d)
    PROVE  Known(i, d)'
BY DEF Known, StepOf

LEMMA UntouchedStays ==
    ASSUME NEW s, NEW F, StepOf(s, F), NEW i \in SubsIDs \ F, Untouched(i)
    PROVE  Untouched(i)'
BY DEF Untouched, StepOf

\* The other sessions' handlers are not disturbed.
LEMMA OthersKept ==
    ASSUME TypeInv, NEW s \in Sessions, NEW F, StepOf(s, F), NEW t \in Sessions \ {s},
           SessOK(t)
    PROVE  SessOK(t)'
<1>1. /\ pc'[t] = pc[t] /\ arg'[t] = arg[t] /\ ptr'[t] = ptr[t]
      /\ rmIDs'[t] = rmIDs[t] /\ sessToSubsMap'[t] = sessToSubsMap[t]
  BY DEF StepOf
<1>2. t # Nil
  BY ProcessAssumption
<1>3. pc[t] \in Adding \cup Removing => arg[t].id \in SubsIDs \ F /\ issued[arg[t].id] = t
  BY <1>2 DEF SessOK, OwnID, StepOf
<1>4. OwnID(t)'
  BY <1>1, <1>3 DEF OwnID, StepOf
<1>5. NewID(t)'
  BY <1>1, <1>3, UntouchedStays DEF SessOK, NewID, Adding
<1>6. AddOK(t)'
  <2>1. PICK i, d : i = arg[t].id /\ d = arg[t].dest
    OBVIOUS
  <2>2. pc[t] = "add4" => i \in SubsIDs \ F /\ Known(i, d) /\ subsToDestMap[i] = Nil
    BY <1>3, <2>1 DEF Adding, SessOK, AddOK
  <2>3. pc[t] = "add4" => Known(i, d)' /\ subsToDestMap'[i] = Nil
    BY <2>2, KnownStays DEF StepOf
  <2> QED
    BY <1>1, <2>1, <2>3 DEF AddOK
<1>7. RemoveOK(t)'
  <2>1. pc[t] \in {"add5", "rm2", "rm3", "rm4", "rm5", "rm6", "rm7", "rm8"} =>
            arg[t].id \in SubsIDs \ F
    BY <1>3 DEF Adding, Removing
  <2>2. pc[t] = "rm4" => info'[ptr[t]] = info[ptr[t]]
    <3>1. pc[t] = "rm4" => ptr[t] \in 1 .. nInfo
      BY HeapTypes DEF TypeInv, SubTypeOK, ArgsOK
    <3> QED
      BY <3>1 DEF StepOf
  <2>3. pc[t] \in {"rm6", "rm7", "rm8"} => \A d \in Dests : Lookup(d, arg[t].id)' = Nil
    BY <2>1 DEF SessOK, RemoveOK, StepOf
  <2>4. Live(t, arg[t].id)' <=> Live(t, arg[t].id)
    BY <1>1 DEF Live
  <2> QED
    BY <1>1, <2>1, <2>2, <2>3, <2>4 DEF SessOK, RemoveOK, StepOf
<1>8. AckOK(t)'
  <2>1. PICK i, d : i = arg[t].id /\ d = arg[t].dest
    OBVIOUS
  <2>2. pc[t] \in {"ack1", "ack2"} => Known(i, d) /\ i \in SubsIDs
    BY <2>1 DEF SessOK, AckOK, TypeInv, ArgsOK, NamesSubscription
  <2>3. pc[t] \in {"ack1", "ack2"} => Known(i, d)' /\ (issued'[i] = t => issued[i] = t)
    BY <1>2, <2>2, KnownStays DEF StepOf
  <2> QED
    BY <1>1, <2>1, <2>3 DEF SessOK, AckOK, Live
<1>9. CleanupOK(t)'
  BY <1>1 DEF SessOK, CleanupOK, Disconnecting
<1> QED
  BY <1>4, <1>5, <1>6, <1>7, <1>8, <1>9 DEF SessOK

LEMMA AskedIs ==
    \A d, j : j \in Asked(d) <=>
        \/ Known(j, d)
        \/ \E t \in Sessions : /\ pc[t] \in {"add1", "add2", "add3"}
                               /\ arg[t].dest = d /\ arg[t].id = j
BY DEF Asked, Known

\* A destination that s is asking for stays asked for.
AsksOn(s) ==
    pc[s] \in {"add1", "add2", "add3"} /\ arg[s].dest \in Dests =>
        \/ pc'[s] \in {"add1", "add2", "add3"} /\ arg'[s] = arg[s]
        \/ \E p \in 1 .. nInfo' : info'[p].id = arg[s].id /\ info'[p].dest = arg[s].dest

LEMMA AskedGrows ==
    ASSUME NEW s \in Sessions, NEW F, StepOf(s, F), AsksOn(s)
    PROVE  \A d \in Dests : \A i : Shared(d, i) => Shared(d, i)'
<1>1. SUFFICES ASSUME NEW d \in Dests, NEW j \in Asked(d)
               PROVE  j \in Asked(d)'
  BY DEF Shared
<1>2. \/ Known(j, d)'
      \/ \E t \in Sessions : /\ pc'[t] \in {"add1", "add2", "add3"}
                             /\ arg'[t].dest = d /\ arg'[t].id = j
  <2>1. CASE Known(j, d)
    BY <2>1, KnownStays
  <2>2. CASE \E t \in Sessions : /\ pc[t] \in {"add1", "add2", "add3"}
                                 /\ arg[t].dest = d /\ arg[t].id = j
    <3>1. PICK t \in Sessions : /\ pc[t] \in {"add1", "add2", "add3"}
                                /\ arg[t].dest = d /\ arg[t].id = j
      BY <2>2
    <3>2. CASE t = s
      BY <3>1, <3>2 DEF AsksOn, Known
    <3>3. CASE t # s
      BY <3>1, <3>3 DEF StepOf
    <3> QED
      BY <3>2, <3>3
  <2> QED
    BY <1>1, <2>1, <2>2, AskedIs
<1> QED
  BY <1>2 DEF Asked, Known

\* Nor are the other IDs.
LEMMA IDsKept ==
    ASSUME TypeInv, StreamInv, NEW s \in Sessions, NEW F, StepOf(s, F), AsksOn(s),
           NEW i \in SubsIDs \ F, IDOK(i),
           \A d \in Dests : Lookup(d, i)' = Lookup(d, i) \/ Shared(d, i)'
    PROVE  IDOK(i)'
<1>1. issued'[i] = issued[i] /\ subsToDestMap'[i] = subsToDestMap[i]
  BY DEF StepOf
<1>2. \A t \in Sessions : Live(t, i)' <=> Live(t, i)
  BY DEF StepOf, Live
<1>3. \A p \in 1 .. nInfo' : info'[p].id = i => p \in 1 .. nInfo /\ info'[p] = info[p]
  BY DEF StepOf
<1>4. \A d : Known(i, d)' => Known(i, d)
  BY <1>3 DEF Known
<1>5. ObjectOK(i)'
  <2>1. issued[i] = Nil => Untouched(i)'
    BY UntouchedStays DEF IDOK, ObjectOK
  <2>2. \A p \in 1 .. nInfo' : info'[p].id = i => issued[i] = info'[p].sess
    BY <1>3 DEF IDOK, ObjectOK
  <2>3. \A p, q \in 1 .. nInfo' : info'[p].id = i /\ info'[q].id = i => p = q
    BY <1>3 DEF IDOK, ObjectOK
  <2> QED
    BY <1>1, <2>1, <2>2, <2>3 DEF ObjectOK
<1>6. SetOK(i)'
  BY <1>1, <1>2 DEF IDOK, SetOK
<1>7. CASE issued[i] = Nil
  <2>1. Untouched(i) /\ Untouched(i)'
    BY <1>7, UntouchedStays DEF IDOK, ObjectOK
  <2>2. \A d \in Dests : Lookup(d, i) = Nil
    BY <2>1, LookupType, HeapTypes DEF Untouched, StreamInv, RoutesOK
  <2>3. \A d \in Dests : Lookup(d, i)' = Nil
    BY <2>2 DEF StepOf
  <2> QED
    BY <1>5, <1>6, <2>1, <2>3 DEF IDOK, Untouched, IndexOK, RouteOK, DisplacedOK, Known
<1>8. CASE issued[i] # Nil
  <2>1. PICK t : t = issued[i]
    OBVIOUS
  <2>2. t \in Sessions /\ issued'[i] = t
    BY <1>1, <1>8, <2>1 DEF TypeInv, TypeOK
  <2>3. \/ pc'[t] = pc[t] /\ arg'[t] = arg[t]
        \/ /\ pc[t] \in Touching => arg[t].id # i
           /\ pc'[t] \in Touching => arg'[t].id # i
    BY <2>2 DEF StepOf
  <2>4. IndexOK(i)'
    <3>1. PICK d : d = subsToDestMap[i]
      OBVIOUS
    <3>2. SUFFICES ASSUME d # Nil
                   PROVE  /\ Known(i, d)'
                          /\ Live(t, i)' \/ (pc'[t] \in Touching \ {"add4"} /\ arg'[t].id = i)
      BY <1>1, <2>2, <3>1 DEF IndexOK, Known, Live
    <3>3. Known(i, d)'
      <4>1. Known(i, d)
        BY <3>1, <3>2 DEF IDOK, IndexOK
      <4> QED
        BY <4>1, KnownStays
    <3>4. Live(t, i) \/ (pc[t] \in Touching \ {"add4"} /\ arg[t].id = i)
      BY <2>1, <3>1, <3>2 DEF IDOK, IndexOK
    <3>5. CASE Live(t, i)
      BY <1>2, <2>2, <3>3, <3>5
    <3>6. CASE pc[t] \in Touching \ {"add4"} /\ arg[t].id = i
      BY <2>3, <3>3, <3>6
    <3> QED
      BY <3>4, <3>5, <3>6
  <2>5. RouteOK(i)'
    <3>1. SUFFICES ASSUME NEW d \in Dests, Lookup(d, i)' # Nil
                   PROVE  \/ pc'[t] \in {"add4", "add5", "rm5"} /\ arg'[t].id = i
                          \/ subsToDestMap'[i] = d /\ Live(t, i)'
      BY <2>2 DEF RouteOK
    <3>2. Lookup(d, i) # Nil
      BY <3>1 DEF StepOf
    <3>3. \/ pc[t] \in {"add4", "add5", "rm5"} /\ arg[t].id = i
          \/ subsToDestMap[i] = d /\ Live(t, i)
      BY <2>1, <3>2 DEF IDOK, RouteOK
    <3> QED
      BY <1>1, <1>2, <2>2, <2>3, <3>3 DEF Touching
  <2>6. DisplacedOK(i)'
    <3>1. SUFFICES ASSUME NEW d \in Dests, Known(i, d)',
                          \/ Live(t, i)'
                          \/ pc'[t] \in {"add4", "add5"} /\ arg'[t].id = i
                   PROVE  Lookup(d, i)' # Nil \/ Shared(d, i)'
      BY <2>2 DEF DisplacedOK
    <3>2. Known(i, d)
      BY <1>4, <3>1
    <3>3. Live(t, i) \/ (pc[t] \in {"add4", "add5"} /\ arg[t].id = i)
      <4>1. CASE Live(t, i)'
        BY <1>2, <2>2, <4>1
      <4>2. CASE pc'[t] \in {"add4", "add5"} /\ arg'[t].id = i
        BY <2>3, <4>2 DEF Touching
      <4> QED
        BY <3>1, <4>1, <4>2
    <3>4. Lookup(d, i) # Nil \/ Shared(d, i)
      BY <2>1, <3>2, <3>3 DEF IDOK, DisplacedOK
    <3> QED
      BY <3>4, AskedGrows DEF Shared
  <2> QED
    BY <1>5, <1>6, <2>4, <2>5, <2>6 DEF IDOK
<1> QED
  BY <1>7, <1>8

LEMMA StepKeeps ==
    ASSUME TypeInv, StreamInv, RegInv, NEW s \in Sessions, NEW F, StepOf(s, F), AsksOn(s),
           \A d \in Dests, i \in SubsIDs \ F : Lookup(d, i)' = Lookup(d, i) \/ Shared(d, i)',
           SessOK(s)', \A i \in F : IDOK(i)',
           status' \notin {"nil set", "nil pointer"}
    PROVE  RegInv'
<1>1. \A t \in Sessions : SessOK(t)'
  BY OthersKept DEF RegInv
<1>2. \A i \in SubsIDs : IDOK(i)'
  BY IDsKept DEF RegInv
<1> QED
  BY <1>1, <1>2 DEF RegInv, NoNilSet, NilPointerOK

----------------------------------------------------------------------------
\* Steps outside of the registry.

regVars == <<mapVars, nInfo, info, issued>>

Harmless == status' = status \/ status' \notin {"nil set", "nil pointer"}

\* The step changes at most the status.
LEMMA NothingMoves ==
    ASSUME RegInv, UNCHANGED <<pc, arg, ptr, rmIDs, regVars>>
    PROVE  /\ \A s \in Sessions : SessOK(s)'
           /\ \A i \in SubsIDs : IDOK(i)'
           /\ \A d : Asked(d)' = Asked(d)
<1>1. UNCHANGED <<destToSubsMap, sessToSubsMap, subsToDestMap, nInfo, info, issued>>
  BY DEF regVars, mapVars
<1>2. \A s \in Sessions : SessOK(s)'
  BY <1>1 DEF RegInv, SessOK, OwnID, NewID, AddOK, RemoveOK, AckOK, CleanupOK, Live, Known,
              Untouched, Lookup, Disconnecting
<1>3. \A d : Asked(d)' = Asked(d)
  BY <1>1 DEF Asked
<1>4. \A i \in SubsIDs : IDOK(i)'
  <2>1. SUFFICES ASSUME NEW i \in SubsIDs PROVE IDOK(i)'
    OBVIOUS
  <2>2. IDOK(i)
    BY DEF RegInv
  <2>3. ObjectOK(i)' /\ SetOK(i)'
    BY <1>1, <2>2 DEF IDOK, ObjectOK, SetOK, Untouched, Live
  <2>4. IndexOK(i)'
    BY <1>1, <2>2 DEF IDOK, IndexOK, Known, Live
  <2>5. RouteOK(i)'
    BY <1>1, <2>2 DEF IDOK, RouteOK, Lookup, Live
  <2>6. DisplacedOK(i)'
    BY <1>1, <1>3, <2>2 DEF IDOK, DisplacedOK, Lookup, Live, Known, Shared
  <2> QED
    BY <2>3, <2>4, <2>5, <2>6 DEF IDOK
<1> QED
  BY <1>2, <1>3, <1>4

LEMMA AllStay ==
    ASSUME RegInv, UNCHANGED <<pc, arg, ptr, rmIDs, regVars>>, Harmless
    PROVE  RegInv'
<1>1. /\ \A s \in Sessions : SessOK(s)'
      /\ \A i \in SubsIDs : IDOK(i)'
      /\ \A d : Asked(d)' = Asked(d)
  BY NothingMoves
<1>2. NoNilSet' /\ NilPointerOK'
  BY <1>1 DEF RegInv, NoNilSet, NilPointerOK, AcksForeign, Harmless, regVars
<1> QED
  BY <1>1, <1>2 DEF RegInv

\* The process dies of a nil entry whose destination had other subscribers, or that is
\* not of the session's own subscription.
LEMMA NilPointerKeeps ==
    ASSUME RegInv, UNCHANGED <<ptr, rmIDs, regVars>>, Panic("nil pointer"),
           NEW d \in Dests, NEW i, Known(i, d), NEW s \in Sessions,
           Shared(d, i) \/ AcksForeign(s)
    PROVE  RegInv'
<1>1. /\ \A t \in Sessions : SessOK(t)'
      /\ \A j \in SubsIDs : IDOK(j)'
      /\ \A e : Asked(e)' = Asked(e)
  BY NothingMoves DEF Panic
<1>2. i \in Asked(d)
  BY AskedIs
<1>3. AcksForeign(s)' <=> AcksForeign(s)
  BY DEF AcksForeign, Panic, regVars
<1>4. NoNilSet' /\ NilPointerOK'
  BY <1>1, <1>2, <1>3 DEF NoNilSet, NilPointerOK, Panic, Shared
<1> QED
  BY <1>1, <1>4 DEF RegInv

\* Where nothing is asked of a session.
Elsewhere(l) == l \notin Adding \cup Removing \cup {"ack1", "ack2", "cleanup2"}

OthersStay(s) ==
    \A t \in Sessions \ {s} :
        /\ pc'[t] = pc[t] /\ arg'[t] = arg[t] /\ ptr'[t] = ptr[t] /\ rmIDs'[t] = rmIDs[t]

\* s moves on, the maps stay.
MovesOn(s) ==
    /\ OthersStay(s) /\ AsksOn(s)
    /\ pc[s] \notin Touching /\ pc'[s] \notin Touching
    /\ UNCHANGED regVars

LEMMA StillKeeps ==
    ASSUME TypeInv, StreamInv, RegInv, NEW s \in Sessions, MovesOn(s), SessOK(s)',
           status = "up", Harmless
    PROVE  RegInv'
<1>0. PICK F : F = {}
  OBVIOUS
<1>1. UNCHANGED <<destToSubsMap, sessToSubsMap, subsToDestMap, nInfo, info, issued>>
  BY DEF MovesOn, regVars, mapVars
<1>2. \A d, i : Lookup(d, i)' = Lookup(d, i)
  BY <1>1 DEF Lookup
<1>3. \A i : Live(s, i)' <=> Live(s, i)
  BY <1>1 DEF Live
<1>4. StepOf(s, F)
  BY <1>0, <1>1, <1>2, <1>3 DEF StepOf, MovesOn, OthersStay
<1>5. AsksOn(s)
  BY DEF MovesOn
<1>6. \A i \in F : IDOK(i)'
  BY <1>0
<1>7. \A d \in Dests, i \in SubsIDs \ F : Lookup(d, i)' = Lookup(d, i) \/ Shared(d, i)'
  BY <1>2
<1>8. status' \notin {"nil set", "nil pointer"}
  BY DEF Harmless
<1> QED
  BY <1>4, <1>5, <1>6, <1>7, <1>8, StepKeeps

Passes(s) ==
    /\ OthersStay(s) /\ AsksOn(s)
    /\ pc[s] \notin Touching /\ Elsewhere(pc'[s])
    /\ UNCHANGED regVars

LEMMA PassesKeeps ==
    ASSUME TypeInv, StreamInv, RegInv, NEW s \in Sessions, Passes(s), status = "up",
           Harmless
    PROVE  RegInv'
<1>1. MovesOn(s)
  BY DEF Passes, MovesOn, Elsewhere, Adding, Removing, Touching
<1>2. SessOK(s)'
  BY DEF Passes, Elsewhere, Adding, Removing, SessOK, OwnID, NewID, AddOK, RemoveOK, AckOK,
         CleanupOK
<1> QED
  BY <1>1, <1>2, StillKeeps

LEMMA ElsewhereLabels ==
    \A l \in {"idle", "return", "done", "ended", "cleanup1", "bye1", "bye2", "ack3", "pub",
              "wait", "beg1", "beg2", "buf1", "buf2", "buf3", "abt1", "abt2", "com1", "com2",
              "foreach"} : Elsewhere(l)
BY DEF Elsewhere, Adding, Removing

\* s goes from one place outside of the registry to another.
LEMMA MoveKeeps ==
    ASSUME TypeInv, StreamInv, RegInv, status = "up", NEW s \in Sessions,
           pc[s] \notin Adding \cup Touching, UNCHANGED regVars,
           \A t \in Sessions \ {s} : ptr'[t] = ptr[t] /\ rmIDs'[t] = rmIDs[t],
           \/ Return(s) \/ Fail(s)
           \/ \E l : /\ Elsewhere(l)
                     /\ \/ Continue(s, l) \/ HandledAtOnce(s, l)
                        \/ Goto(s, l) /\ UNCHANGED <<status, arg>>
                        \/ \E f : Goto(s, l) /\ arg' = [arg EXCEPT ![s] = f] /\ UNCHANGED status
    PROVE  RegInv'
<1>1. Elsewhere("idle") /\ Elsewhere("return")
  BY ElsewhereLabels
<1>2. \E l : Elsewhere(l) /\ Goto(s, l)
  BY <1>1 DEF Return, Fail, Continue, HandledAtOnce
<1>3. /\ UNCHANGED status
      /\ arg' = arg \/ \E f : arg' = [arg EXCEPT ![s] = f]
  BY DEF Return, Fail, Continue, HandledAtOnce
<1>4. pc \in [Sessions -> Labels] /\ arg \in [Sessions -> Frame]
  BY DEF TypeInv, TypeOK, ProcTypeOK
<1>5. Elsewhere(pc'[s]) /\ \A t \in Sessions \ {s} : pc'[t] = pc[t]
  BY <1>2, <1>4 DEF Goto
<1>6. \A t \in Sessions \ {s} : arg'[t] = arg[t]
  BY <1>3, <1>4
<1>7. OthersStay(s)
  BY <1>5, <1>6 DEF OthersStay
<1>8. AsksOn(s)
  BY DEF AsksOn, Adding
<1>9. Passes(s)
  BY <1>5, <1>7, <1>8 DEF Passes
<1> QED
  BY <1>3, <1>9, PassesKeeps DEF Harmless

LEMMA SessionKeeps ==
    ASSUME TypeInv, StreamInv, RegInv, status = "up", NEW s \in Sessions, SessionStep(s),
           UNCHANGED <<subVars, clientVars>>
    PROVE  RegInv'
<1>1. UNCHANGED <<regVars, ptr, rmIDs>>
  BY DEF subVars, heapVars, localVars, regVars, clientVars
<1>2. CASE PeerLeaves(s) \/ UndecodableFrame(s)
  <2>1. UNCHANGED <<pc, arg>> /\ Harmless
    BY <1>2 DEF PeerLeaves, UndecodableFrame, Panic, procVars, Harmless
  <2> QED
    BY <1>1, <2>1, AllStay
<1>3. CASE ~(PeerLeaves(s) \/ UndecodableFrame(s))
  <2>1. \/ pc[s] = "none" \/ pc[s] = "idle" \/ pc[s] = "bye1"
        \/ pc[s] = "bye2" \/ pc[s] = "return" \/ pc[s] = "done"
    BY <1>3 DEF SessionStep, Accept, Connect, ConnectDenied, ConnectRefused, InvalidFrame,
                ByeReceipt, ByeClose, EndOfStream, ScannerStops, Cleanup, RemoveJob,
                MayReceive
  <2>2. \/ Return(s) \/ Fail(s)
        \/ \E l \in {"idle", "return", "bye2", "done", "ended"} :
                Continue(s, l) \/ HandledAtOnce(s, l)
    BY <1>3 DEF SessionStep, Accept, Connect, ConnectDenied, ConnectRefused, InvalidFrame,
                ByeReceipt, ByeClose, EndOfStream, ScannerStops, Cleanup, RemoveJob
  <2>3. pc[s] \notin Adding \cup Touching
    BY <2>1 DEF Adding, Touching
  <2> QED
    BY <1>1, <2>2, <2>3, ElsewhereLabels, MoveKeeps
<1> QED
  BY <1>2, <1>3

LEMMA TransactionKeeps ==
    ASSUME TypeInv, StreamInv, RegInv, status = "up", NEW s \in Sessions, TransactionStep(s),
           UNCHANGED <<subVars, clientVars>>
    PROVE  RegInv'
<1>1. UNCHANGED <<regVars, ptr, rmIDs>>
  BY DEF subVars, heapVars, localVars, regVars, clientVars
<1>2. \/ pc[s] = "beg1" \/ pc[s] = "beg2" \/ pc[s] = "buf1" \/ pc[s] = "buf2"
      \/ pc[s] = "buf3" \/ pc[s] = "abt1" \/ pc[s] = "abt2" \/ pc[s] = "com1"
      \/ pc[s] = "com2" \/ pc[s] = "foreach"
  BY DEF TransactionStep, StartTxCheck, StartTxStore, BufferTxCheck, BufferTxRead,
         BufferTxStore, ForeachTxCheck, ForeachTxRead, ForeachTxNext, ForeachTxLast,
         DropTxCheck, DropTxDelete
<1>3. \/ Return(s) \/ Fail(s)
      \/ \E l \in {"beg2", "buf2", "buf3", "com2", "abt2", "foreach"} : Continue(s, l)
      \/ \E l \in {"pub"} : Goto(s, l) /\ UNCHANGED <<status, arg>>
  BY DEF TransactionStep, StartTxCheck, StartTxStore, BufferTxCheck, BufferTxRead,
         BufferTxStore, ForeachTxCheck, ForeachTxRead, ForeachTxNext, ForeachTxLast,
         DropTxCheck, DropTxDelete
<1>4. pc[s] \notin Adding \cup Touching
  BY <1>2 DEF Adding, Touching
<1>5. \/ Return(s) \/ Fail(s)
      \/ \E l : /\ Elsewhere(l)
                /\ Continue(s, l) \/ (Goto(s, l) /\ UNCHANGED <<status, arg>>)
  BY <1>3, ElsewhereLabels
<1> QED
  BY <1>1, <1>4, <1>5, MoveKeeps

LEMMA PublishKeeps ==
    ASSUME TypeInv, StreamInv, RegInv, status = "up", NEW s \in Sessions,
           \/ PublishRange(s) \/ PublishWait(s) \/ AckApply(s)
           \/ \E p \in Addr : PublishNext(s, p) \/ SendStep(s, p),
           UNCHANGED clientVars
    PROVE  RegInv'
<1>1. CASE PublishRange(s) \/ PublishWait(s) \/ AckApply(s)
  <2>1. /\ UNCHANGED <<regVars, rmIDs>>
        /\ UNCHANGED ptr \/ ptr' = [ptr EXCEPT ![s] = Nil]
    BY <1>1 DEF PublishRange, PublishWait, AckApply, heapVars, localVars, regVars, clientVars
  <2>2. \A t \in Sessions \ {s} : ptr'[t] = ptr[t] /\ rmIDs'[t] = rmIDs[t]
    BY <2>1, HeapTypes DEF SubTypeOK
  <2>3. pc[s] = "pub" \/ pc[s] = "wait" \/ pc[s] = "ack3"
    BY <1>1 DEF PublishRange, PublishWait, AckApply
  <2>4. Return(s) \/ Fail(s) \/ \E l \in {"wait", "foreach"} : Continue(s, l)
    BY <1>1 DEF PublishRange, PublishWait, AckApply
  <2>5. pc[s] \notin Adding \cup Touching
    BY <2>3 DEF Adding, Touching
  <2>6. Return(s) \/ Fail(s) \/ \E l : Elsewhere(l) /\ Continue(s, l)
    BY <2>4, ElsewhereLabels
  <2> QED
    BY <2>1, <2>2, <2>5, <2>6, MoveKeeps
<1>2. CASE \E p \in Addr : PublishNext(s, p) \/ SendStep(s, p)
  <2>1. UNCHANGED <<procVars, localVars, mapVars, nInfo, info>>
    BY <1>2 DEF PublishNext, SendStep, SendLock, SendWrite, SendDone, SendFails, heapVars
  <2> QED
    BY <2>1, AllStay DEF procVars, localVars, regVars, clientVars, Harmless
<1> QED
  BY <1>1, <1>2

----------------------------------------------------------------------------
\* Frames that clients send.

LEMMA ReceiveMoves ==
    ASSUME TypeInv, NEW s \in Sessions, NEW f, NEW l, Receive(s, f, l)
    PROVE  /\ pc[s] = "idle" /\ pc'[s] = l /\ arg'[s] = f /\ status' = status
           /\ \A t \in Sessions \ {s} : pc'[t] = pc[t] /\ arg'[t] = arg[t]
           /\ UNCHANGED <<mapVars, nInfo, info, ptr, rmIDs>>
           /\ OthersStay(s) /\ AsksOn(s) /\ pc[s] \notin Touching
<1>1. pc \in [Sessions -> Labels] /\ arg \in [Sessions -> Frame]
  BY DEF TypeInv, TypeOK, ProcTypeOK
<1>2. /\ pc[s] = "idle" /\ arg' = [arg EXCEPT ![s] = f] /\ Goto(s, l)
      /\ UNCHANGED <<status, mapVars, nInfo, info, ptr, rmIDs>>
  BY DEF Receive, MayReceive, subVars, heapVars, localVars
<1>3. /\ pc'[s] = l /\ arg'[s] = f
      /\ \A t \in Sessions \ {s} : pc'[t] = pc[t] /\ arg'[t] = arg[t]
  BY <1>1, <1>2 DEF Goto
<1>4. OthersStay(s)
  BY <1>2, <1>3 DEF OthersStay
<1>5. AsksOn(s) /\ pc[s] \notin Touching
  BY <1>2 DEF AsksOn, Touching
<1> QED
  BY <1>2, <1>3, <1>4, <1>5

LEMMA OtherFramesKeep ==
    ASSUME TypeInv, StreamInv, RegInv, status = "up", NEW s \in Sessions,
           \/ Send(s) \/ AckMalformed(s) \/ Nack(s) \/ Begin(s) \/ Commit(s) \/ Abort(s)
           \/ Disconnect(s)
    PROVE  RegInv'
<1>1. UNCHANGED issued
  BY DEF Send, AckMalformed, Nack, Begin, Commit, Abort, EndTx, Disconnect, clientVars
<1>2. CASE AckMalformed(s) /\ Panic("index out of range")
  BY <1>1, <1>2, AllStay DEF AckMalformed, Panic, Harmless, subVars, heapVars, localVars,
                             regVars
<1>3. CASE \E l \in {"return", "idle"} : HandledAtOnce(s, l)
  <2>1. UNCHANGED <<regVars, ptr, rmIDs>> /\ pc[s] = "idle"
    BY <1>1, <1>3 DEF Send, AckMalformed, Nack, Begin, Commit, Abort, EndTx, Disconnect,
                Receive, MayReceive, subVars, heapVars, localVars, regVars
  <2>2. pc[s] \notin Adding \cup Touching
    BY <2>1 DEF Adding, Touching
  <2>3. \E l : Elsewhere(l) /\ HandledAtOnce(s, l)
    BY <1>3, ElsewhereLabels
  <2> QED
    BY <2>1, <2>2, <2>3, MoveKeeps
<1>4. CASE \E l \in {"pub", "buf1", "beg1", "com1", "abt1", "cleanup1"} : \E f : Receive(s, f, l)
  <2>1. PICK l, f : Elsewhere(l) /\ Receive(s, f, l)
    BY <1>4, ElsewhereLabels
  <2>2. /\ pc'[s] = l /\ status' = status /\ OthersStay(s) /\ AsksOn(s)
        /\ pc[s] \notin Touching /\ UNCHANGED <<mapVars, nInfo, info>>
    BY <2>1, ReceiveMoves
  <2>3. Passes(s) /\ Harmless
    BY <1>1, <2>1, <2>2 DEF Passes, regVars, Harmless
  <2> QED
    BY <2>3, PassesKeeps
<1> QED
  BY <1>2, <1>3, <1>4
     DEF Send, AckMalformed, Nack, Begin, Commit, Abort, EndTx, Disconnect

LEMMA SubscribeKeeps ==
    ASSUME LibraryClients, TypeInv, StreamInv, RegInv, status = "up", NEW s \in Sessions,
           SubscribeTo(s)
    PROVE  RegInv'
<1>1. PICK d \in Dests \cup {Empty}, i \in SubsIDs \cup {Empty}, m \in AskedModes :
         /\ MaySubscribe(i)
         /\ Receive(s, [NextFrame(s, "SUBSCRIBE") EXCEPT !.dest = d, !.id = i, !.mode = m],
                    "add1")
         /\ issued' = IF i = Empty THEN issued
                      ELSE [issued EXCEPT ![i] = IF @ = Nil THEN s ELSE @]
  BY DEF SubscribeTo
<1>2. i \in SubsIDs /\ issued[i] = Nil /\ issued' = [issued EXCEPT ![i] = s]
  BY <1>1 DEF MaySubscribe
<1>3. issued \in [SubsIDs -> Sessions \cup {Nil}]
  BY DEF TypeInv, TypeOK
<1>4. issued'[i] = s /\ \A j \in SubsIDs \ {i} : issued'[j] = issued[j]
  BY <1>2, <1>3
<1>5. PICK f : f = [NextFrame(s, "SUBSCRIBE") EXCEPT !.dest = d, !.id = i, !.mode = m]
  OBVIOUS
<1>6. f.id = i
  BY <1>5 DEF NextFrame, Blank
<1>7. /\ pc'[s] = "add1" /\ arg'[s] = f /\ status' = status
      /\ UNCHANGED <<destToSubsMap, sessToSubsMap, subsToDestMap, nInfo, info, ptr, rmIDs>>
      /\ OthersStay(s) /\ AsksOn(s) /\ pc[s] \notin Touching
  BY <1>1, <1>5, ReceiveMoves DEF mapVars
<1>8. \A e, j : Lookup(e, j)' = Lookup(e, j)
  BY <1>7 DEF Lookup
<1>9. Untouched(i) /\ Untouched(i)'
  BY <1>2, <1>7 DEF RegInv, IDOK, ObjectOK, Untouched
<1>10. \A t \in Sessions : ~Live(t, i)'
  <2>1. \A t \in Sessions : t # Nil
    BY ProcessAssumption
  <2>2. \A t \in Sessions : ~Live(t, i)
    BY <1>2, <2>1 DEF RegInv, IDOK, SetOK
  <2> QED
    BY <1>7, <2>2 DEF Live
<1>11. \A e \in Dests : Lookup(e, i)' = Nil
  <2>1. \A e \in Dests : Lookup(e, i) = Nil
    BY <1>2, <1>9, LookupType, HeapTypes DEF Untouched, StreamInv, RoutesOK
  <2> QED
    BY <1>8, <2>1
<1>12. PICK F : F = {i}
  OBVIOUS
<1>13. StepOf(s, F)
  BY <1>2, <1>4, <1>7, <1>8, <1>12 DEF StepOf, OthersStay, Live, Touching
<1>14. SessOK(s)'
  BY <1>2, <1>4, <1>6, <1>7, <1>9 DEF SessOK, OwnID, NewID, AddOK, RemoveOK, AckOK, CleanupOK
<1>15. IDOK(i)'
  <2>1. ObjectOK(i)' /\ SetOK(i)'
    BY <1>9, <1>10 DEF ObjectOK, SetOK, Untouched
  <2>2. IndexOK(i)' /\ RouteOK(i)' /\ DisplacedOK(i)'
    BY <1>9, <1>11 DEF IndexOK, RouteOK, DisplacedOK, Untouched, Known
  <2> QED
    BY <2>1, <2>2 DEF IDOK
<1>16. \A j \in F : IDOK(j)'
  BY <1>12, <1>15
<1>17. status' \notin {"nil set", "nil pointer"}
  BY <1>7
<1> QED
  BY <1>7, <1>8, <1>13, <1>14, <1>16, <1>17, StepKeeps

LEMMA UnsubscribeKeeps ==
    ASSUME LibraryClients, TypeInv, StreamInv, RegInv, status = "up", NEW s \in Sessions,
           Unsubscribe(s)
    PROVE  RegInv'
<1>1. PICK i \in SubsIDs \cup {Empty} :
         /\ MayUnsubscribe(s, i)
         /\ Receive(s, [NextFrame(s, "UNSUBSCRIBE") EXCEPT !.id = i], "rm1")
         /\ UNCHANGED issued
  BY DEF Unsubscribe, clientVars
<1>2. i \in SubsIDs /\ issued[i] = s
  BY <1>1 DEF MayUnsubscribe
<1>3. PICK f : f = [NextFrame(s, "UNSUBSCRIBE") EXCEPT !.id = i]
  OBVIOUS
<1>4. f.id = i /\ f.cmd = "UNSUBSCRIBE"
  BY <1>3 DEF NextFrame, Blank
<1>5. /\ pc'[s] = "rm1" /\ arg'[s] = f /\ status' = status
      /\ UNCHANGED <<mapVars, nInfo, info, ptr, rmIDs>>
      /\ OthersStay(s) /\ AsksOn(s) /\ pc[s] \notin Touching
  BY <1>1, <1>3, ReceiveMoves
<1>6. MovesOn(s) /\ Harmless
  BY <1>1, <1>5 DEF MovesOn, regVars, Harmless, Touching
<1>7. SessOK(s)'
  BY <1>1, <1>2, <1>4, <1>5 DEF SessOK, OwnID, NewID, AddOK, RemoveOK, AckOK, CleanupOK,
                                Disconnecting
<1> QED
  BY <1>6, <1>7, StillKeeps

LEMMA AckKeeps ==
    ASSUME TypeInv, StreamInv, RegInv, status = "up", NEW s \in Sessions, Ack(s)
    PROVE  RegInv'
<1>1. PICK p \in 1 .. nInfo : \E k \in 1 .. Len(log[p]) :
         /\ Receive(s, [NextFrame(s, "ACK") EXCEPT !.dest = info[p].dest,
                             !.id = info[p].id, !.ack = log[p][k].ack], "ack1")
         /\ UNCHANGED issued
  BY DEF Ack, clientVars
<1>2. PICK k \in 1 .. Len(log[p]) :
         /\ Receive(s, [NextFrame(s, "ACK") EXCEPT !.dest = info[p].dest,
                             !.id = info[p].id, !.ack = log[p][k].ack], "ack1")
         /\ UNCHANGED issued
  BY <1>1
<1>3. PICK f : f = [NextFrame(s, "ACK") EXCEPT !.dest = info[p].dest,
                             !.id = info[p].id, !.ack = log[p][k].ack]
  OBVIOUS
<1>4. f.id = info[p].id /\ f.dest = info[p].dest
  BY <1>3 DEF NextFrame, Blank
<1>7. /\ pc'[s] = "ack1" /\ arg'[s] = f /\ status' = status
      /\ UNCHANGED <<mapVars, nInfo, info, ptr, rmIDs>>
      /\ OthersStay(s) /\ AsksOn(s) /\ pc[s] \notin Touching
  BY <1>2, <1>3, ReceiveMoves
<1>8. MovesOn(s) /\ Harmless
  BY <1>2, <1>7 DEF MovesOn, regVars, Harmless, Touching
<1>9. AckOK(s)'
  BY <1>2, <1>4, <1>7 DEF AckOK, Known
<1>10. SessOK(s)'
  BY <1>7, <1>9 DEF SessOK, OwnID, NewID, AddOK, RemoveOK, CleanupOK, Adding, Removing
<1> QED
  BY <1>8, <1>10, StillKeeps

----------------------------------------------------------------------------
\* addSubscription

\* Control goes on within a handler of s.
LEMMA ContinueMoves ==
    ASSUME TypeInv, NEW s \in Sessions, NEW l, Continue(s, l), UNCHANGED <<ptr, rmIDs>>
    PROVE  pc'[s] = l /\ UNCHANGED <<arg, status>> /\ OthersStay(s)
BY DEF TypeInv, TypeOK, ProcTypeOK, Continue, Goto, OthersStay

LEMMA LeaveMoves ==
    ASSUME TypeInv, NEW s \in Sessions, Return(s) \/ Fail(s),
           \A t \in Sessions \ {s} : ptr'[t] = ptr[t] /\ rmIDs'[t] = rmIDs[t]
    PROVE  Elsewhere(pc'[s]) /\ UNCHANGED status /\ OthersStay(s)
<1>1. PICK l \in {"idle", "return"} : Goto(s, l)
  BY DEF Return, Fail
<1>2. Elsewhere(l)
  BY <1>1, ElsewhereLabels
<1> QED
  BY <1>1, <1>2 DEF TypeInv, TypeOK, ProcTypeOK, Return, Fail, Goto, OthersStay

LEMMA AddCheckKeeps ==
    ASSUME TypeInv, StreamInv, RegInv, status = "up", NEW s \in Sessions, AddCheck(s),
           UNCHANGED clientVars
    PROVE  RegInv'
<1>1. pc[s] = "add1" /\ UNCHANGED <<regVars, ptr, rmIDs>>
  BY DEF AddCheck, subVars, heapVars, localVars, regVars, clientVars
<1>2. /\ arg[s].id \in SubsIDs /\ issued[arg[s].id] = s /\ Untouched(arg[s].id)
      /\ arg[s].id # Empty /\ pc[s] \notin Touching
  BY <1>1, ProcessAssumption DEF RegInv, SessOK, OwnID, NewID, Adding, Touching
<1>3. CASE Fail(s)
  <2>1. Elsewhere(pc'[s]) /\ UNCHANGED status /\ OthersStay(s)
    BY <1>1, <1>3, LeaveMoves
  <2>2. pc'[s] = "return"
    BY <1>3 DEF Fail, Goto, TypeInv, TypeOK, ProcTypeOK
  <2>3. arg[s].dest = Empty
    BY <1>1, <1>2, <2>2 DEF AddCheck, Continue, Goto, TypeInv, TypeOK, ProcTypeOK
  <2>4. AsksOn(s)
    BY <2>3, ProcessAssumption DEF AsksOn
  <2> QED
    BY <1>1, <1>2, <2>1, <2>4, PassesKeeps DEF Passes, Harmless
<1>4. CASE \E l \in {"add2", "add3"} : Continue(s, l)
  <2>1. PICK l \in {"add2", "add3"} : Continue(s, l)
    BY <1>4
  <2>2. pc'[s] = l /\ UNCHANGED <<arg, status>> /\ OthersStay(s)
    BY <1>1, <2>1, ContinueMoves
  <2>3. MovesOn(s) /\ Harmless
    BY <1>1, <1>2, <2>1, <2>2 DEF MovesOn, AsksOn, Touching, Harmless
  <2>4. UNCHANGED <<subsToDestMap, nInfo, info, issued>>
    BY <1>1 DEF regVars, mapVars
  <2>5. SessOK(s)'
    BY <1>2, <2>1, <2>2, <2>4 DEF SessOK, OwnID, NewID, AddOK, RemoveOK, AckOK, CleanupOK,
                                  Untouched
  <2> QED
    BY <2>3, <2>5, StillKeeps
<1> QED
  BY <1>3, <1>4 DEF AddCheck

LEMMA AddResetKeeps ==
    ASSUME TypeInv, StreamInv, RegInv, status = "up", NEW s \in Sessions, AddReset(s),
           UNCHANGED clientVars
    PROVE  RegInv'
<1>1. /\ pc[s] = "add2" /\ Continue(s, "add3")
      /\ destToSubsMap' = [destToSubsMap EXCEPT ![arg[s].dest] = NoSubs]
      /\ UNCHANGED <<sessToSubsMap, subsToDestMap, nInfo, info, issued, ptr, rmIDs>>
  BY DEF AddReset, heapVars, localVars, clientVars
<1>2. pc'[s] = "add3" /\ UNCHANGED <<arg, status>> /\ OthersStay(s)
  BY <1>1, ContinueMoves
<1>3. PICK i, d : i = arg[s].id /\ d = arg[s].dest
  OBVIOUS
<1>4. d \in Dests /\ i \in SubsIDs
  BY <1>1, <1>3 DEF TypeInv, ArgsOK, NamesSubscription
<1>5. issued[i] = s /\ Untouched(i)
  BY <1>1, <1>3 DEF RegInv, SessOK, OwnID, NewID, Adding
<1>6. \A e \in Dests, j \in SubsIDs : Lookup(e, j)' = IF e = d THEN Nil ELSE Lookup(e, j)
  <2>1. \A e \in Dests : destToSubsMap'[e] = IF e = d THEN NoSubs ELSE destToSubsMap[e]
    BY <1>1, <1>3, <1>4, HeapTypes
  <2>2. \A j \in SubsIDs : NoSubs[j] = Nil
    BY DEF NoSubs
  <2> QED
    BY <2>1, <2>2 DEF Lookup
<1>7. PICK F : F = {}
  OBVIOUS
<1>8. AsksOn(s) /\ pc[s] \notin Touching /\ pc'[s] \notin Touching
  BY <1>1, <1>2 DEF AsksOn, Touching
<1>9. StepOf(s, F)
  BY <1>1, <1>2, <1>6, <1>7, <1>8 DEF StepOf, OthersStay, Live
<1>10. \A e \in Dests, j \in SubsIDs \ F : Lookup(e, j)' = Lookup(e, j) \/ Shared(e, j)'
  <2>1. SUFFICES ASSUME NEW e \in Dests, NEW j \in SubsIDs, Lookup(e, j)' # Lookup(e, j)
                 PROVE  Shared(e, j)'
    OBVIOUS
  <2>2. e = d /\ Lookup(e, j) # Nil
    BY <1>6, <2>1
  <2>3. Lookup(e, j) \in 1 .. nInfo /\ info[Lookup(e, j)].id = j
    BY <2>2, LookupType, HeapTypes DEF StreamInv, RoutesOK
  <2>4. i # j
    BY <1>5, <2>3 DEF Untouched
  <2>5. i \in Asked(d)'
    BY <1>2, <1>3 DEF Asked
  <2> QED
    BY <2>2, <2>4, <2>5 DEF Shared
<1>11. SessOK(s)'
  BY <1>1, <1>2, <1>3, <1>4, <1>5
     DEF SessOK, OwnID, NewID, AddOK, RemoveOK, AckOK, CleanupOK, Untouched
<1>12. \A j \in F : IDOK(j)'
  BY <1>7
<1>13. status' \notin {"nil set", "nil pointer"}
  BY <1>2
<1> QED
  BY <1>8, <1>9, <1>10, <1>11, <1>12, <1>13, StepKeeps
\* A new object is entered for an ID that had none.
LEMMA AddInsertKeeps ==
    ASSUME TypeInv, StreamInv, RegInv, status = "up", NEW s \in Sessions, AddInsert(s),
           UNCHANGED clientVars
    PROVE  RegInv'
<1>1. pc[s] = "add3" /\ UNCHANGED <<sessToSubsMap, subsToDestMap, issued, ptr, rmIDs>>
  BY DEF AddInsert, localVars, clientVars
<1>2. CASE destToSubsMap[arg[s].dest] = Nil
  <2>1. /\ UNCHANGED <<pc, arg, ptr, rmIDs, regVars>> /\ status' = "nil map"
    BY <1>1, <1>2 DEF AddInsert, Panic, regVars, mapVars
  <2> QED
    BY <2>1, AllStay DEF Harmless
<1>3. CASE destToSubsMap[arg[s].dest] # Nil
  <2>1. PICK i, d, p : i = arg[s].id /\ d = arg[s].dest /\ p = nInfo + 1
    OBVIOUS
  <2>2. d \in Dests /\ i \in SubsIDs
    BY <1>1, <2>1 DEF TypeInv, ArgsOK, NamesSubscription
  <2>3. issued[i] = s /\ Untouched(i)
    BY <1>1, <2>1 DEF RegInv, SessOK, OwnID, NewID, Adding
  <2>4. PICK r : /\ r = [sess |-> s, dest |-> d, id |-> i, asked |-> arg[s].mode,
                         ackMode |-> AckModeOf(arg[s].mode)]
    OBVIOUS
  <2>5. r.sess = s /\ r.dest = d /\ r.id = i
    BY <2>4
  <2>6. PICK f : f = [destToSubsMap[d] EXCEPT ![i] = p]
    OBVIOUS
  <2>7. /\ nInfo < MaxSubs /\ nInfo' = p /\ info' = [info EXCEPT ![p] = r]
        /\ destToSubsMap' = [destToSubsMap EXCEPT ![d] = f]
        /\ Continue(s, "add4")
    BY <1>3, <2>1, <2>4, <2>6 DEF AddInsert
  <2>8. p \in Addr /\ p # Nil /\ nInfo \in Nat
    BY <2>1, <2>7, HeapTypes
  <2>9. /\ pc'[s] = "add4" /\ UNCHANGED <<arg, status>> /\ OthersStay(s)
    BY <1>1, <2>7, ContinueMoves
  <2>10. info'[p] = r /\ \A q \in 1 .. nInfo : q # p /\ info'[q] = info[q]
    <3>1. \A q \in 1 .. nInfo : q \in Addr /\ q # p
      BY <2>1, <2>8, HeapTypes
    <3> QED
      BY <2>7, <2>8, <3>1, HeapTypes
  <2>11. \A q \in 1 .. nInfo' : q = p \/ q \in 1 .. nInfo
    BY <2>1, <2>7, <2>8
  <2>12. p \in 1 .. nInfo' /\ \A q \in 1 .. nInfo : q \in 1 .. nInfo'
    BY <2>1, <2>7, <2>8
  <2>13. \A e \in Dests, j \in SubsIDs :
            Lookup(e, j)' = IF e = d /\ j = i THEN p ELSE Lookup(e, j)
    <3>1. destToSubsMap[d] \in [SubsIDs -> (1 .. nInfo) \cup {Nil}] /\ destToSubsMap[d] # Nil
      BY <1>3, <2>1, <2>2, HeapTypes
    <3>2. \A j \in SubsIDs : f[j] = IF j = i THEN p ELSE destToSubsMap[d][j]
      BY <2>2, <2>6, <3>1
    <3>3. f # Nil
      <4>1. f \in [SubsIDs -> Addr \cup {Nil}]
        <5>1. \A q \in 1 .. nInfo : q \in Addr
          BY HeapTypes
        <5> QED
          BY <2>6, <2>8, <3>1, <5>1
      <4> QED
        BY <4>1, NilAssumption
    <3>4. \A e \in Dests : destToSubsMap'[e] = IF e = d THEN f ELSE destToSubsMap[e]
      BY <2>2, <2>7, HeapTypes
    <3> QED
      BY <3>1, <3>2, <3>3, <3>4 DEF Lookup
  <2>14. \A q \in 1 .. nInfo : info[q].id # i /\ info'[q] = info[q] /\ q # p
    BY <2>3, <2>10 DEF Untouched
  <2>15. Known(i, d)' /\ \A e : Known(i, e)' => e = d
    BY <2>5, <2>10, <2>11, <2>12, <2>14 DEF Known
  <2>16. AsksOn(s) /\ pc[s] \notin Touching
    <3>1. AsksOn(s)
      BY <2>1, <2>5, <2>10, <2>12 DEF AsksOn
    <3> QED
      BY <1>1, <3>1 DEF Touching
  <2>17. PICK F : F = {i}
    OBVIOUS
  <2>18. StepOf(s, F)
    <3>1. \A t \in Sessions \ {s} : sessToSubsMap'[t] = sessToSubsMap[t]
      BY <1>1
    <3>2. \A j \in SubsIDs \ F :
            /\ issued'[j] = issued[j] /\ subsToDestMap'[j] = subsToDestMap[j]
            /\ Live(s, j)' <=> Live(s, j)
            /\ \A e \in Dests : Lookup(e, j)' \in {Lookup(e, j), Nil}
      BY <1>1, <2>13, <2>17 DEF Live
    <3>3. \A q \in 1 .. nInfo' : q \in 1 .. nInfo \/ info'[q].id \in F
      BY <2>5, <2>10, <2>11, <2>17
    <3>4. arg'[s].id \in F /\ \A j \in F : issued[j] = s /\ issued'[j] = s
      BY <1>1, <2>1, <2>3, <2>9, <2>17
    <3> QED
      BY <2>9, <2>10, <2>12, <2>16, <2>17, <3>1, <3>2, <3>3, <3>4 DEF StepOf, OthersStay
  <2>19. \A e \in Dests, j \in SubsIDs \ F : Lookup(e, j)' = Lookup(e, j) \/ Shared(e, j)'
    BY <2>13, <2>17
  <2>20. SessOK(s)'
    <3>1. OwnID(s)' /\ AddOK(s)'
      <4>1. arg'[s].id = i /\ arg'[s].dest = d
        BY <2>1, <2>9
      <4>2. subsToDestMap'[i] = Nil /\ issued'[i] = s
        BY <1>1, <2>3 DEF Untouched
      <4>3. PICK j, e : j = arg'[s].id /\ e = arg'[s].dest
        OBVIOUS
      <4>4. Known(j, e)'
        BY <2>15, <4>1, <4>3
      <4>5. OwnID(s)'
        BY <2>2, <4>1, <4>2 DEF OwnID
      <4> QED
        BY <4>1, <4>2, <4>3, <4>4, <4>5 DEF AddOK
    <3>2. NewID(s)' /\ RemoveOK(s)' /\ AckOK(s)' /\ CleanupOK(s)'
      BY <2>9 DEF NewID, RemoveOK, AckOK, CleanupOK
    <3> QED
      BY <3>1, <3>2 DEF SessOK
  <2>21. IDOK(i)'
    <3>1. issued'[i] = s /\ s # Nil /\ subsToDestMap'[i] = Nil
      BY <1>1, <2>3, ProcessAssumption DEF Untouched
    <3>2. ObjectOK(i)'
      BY <2>5, <2>10, <2>11, <2>14, <3>1 DEF ObjectOK
    <3>3. \A t \in Sessions : ~Live(t, i)'
      <4>1. \A t \in Sessions : ~Live(t, i)
        BY <2>2, <2>3 DEF RegInv, IDOK, SetOK, Untouched
      <4> QED
        BY <1>1, <4>1 DEF Live
    <3>4. IndexOK(i)' /\ SetOK(i)'
      BY <3>1, <3>3 DEF IndexOK, SetOK
    <3>5. RouteOK(i)'
      BY <2>1, <2>9, <3>1 DEF RouteOK
    <3>6. DisplacedOK(i)'
      BY <2>2, <2>8, <2>13, <2>15 DEF DisplacedOK
    <3> QED
      BY <3>2, <3>4, <3>5, <3>6 DEF IDOK
  <2>22. \A j \in F : IDOK(j)'
    BY <2>17, <2>21
  <2>23. status' \notin {"nil set", "nil pointer"}
    BY <2>9
  <2> QED
    BY <2>16, <2>18, <2>19, <2>20, <2>22, <2>23, StepKeeps
<1> QED
  BY <1>2, <1>3

LEMMA AddIndexDestKeeps ==
    ASSUME TypeInv, StreamInv, RegInv, status = "up", NEW s \in Sessions, AddIndexDest(s),
           UNCHANGED clientVars
    PROVE  RegInv'
<1>1. /\ pc[s] = "add4" /\ Continue(s, "add5")
      /\ subsToDestMap' = [subsToDestMap EXCEPT ![arg[s].id] = arg[s].dest]
      /\ UNCHANGED <<destToSubsMap, sessToSubsMap, nInfo, info, issued, ptr, rmIDs>>
  BY DEF AddIndexDest, heapVars, localVars, clientVars
<1>2. PICK i, d : i = arg[s].id /\ d = arg[s].dest
  OBVIOUS
<1>3. d \in Dests /\ i \in SubsIDs /\ d # Nil
  BY <1>1, <1>2, NilAssumption DEF TypeInv, ArgsOK, NamesSubscription
<1>4. /\ issued[i] = s /\ s # Nil /\ Known(i, d) /\ subsToDestMap[i] = Nil
  <2>1. issued[i] = s /\ s # Nil
    BY <1>1, <1>2, ProcessAssumption DEF RegInv, SessOK, OwnID, Adding
  <2> QED
    BY <1>1, <1>2, <2>1 DEF RegInv, SessOK, AddOK
<1>5. pc'[s] = "add5" /\ UNCHANGED <<arg, status>> /\ OthersStay(s)
  BY <1>1, ContinueMoves
<1>6. arg'[s].id = i /\ arg'[s].dest = d
  BY <1>2, <1>5
<1>7. subsToDestMap'[i] = d /\ \A j \in SubsIDs \ {i} : subsToDestMap'[j] = subsToDestMap[j]
  BY <1>1, <1>2, <1>3, HeapTypes DEF SubTypeOK
<1>8. \A e, j : Lookup(e, j)' = Lookup(e, j) /\ (Known(j, e)' <=> Known(j, e))
  BY <1>1 DEF Lookup, Known
<1>9. PICK F : F = {i}
  OBVIOUS
<1>10. AsksOn(s)
  BY <1>1 DEF AsksOn
<1>11. StepOf(s, F)
  BY <1>1, <1>2, <1>4, <1>5, <1>6, <1>7, <1>8, <1>9 DEF StepOf, OthersStay, Live
<1>12. SessOK(s)'
  BY <1>1, <1>3, <1>4, <1>5, <1>6, <1>7
     DEF SessOK, OwnID, NewID, AddOK, RemoveOK, AckOK, CleanupOK
<1>13. IDOK(i)'
  <2>1. ObjectOK(i) /\ SetOK(i) /\ DisplacedOK(i)
    BY <1>3 DEF RegInv, IDOK
  <2>2. ObjectOK(i)' /\ SetOK(i)'
    BY <1>1, <1>3, <1>4, <1>7, <2>1 DEF ObjectOK, SetOK, Live
  <2>3. IndexOK(i)'
    BY <1>1, <1>4, <1>5, <1>6, <1>7, <1>8 DEF IndexOK, Touching
  <2>4. RouteOK(i)'
    BY <1>1, <1>4, <1>5, <1>6 DEF RouteOK
  <2>5. DisplacedOK(i)'
    <3>1. \A e \in Dests : Known(i, e) => Lookup(e, i) # Nil \/ Shared(e, i)
      BY <1>1, <1>2, <1>4, <2>1 DEF DisplacedOK
    <3> QED
      BY <1>8, <1>10, <1>11, <3>1, AskedGrows DEF DisplacedOK, Shared
  <2> QED
    BY <2>2, <2>3, <2>4, <2>5 DEF IDOK
<1>14. \A j \in F : IDOK(j)'
  BY <1>9, <1>13
<1>15. /\ status' \notin {"nil set", "nil pointer"}
       /\ \A e \in Dests, j \in SubsIDs \ F : Lookup(e, j)' = Lookup(e, j) \/ Shared(e, j)'
  BY <1>5, <1>8
<1> QED
  BY <1>10, <1>11, <1>12, <1>14, <1>15, StepKeeps

LEMMA AddIndexSessionKeeps ==
    ASSUME TypeInv, StreamInv, RegInv, status = "up", NEW s \in Sessions,
           AddIndexSession(s), UNCHANGED clientVars
    PROVE  RegInv'
<1>1. /\ pc[s] = "add5" /\ Return(s)
      /\ sessToSubsMap' = [sessToSubsMap EXCEPT
                             ![s] = (IF @ = Nil THEN {} ELSE @) \cup {arg[s].id}]
      /\ UNCHANGED <<destToSubsMap, subsToDestMap, nInfo, info, issued, ptr, rmIDs>>
  BY DEF AddIndexSession, heapVars, localVars, clientVars
<1>2. PICK i, d : i = arg[s].id /\ d = arg[s].dest
  OBVIOUS
<1>3. d \in Dests /\ i \in SubsIDs
  BY <1>1, <1>2 DEF TypeInv, ArgsOK, NamesSubscription
<1>4. issued[i] = s /\ s # Nil /\ subsToDestMap[i] = d /\ d # Nil
  <2>1. issued[i] = s /\ s # Nil
    BY <1>1, <1>2, ProcessAssumption DEF RegInv, SessOK, OwnID, Adding
  <2> QED
    BY <1>1, <1>2, <1>3, <2>1, NilAssumption DEF RegInv, SessOK, RemoveOK
<1>5. Elsewhere(pc'[s]) /\ UNCHANGED status /\ OthersStay(s)
  BY <1>1, LeaveMoves
<1>6. PICK ids : /\ ids = (IF sessToSubsMap[s] = Nil THEN {} ELSE sessToSubsMap[s]) \cup {i}
                 /\ sessToSubsMap' = [sessToSubsMap EXCEPT ![s] = ids]
  BY <1>1, <1>2
<1>7. ids \in SUBSET SubsIDs /\ sessToSubsMap \in [Sessions -> (SUBSET SubsIDs) \cup {Nil}]
  BY <1>3, <1>6, HeapTypes DEF SubTypeOK
<1>8. /\ sessToSubsMap'[s] = ids /\ ids # Nil
      /\ \A t \in Sessions \ {s} : sessToSubsMap'[t] = sessToSubsMap[t]
  BY <1>6, <1>7, NilAssumption
<1>9. /\ Live(s, i)' /\ \A j \in SubsIDs \ {i} : Live(s, j)' <=> Live(s, j)
      /\ \A t \in Sessions \ {s}, j \in SubsIDs : Live(t, j)' <=> Live(t, j)
  BY <1>6, <1>8 DEF Live
<1>10. \A e, j : Lookup(e, j)' = Lookup(e, j) /\ (Known(j, e)' <=> Known(j, e))
  BY <1>1 DEF Lookup, Known
<1>11. PICK F : F = {i}
  OBVIOUS
<1>12. AsksOn(s) /\ pc'[s] \notin Touching
  BY <1>1, <1>5 DEF AsksOn, Elsewhere, Adding, Removing, Touching
<1>13. StepOf(s, F)
  BY <1>1, <1>2, <1>4, <1>5, <1>8, <1>9, <1>10, <1>11, <1>12 DEF StepOf, OthersStay
<1>14. SessOK(s)'
  BY <1>5 DEF SessOK, OwnID, NewID, AddOK, RemoveOK, AckOK, CleanupOK, Elsewhere, Adding,
              Removing
<1>15. IDOK(i)'
  <2>1. ObjectOK(i) /\ IndexOK(i) /\ SetOK(i) /\ DisplacedOK(i)
    BY <1>3 DEF RegInv, IDOK
  <2>2. ObjectOK(i)'
    BY <1>1, <2>1 DEF ObjectOK, Untouched
  <2>3. SetOK(i)'
    BY <1>1, <1>3, <1>4, <1>9, <2>1 DEF SetOK
  <2>4. Known(i, d) /\ \A e : Known(i, e) => e = d
    BY <1>4, <2>1 DEF IndexOK, ObjectOK, Known
  <2>5. IndexOK(i)'
    BY <1>1, <1>4, <1>9, <1>10, <2>4 DEF IndexOK
  <2>6. RouteOK(i)'
    <3>1. SUFFICES ASSUME NEW e \in Dests, Lookup(e, i) # Nil PROVE e = d
      BY <1>1, <1>4, <1>9, <1>10 DEF RouteOK
    <3>2. Known(i, e)
      BY <1>3, <3>1, LookupType, HeapTypes DEF StreamInv, RoutesOK, Known
    <3> QED
      BY <2>4, <3>2
  <2>7. DisplacedOK(i)'
    <3>1. \A e \in Dests : Known(i, e) => Lookup(e, i) # Nil \/ Shared(e, i)
      BY <1>1, <1>2, <1>4, <2>1 DEF DisplacedOK
    <3> QED
      BY <1>10, <1>12, <1>13, <3>1, AskedGrows DEF DisplacedOK, Shared
  <2> QED
    BY <2>2, <2>3, <2>5, <2>6, <2>7 DEF IDOK
<1>16. \A j \in F : IDOK(j)'
  BY <1>11, <1>15
<1>17. /\ status' \notin {"nil set", "nil pointer"}
       /\ \A e \in Dests, j \in SubsIDs \ F : Lookup(e, j)' = Lookup(e, j) \/ Shared(e, j)'
  BY <1>5, <1>10
<1> QED
  BY <1>12, <1>13, <1>14, <1>16, <1>17, StepKeeps

----------------------------------------------------------------------------
\* removeSubscription

LEMMA RemoveErrorKeeps ==
    ASSUME TypeInv, StreamInv, RegInv, status = "up", NEW s \in Sessions, RemoveError(s),
           pc[s] \in {"rm1", "rm2"}, UNCHANGED <<regVars, ptr>>
    PROVE  RegInv'
<1>1. /\ UNCHANGED status
      /\ Goto(s, "bye1") \/ Goto(s, "return")
      /\ arg' = arg \/ arg' = [arg EXCEPT ![s] = Blank(s, arg[s].no)]
      /\ rmIDs' = [rmIDs EXCEPT ![s] = {}]
  BY DEF RemoveError, Continue, Fail
<1>2. /\ pc \in [Sessions -> Labels] /\ arg \in [Sessions -> Frame]
      /\ rmIDs \in [Sessions -> SUBSET SubsIDs]
  BY HeapTypes DEF TypeInv, TypeOK, ProcTypeOK, SubTypeOK
<1>3. OthersStay(s)
  BY <1>1, <1>2 DEF OthersStay, Goto
<1>4. pc'[s] = "bye1" \/ pc'[s] = "return"
  BY <1>1, <1>2 DEF Goto
<1>5. Elsewhere(pc'[s])
  BY <1>4, ElsewhereLabels
<1>6. AsksOn(s) /\ pc[s] \notin Touching
  BY DEF AsksOn, Touching
<1> QED
  BY <1>1, <1>3, <1>5, <1>6, PassesKeeps DEF Passes, Harmless

\* The handler of s goes on with its subscription; the maps stay.
LEMMA GoOnKeeps ==
    ASSUME TypeInv, StreamInv, RegInv, status = "up", NEW s \in Sessions,
           pc[s] \notin Adding \cup Touching, pc'[s] \notin Touching,
           OthersStay(s), UNCHANGED <<regVars, status>>, SessOK(s)'
    PROVE  RegInv'
<1>1. AsksOn(s)
  BY DEF AsksOn, Adding
<1>2. MovesOn(s)
  BY <1>1 DEF MovesOn
<1> QED
  BY <1>2, StillKeeps DEF Harmless

LEMMA RemoveFindDestKeeps ==
    ASSUME TypeInv, StreamInv, RegInv, status = "up", NEW s \in Sessions,
           RemoveFindDest(s), UNCHANGED clientVars
    PROVE  RegInv'
<1>1. PICK i : i = arg[s].id
  OBVIOUS
<1>2. pc[s] = "rm1" /\ UNCHANGED <<regVars, ptr>>
  BY DEF RemoveFindDest, heapVars, regVars, clientVars
<1>3. i \in SubsIDs /\ issued[i] = s /\ i # Empty
  BY <1>1, <1>2, ProcessAssumption DEF RegInv, SessOK, OwnID, Removing
<1>4. PICK d : d = subsToDestMap[i]
  OBVIOUS
<1>5. CASE RemoveError(s)
  BY <1>2, <1>5, RemoveErrorKeeps
<1>6. CASE /\ d # Nil /\ arg' = [arg EXCEPT ![s] = [@ EXCEPT !.dest = d]]
           /\ Goto(s, "rm2") /\ UNCHANGED <<status, rmIDs>>
  <2>1. PICK f : f = [arg[s] EXCEPT !.dest = d]
    OBVIOUS
  <2>2. pc \in [Sessions -> Labels] /\ arg \in [Sessions -> Frame]
    BY DEF TypeInv, TypeOK, ProcTypeOK
  <2>3. f.id = i /\ f.dest = d /\ f.cmd = arg[s].cmd
    BY <1>1, <2>1, <2>2 DEF Frame
  <2>4. pc'[s] = "rm2" /\ arg'[s] = f /\ OthersStay(s)
    BY <1>2, <1>6, <2>1, <2>2 DEF Goto, OthersStay
  <2>5. UNCHANGED <<sessToSubsMap, subsToDestMap, destToSubsMap, issued>>
    BY <1>2 DEF regVars, mapVars
  <2>6. Live(s, i)
    BY <1>2, <1>3, <1>4, <1>6 DEF RegInv, IDOK, IndexOK, Touching
  <2>7. Live(s, i)' /\ subsToDestMap'[i] = d
    BY <1>4, <2>5, <2>6 DEF Live
  <2>8. CleanupOK(s)
    BY DEF RegInv, SessOK
  <2>9. CleanupOK(s)'
    BY <1>1, <1>2, <1>6, <2>3, <2>4, <2>5, <2>8 DEF CleanupOK, Disconnecting
  <2>10. OwnID(s)' /\ NewID(s)' /\ AddOK(s)' /\ AckOK(s)'
    BY <1>3, <2>3, <2>4, <2>5 DEF OwnID, NewID, AddOK, AckOK
  <2>11. RemoveOK(s)'
    <3>1. arg'[s].id = i /\ arg'[s].dest = d
      BY <2>3, <2>4
    <3> QED
      BY <2>4, <2>7, <3>1 DEF RemoveOK, Live
  <2>12. pc[s] \notin Adding \cup Touching /\ pc'[s] \notin Touching
    BY <1>2, <2>4 DEF Adding, Touching
  <2> QED
    BY <1>2, <1>6, <2>4, <2>9, <2>10, <2>11, <2>12, GoOnKeeps DEF SessOK
<1> QED
  BY <1>1, <1>3, <1>4, <1>5, <1>6 DEF RemoveFindDest

LEMMA RemoveCheckDestKeeps ==
    ASSUME TypeInv, StreamInv, RegInv, status = "up", NEW s \in Sessions,
           RemoveCheckDest(s), UNCHANGED clientVars
    PROVE  RegInv'
<1>1. pc[s] = "rm2" /\ UNCHANGED <<regVars, ptr>>
  BY DEF RemoveCheckDest, heapVars, regVars, clientVars
<1>2. CASE RemoveError(s)
  BY <1>1, <1>2, RemoveErrorKeeps
<1>3. CASE Continue(s, "rm3") /\ UNCHANGED rmIDs
  <2>1. pc'[s] = "rm3" /\ UNCHANGED <<arg, status>> /\ OthersStay(s)
    BY <1>1, <1>3, ContinueMoves
  <2>2. UNCHANGED <<sessToSubsMap, subsToDestMap, issued>>
    BY <1>1 DEF regVars, mapVars
  <2>3. SessOK(s)
    BY DEF RegInv
  <2>4. SessOK(s)'
    BY <1>1, <1>3, <2>1, <2>2, <2>3 DEF SessOK, OwnID, NewID, AddOK, RemoveOK, AckOK,
                                  CleanupOK, Disconnecting, Removing, Live
  <2>5. pc[s] \notin Adding \cup Touching /\ pc'[s] \notin Touching
    BY <1>1, <2>1 DEF Adding, Touching
  <2> QED
    BY <1>1, <2>1, <2>4, <2>5, GoOnKeeps
<1> QED
  BY <1>2, <1>3 DEF RemoveCheckDest

LEMMA RemoveFindInfoKeeps ==
    ASSUME TypeInv, StreamInv, RegInv, status = "up", NEW s \in Sessions,
           RemoveFindInfo(s), UNCHANGED clientVars
    PROVE  RegInv'
<1>1. pc[s] = "rm3" /\ UNCHANGED <<regVars, rmIDs>>
  BY DEF RemoveFindInfo, heapVars, regVars, clientVars
<1>2. PICK i, d, p : i = arg[s].id /\ d = arg[s].dest /\ p = Lookup(d, i)
  OBVIOUS
<1>3. d \in Dests /\ i \in SubsIDs /\ d # Nil
  BY <1>1, <1>2, NilAssumption DEF TypeInv, ArgsOK, NamesSubscription
<1>4. issued[i] = s /\ subsToDestMap[i] = d /\ Live(s, i)
  BY <1>1, <1>2 DEF RegInv, SessOK, OwnID, RemoveOK, Removing
<1>5. CASE p = Nil
  <2>1. Panic("nil pointer") /\ UNCHANGED ptr
    BY <1>2, <1>5 DEF RemoveFindInfo
  <2>2. Known(i, d)
    BY <1>3, <1>4 DEF RegInv, IDOK, IndexOK
  <2>3. Shared(d, i)
    BY <1>2, <1>3, <1>4, <1>5, <2>2 DEF RegInv, IDOK, DisplacedOK
  <2> QED
    BY <1>1, <1>3, <2>1, <2>2, <2>3, NilPointerKeeps
<1>6. CASE p # Nil
  <2>1. ptr' = [ptr EXCEPT ![s] = p] /\ Continue(s, "rm4")
    BY <1>2, <1>6 DEF RemoveFindInfo
  <2>2. /\ pc \in [Sessions -> Labels] /\ ptr \in [Sessions -> (1 .. nInfo) \cup {Nil}]
    BY HeapTypes DEF TypeInv, TypeOK, ProcTypeOK, SubTypeOK
  <2>3. pc'[s] = "rm4" /\ ptr'[s] = p /\ UNCHANGED <<arg, status>> /\ OthersStay(s)
    BY <1>1, <2>1, <2>2 DEF Continue, Goto, OthersStay
  <2>4. info[p].id = i
    BY <1>2, <1>3, <1>6 DEF StreamInv, RoutesOK
  <2>5. UNCHANGED <<sessToSubsMap, subsToDestMap, issued, info>>
    BY <1>1 DEF regVars, mapVars
  <2>6. CleanupOK(s)
    BY DEF RegInv, SessOK
  <2>7. SessOK(s)'
    BY <1>1, <1>2, <1>3, <1>4, <2>3, <2>4, <2>5, <2>6 DEF SessOK, OwnID, NewID, AddOK, RemoveOK, AckOK,
                                  CleanupOK, Disconnecting, Live
  <2>8. pc[s] \notin Adding \cup Touching /\ pc'[s] \notin Touching
    BY <1>1, <2>3 DEF Adding, Touching
  <2> QED
    BY <1>1, <2>3, <2>7, <2>8, GoOnKeeps
<1> QED
  BY <1>5, <1>6

\* Remove() of the owner's set: the subscription is out of the first map.
LEMMA RemoveFromSessionKeeps ==
    ASSUME TypeInv, StreamInv, RegInv, status = "up", NEW s \in Sessions,
           RemoveFromSession(s), UNCHANGED clientVars
    PROVE  RegInv'
<1>1. /\ pc[s] = "rm4"
      /\ UNCHANGED <<destToSubsMap, subsToDestMap, nInfo, info, issued, rmIDs>>
  BY DEF RemoveFromSession, heapVars, clientVars
<1>2. PICK i, d : i = arg[s].id /\ d = arg[s].dest
  OBVIOUS
<1>3. d \in Dests /\ i \in SubsIDs /\ d # Nil /\ s # Nil
  BY <1>1, <1>2, NilAssumption, ProcessAssumption DEF TypeInv, ArgsOK, NamesSubscription
<1>4. issued[i] = s /\ subsToDestMap[i] = d /\ Live(s, i) /\ info[ptr[s]].id = i
  BY <1>1, <1>2 DEF RegInv, SessOK, OwnID, RemoveOK, Removing
<1>5. info[ptr[s]].sess = s
  <2>1. ptr[s] \in 1 .. nInfo
    BY <1>1, HeapTypes DEF TypeInv, SubTypeOK, ArgsOK
  <2> QED
    BY <1>3, <1>4, <2>1 DEF RegInv, IDOK, ObjectOK
<1>6. PICK ids : ids = sessToSubsMap[s] \ {i}
  OBVIOUS
<1>7. /\ ptr' = [ptr EXCEPT ![s] = Nil] /\ Continue(s, "rm5")
      /\ sessToSubsMap' = [sessToSubsMap EXCEPT ![s] = ids]
  BY <1>2, <1>4, <1>5, <1>6 DEF RemoveFromSession, Live
<1>8. /\ pc \in [Sessions -> Labels] /\ ptr \in [Sessions -> (1 .. nInfo) \cup {Nil}]
      /\ sessToSubsMap \in [Sessions -> (SUBSET SubsIDs) \cup {Nil}]
  BY HeapTypes DEF TypeInv, TypeOK, ProcTypeOK, SubTypeOK
<1>9. pc'[s] = "rm5" /\ UNCHANGED <<arg, status>> /\ OthersStay(s)
  BY <1>1, <1>7, <1>8 DEF Continue, Goto, OthersStay
<1>10. /\ sessToSubsMap'[s] = ids /\ ids # Nil
       /\ \A t \in Sessions \ {s} : sessToSubsMap'[t] = sessToSubsMap[t]
  <2>1. ids \in SUBSET SubsIDs
    BY <1>4, <1>6, <1>8 DEF Live
  <2> QED
    BY <1>7, <1>8, <2>1, NilAssumption
<1>11. /\ ~Live(s, i)' /\ \A j \in SubsIDs \ {i} : Live(s, j)' <=> Live(s, j)
       /\ \A t \in Sessions : Live(t, i)' => Live(t, i)
  BY <1>4, <1>6, <1>10 DEF Live
<1>12. \A e, j : Lookup(e, j)' = Lookup(e, j) /\ (Known(j, e)' <=> Known(j, e))
  BY <1>1 DEF Lookup, Known
<1>13. PICK F : F = {i}
  OBVIOUS
<1>14. AsksOn(s)
  BY <1>1 DEF AsksOn
<1>15. arg'[s].id = i /\ arg'[s].dest = d
  BY <1>2, <1>9
<1>16. StepOf(s, F)
  BY <1>1, <1>2, <1>4, <1>9, <1>10, <1>11, <1>12, <1>13, <1>15 DEF StepOf, OthersStay
<1>17. CleanupOK(s)'
  <2>1. Disconnecting(s) => sessToSubsMap[s] = rmIDs[s] \cup {i} /\ i \notin rmIDs[s]
    BY <1>1, <1>2 DEF RegInv, SessOK, CleanupOK
  <2>2. Disconnecting(s) => ids = rmIDs[s]
    BY <1>6, <2>1
  <2> QED
    BY <1>1, <1>9, <1>10, <2>2 DEF CleanupOK, Disconnecting
<1>18. SessOK(s)'
  BY <1>1, <1>3, <1>4, <1>9, <1>11, <1>15, <1>17
     DEF SessOK, OwnID, NewID, AddOK, RemoveOK, AckOK
<1>19. IDOK(i)'
  <2>1. ObjectOK(i) /\ IndexOK(i) /\ SetOK(i) /\ RouteOK(i) /\ DisplacedOK(i)
    BY <1>3 DEF RegInv, IDOK
  <2>2. ObjectOK(i)'
    BY <1>1, <2>1 DEF ObjectOK, Untouched
  <2>3. SetOK(i)'
    BY <1>1, <1>11, <2>1 DEF SetOK
  <2>4. IndexOK(i)'
    BY <1>1, <1>4, <1>9, <1>12, <1>15, <2>1 DEF IndexOK, Touching
  <2>5. RouteOK(i)'
    BY <1>1, <1>4, <1>9, <1>15 DEF RouteOK
  <2>6. DisplacedOK(i)'
    BY <1>1, <1>4, <1>9, <1>11 DEF DisplacedOK
  <2> QED
    BY <2>2, <2>3, <2>4, <2>5, <2>6 DEF IDOK
<1>20. \A j \in F : IDOK(j)'
  BY <1>13, <1>19
<1>21. /\ status' \notin {"nil set", "nil pointer"}
       /\ \A e \in Dests, j \in SubsIDs \ F : Lookup(e, j)' = Lookup(e, j) \/ Shared(e, j)'
  BY <1>9, <1>12
<1> QED
  BY <1>14, <1>16, <1>18, <1>20, <1>21, StepKeeps

\* A later step of the removal: the subscription has left its session's set, and now
\* loses entries of the other maps.
LosesEntries(s) ==
    /\ pc[s] \in {"rm5", "rm6", "rm7", "rm8"} /\ OthersStay(s)
    /\ UNCHANGED <<status, sessToSubsMap, nInfo, info, issued>>
    /\ \A d \in Dests, j \in SubsIDs : Lookup(d, j)' \in {Lookup(d, j), Nil}
    /\ \A j \in SubsIDs \ {arg[s].id} : subsToDestMap'[j] = subsToDestMap[j]
    /\ subsToDestMap'[arg[s].id] \in {subsToDestMap[arg[s].id], Nil}
    /\ pc'[s] \in Touching => arg'[s].id = arg[s].id
    /\ pc'[s] \notin {"add4", "add5"}

LEMMA LosesEntriesKeeps ==
    ASSUME TypeInv, StreamInv, RegInv, status = "up", NEW s \in Sessions, LosesEntries(s),
           NEW i \in SubsIDs, i = arg[s].id,
           SessOK(s)', IndexOK(i)', \A d \in Dests : Lookup(d, i)' = Nil,
           \A d \in Dests, j \in SubsIDs \ {i} : Lookup(d, j)' = Lookup(d, j) \/ Shared(d, j)'
    PROVE  RegInv'
<1>1. UNCHANGED <<status, sessToSubsMap, nInfo, info, issued>>
  BY DEF LosesEntries
<1>2. issued[i] = s /\ s # Nil /\ ~Live(s, i)
  BY ProcessAssumption DEF LosesEntries, RegInv, SessOK, OwnID, RemoveOK, Removing
<1>3. PICK F : F = {i}
  OBVIOUS
<1>4. AsksOn(s)
  BY DEF AsksOn, LosesEntries
<1>5. StepOf(s, F)
  BY <1>1, <1>2, <1>3 DEF LosesEntries, StepOf, OthersStay, Live
<1>6. ObjectOK(i) /\ SetOK(i)
  BY DEF RegInv, IDOK
<1>7. ObjectOK(i)'
  BY <1>1, <1>2, <1>6 DEF ObjectOK
<1>8. \A t \in Sessions : ~Live(t, i)
  BY <1>2, <1>6 DEF SetOK
<1>9. SetOK(i)' /\ RouteOK(i)'
  BY <1>1, <1>8 DEF SetOK, RouteOK, Live
<1>10. DisplacedOK(i)'
  <2>1. ~Live(issued[i], i)'
    BY <1>1, <1>2 DEF Live
  <2> QED
    BY <1>1, <1>2, <2>1 DEF DisplacedOK, LosesEntries
<1>11. \A j \in F : IDOK(j)'
  BY <1>3, <1>7, <1>9, <1>10 DEF IDOK
<1>12. status' \notin {"nil set", "nil pointer"}
  BY <1>1
<1> QED
  BY <1>3, <1>4, <1>5, <1>11, <1>12, StepKeeps

LEMMA RemoveEntryKeeps ==
    ASSUME TypeInv, StreamInv, RegInv, status = "up", NEW s \in Sessions, RemoveEntry(s),
           UNCHANGED clientVars
    PROVE  RegInv'
<1>1. /\ pc[s] = "rm5" /\ Continue(s, "rm6")
      /\ UNCHANGED <<sessToSubsMap, subsToDestMap, nInfo, info, issued, ptr, rmIDs>>
  BY DEF RemoveEntry, heapVars, localVars, clientVars
<1>2. PICK i, d : i = arg[s].id /\ d = arg[s].dest
  OBVIOUS
<1>3. d \in Dests /\ i \in SubsIDs /\ d # Nil
  BY <1>1, <1>2, NilAssumption DEF TypeInv, ArgsOK, NamesSubscription
<1>4. issued[i] = s /\ subsToDestMap[i] = d /\ ~Live(s, i)
  BY <1>1, <1>2 DEF RegInv, SessOK, OwnID, RemoveOK, Removing
<1>5. pc'[s] = "rm6" /\ UNCHANGED <<arg, status>> /\ OthersStay(s)
  BY <1>1, ContinueMoves
<1>6. \A e \in Dests \ {d} : Lookup(e, i) = Nil
  <2>1. \A e : Known(i, e) => e = d
    BY <1>3, <1>4 DEF RegInv, IDOK, ObjectOK, IndexOK, Known
  <2>2. \A e \in Dests : Lookup(e, i) # Nil => Known(i, e)
    BY <1>3, LookupType, HeapTypes DEF StreamInv, RoutesOK, Known
  <2> QED
    BY <2>1, <2>2
<1>7. \A e \in Dests, j \in SubsIDs :
        Lookup(e, j)' = IF e = d /\ j = i THEN Nil ELSE Lookup(e, j)
  <2>1. CASE destToSubsMap[d] = Nil
    <3>1. UNCHANGED destToSubsMap
      BY <1>2, <2>1 DEF RemoveEntry
    <3> QED
      BY <2>1, <3>1 DEF Lookup
  <2>2. CASE destToSubsMap[d] # Nil
    <3>1. PICK f : f = [destToSubsMap[d] EXCEPT ![i] = Nil]
      OBVIOUS
    <3>2. destToSubsMap' = [destToSubsMap EXCEPT ![d] = f]
      BY <1>2, <2>2, <3>1 DEF RemoveEntry
    <3>3. destToSubsMap[d] \in [SubsIDs -> (1 .. nInfo) \cup {Nil}]
      BY <1>3, <2>2, HeapTypes
    <3>4. \A j \in SubsIDs : f[j] = IF j = i THEN Nil ELSE destToSubsMap[d][j]
      BY <1>3, <3>1, <3>3
    <3>5. f # Nil
      <4>1. \A q \in 1 .. nInfo : q \in Addr
        BY HeapTypes
      <4>2. f \in [SubsIDs -> Addr \cup {Nil}]
        BY <3>1, <3>3, <4>1
      <4> QED
        BY <4>2, NilAssumption
    <3>6. \A e \in Dests : destToSubsMap'[e] = IF e = d THEN f ELSE destToSubsMap[e]
      BY <1>3, <3>2, HeapTypes
    <3> QED
      BY <2>2, <3>4, <3>5, <3>6 DEF Lookup
  <2> QED
    BY <2>1, <2>2
<1>8. arg'[s].id = i /\ arg'[s].dest = d
  BY <1>2, <1>5
<1>9. LosesEntries(s)
  BY <1>1, <1>2, <1>5, <1>7 DEF LosesEntries
<1>10. \A e \in Dests : Lookup(e, i)' = Nil
  BY <1>3, <1>6, <1>7
<1>11. SessOK(s)'
  <2>1. CleanupOK(s)
    BY DEF RegInv, SessOK
  <2> QED
    BY <1>1, <1>3, <1>4, <1>5, <1>8, <1>10, <2>1
       DEF SessOK, OwnID, NewID, AddOK, RemoveOK, AckOK, CleanupOK, Disconnecting, Live
<1>12. IndexOK(i)'
  <2>1. IndexOK(i)
    BY <1>3 DEF RegInv, IDOK
  <2> QED
    BY <1>1, <1>4, <1>5, <1>8, <2>1 DEF IndexOK, Known, Touching
<1>13. \A e \in Dests, j \in SubsIDs \ {i} : Lookup(e, j)' = Lookup(e, j) \/ Shared(e, j)'
  BY <1>7
<1> QED
  BY <1>2, <1>3, <1>9, <1>10, <1>11, <1>12, <1>13, LosesEntriesKeeps

LEMMA RemoveCheckEmptyKeeps ==
    ASSUME TypeInv, StreamInv, RegInv, status = "up", NEW s \in Sessions,
           RemoveCheckEmpty(s), UNCHANGED clientVars
    PROVE  RegInv'
<1>1. PICK l \in {"rm7", "rm8"} : Continue(s, l)
  BY DEF RemoveCheckEmpty
<1>2. /\ pc[s] = "rm6"
      /\ UNCHANGED <<destToSubsMap, sessToSubsMap, subsToDestMap, nInfo, info, issued, ptr, rmIDs>>
  BY DEF RemoveCheckEmpty, subVars, mapVars, heapVars, localVars, clientVars
<1>3. PICK i, d : i = arg[s].id /\ d = arg[s].dest
  OBVIOUS
<1>4. d \in Dests /\ i \in SubsIDs /\ d # Nil
  BY <1>2, <1>3, NilAssumption DEF TypeInv, ArgsOK, NamesSubscription
<1>5. /\ issued[i] = s /\ subsToDestMap[i] = d /\ ~Live(s, i)
      /\ \A e \in Dests : Lookup(e, i) = Nil
  BY <1>2, <1>3 DEF RegInv, SessOK, OwnID, RemoveOK, Removing
<1>6. pc'[s] = l /\ UNCHANGED <<arg, status>> /\ OthersStay(s)
  BY <1>1, <1>2, ContinueMoves
<1>7. \A e, j : Lookup(e, j)' = Lookup(e, j)
  BY <1>2 DEF Lookup
<1>8. arg'[s].id = i /\ arg'[s].dest = d
  BY <1>3, <1>6
<1>9. LosesEntries(s)
  BY <1>1, <1>2, <1>3, <1>6, <1>7 DEF LosesEntries
<1>10. SessOK(s)'
  <2>1. CleanupOK(s)
    BY DEF RegInv, SessOK
  <2> QED
    BY <1>1, <1>2, <1>4, <1>5, <1>6, <1>7, <1>8, <2>1
       DEF SessOK, OwnID, NewID, AddOK, RemoveOK, AckOK, CleanupOK, Disconnecting, Live
<1>11. IndexOK(i)'
  <2>1. IndexOK(i)
    BY <1>4 DEF RegInv, IDOK
  <2> QED
    BY <1>1, <1>2, <1>5, <1>6, <1>8, <2>1 DEF IndexOK, Known, Touching
<1> QED
  BY <1>3, <1>4, <1>5, <1>7, <1>9, <1>10, <1>11, LosesEntriesKeeps

\* The destination's map is deleted, with whatever was entered since it was checked.
LEMMA RemoveDestKeeps ==
    ASSUME TypeInv, StreamInv, RegInv, status = "up", NEW s \in Sessions, RemoveDest(s),
           UNCHANGED clientVars
    PROVE  RegInv'
<1>1. /\ pc[s] = "rm7" /\ Continue(s, "rm8")
      /\ destToSubsMap' = [destToSubsMap EXCEPT ![arg[s].dest] = Nil]
      /\ UNCHANGED <<sessToSubsMap, subsToDestMap, nInfo, info, issued, ptr, rmIDs>>
  BY DEF RemoveDest, heapVars, localVars, clientVars
<1>2. PICK i, d : i = arg[s].id /\ d = arg[s].dest
  OBVIOUS
<1>3. d \in Dests /\ i \in SubsIDs /\ d # Nil
  BY <1>1, <1>2, NilAssumption DEF TypeInv, ArgsOK, NamesSubscription
<1>4. /\ issued[i] = s /\ subsToDestMap[i] = d /\ ~Live(s, i)
      /\ \A e \in Dests : Lookup(e, i) = Nil
  BY <1>1, <1>2 DEF RegInv, SessOK, OwnID, RemoveOK, Removing
<1>5. pc'[s] = "rm8" /\ UNCHANGED <<arg, status>> /\ OthersStay(s)
  BY <1>1, ContinueMoves
<1>6. \A e \in Dests, j \in SubsIDs : Lookup(e, j)' = IF e = d THEN Nil ELSE Lookup(e, j)
  BY <1>1, <1>2, <1>3, HeapTypes DEF Lookup
<1>7. arg'[s].id = i /\ arg'[s].dest = d
  BY <1>2, <1>5
<1>8. LosesEntries(s)
  BY <1>1, <1>2, <1>5, <1>6 DEF LosesEntries
<1>9. \A e \in Dests : Lookup(e, i)' = Nil
  BY <1>3, <1>4, <1>6
<1>10. SessOK(s)'
  <2>1. CleanupOK(s)
    BY DEF RegInv, SessOK
  <2> QED
    BY <1>1, <1>3, <1>4, <1>5, <1>7, <1>9, <2>1
       DEF SessOK, OwnID, NewID, AddOK, RemoveOK, AckOK, CleanupOK, Disconnecting, Live
<1>11. Known(i, d)
  BY <1>3, <1>4 DEF RegInv, IDOK, IndexOK
<1>12. IndexOK(i)'
  BY <1>1, <1>4, <1>5, <1>7, <1>11 DEF IndexOK, Known, Touching
<1>13. \A e \in Dests, j \in SubsIDs \ {i} : Lookup(e, j)' = Lookup(e, j) \/ Shared(e, j)'
  <2>1. \A j \in SubsIDs \ {i} : Shared(d, j)'
    BY <1>1, <1>11 DEF Shared, Asked, Known
  <2> QED
    BY <1>6, <2>1
<1> QED
  BY <1>2, <1>3, <1>8, <1>9, <1>10, <1>12, <1>13, LosesEntriesKeeps

LEMMA RemoveIndexDestKeeps ==
    ASSUME TypeInv, StreamInv, RegInv, status = "up", NEW s \in Sessions,
           RemoveIndexDest(s), UNCHANGED clientVars
    PROVE  RegInv'
<1>1. /\ pc[s] = "rm8"
      /\ subsToDestMap' = [subsToDestMap EXCEPT ![arg[s].id] = Nil]
      /\ UNCHANGED <<destToSubsMap, sessToSubsMap, nInfo, info, issued, ptr, rmIDs>>
  BY DEF RemoveIndexDest, heapVars, localVars, clientVars
<1>2. PICK i : i = arg[s].id
  OBVIOUS
<1>3. i \in SubsIDs
  BY <1>1, <1>2 DEF TypeInv, ArgsOK, NamesSubscription
<1>4. /\ issued[i] = s /\ ~Live(s, i) /\ \A e \in Dests : Lookup(e, i) = Nil
  BY <1>1, <1>2 DEF RegInv, SessOK, OwnID, RemoveOK, Removing
<1>5. /\ subsToDestMap'[i] = Nil
      /\ \A j \in SubsIDs \ {i} : subsToDestMap'[j] = subsToDestMap[j]
  BY <1>1, <1>2, <1>3, HeapTypes DEF SubTypeOK
<1>6. \A e, j : Lookup(e, j)' = Lookup(e, j)
  BY <1>1 DEF Lookup
<1>7. IndexOK(i)'
  BY <1>5 DEF IndexOK
<1>8. UNCHANGED status /\ OthersStay(s) /\ SessOK(s)'
      /\ pc'[s] \notin Touching
  <2>1. CASE Disconnecting(s) /\ Continue(s, "cleanup2")
    <3>1. pc'[s] = "cleanup2" /\ UNCHANGED <<arg, status>> /\ OthersStay(s)
      BY <1>1, <2>1, ContinueMoves
    <3>2. sessToSubsMap[s] = rmIDs[s]
      BY <1>1, <2>1 DEF RegInv, SessOK, CleanupOK
    <3>3. SessOK(s)'
      BY <1>1, <3>1, <3>2 DEF SessOK, OwnID, NewID, AddOK, RemoveOK, AckOK, CleanupOK,
                              Adding, Removing
    <3> QED
      BY <3>1, <3>3 DEF Touching
  <2>2. CASE Return(s)
    <3>1. Elsewhere(pc'[s]) /\ UNCHANGED status /\ OthersStay(s)
      BY <1>1, <2>2, LeaveMoves
    <3>2. SessOK(s)'
      BY <3>1 DEF Elsewhere, Adding, Removing, SessOK, OwnID, NewID, AddOK, RemoveOK, AckOK,
         CleanupOK
    <3> QED
      BY <3>1, <3>2 DEF Elsewhere, Adding, Removing, Touching
  <2> QED
    BY <2>1, <2>2 DEF RemoveIndexDest
<1>9. LosesEntries(s)
  BY <1>1, <1>2, <1>5, <1>6, <1>8 DEF LosesEntries, Touching
<1> QED
  BY <1>2, <1>3, <1>4, <1>6, <1>7, <1>8, <1>9, LosesEntriesKeeps

----------------------------------------------------------------------------
\* cleanupSubscriptions

LEMMA CleanupBeginKeeps ==
    ASSUME TypeInv, StreamInv, RegInv, status = "up", NEW s \in Sessions, CleanupBegin(s),
           UNCHANGED clientVars
    PROVE  RegInv'
<1>1. pc[s] = "cleanup1" /\ UNCHANGED <<regVars, ptr>>
  BY DEF CleanupBegin, heapVars, regVars, clientVars
<1>2. \/ Continue(s, "bye1") /\ UNCHANGED rmIDs
      \/ /\ rmIDs' = [rmIDs EXCEPT ![s] = sessToSubsMap[s]]
         /\ Continue(s, "cleanup2")
  BY DEF CleanupBegin
<1>3. /\ pc \in [Sessions -> Labels] /\ rmIDs \in [Sessions -> SUBSET SubsIDs]
  BY HeapTypes DEF TypeInv, TypeOK, ProcTypeOK, SubTypeOK
<1>4. OthersStay(s) /\ UNCHANGED status
  BY <1>1, <1>2, <1>3 DEF OthersStay, Continue, Goto
<1>5. \/ pc'[s] = "bye1"
      \/ pc'[s] = "cleanup2" /\ rmIDs'[s] = sessToSubsMap[s]
  BY <1>2, <1>3 DEF Continue, Goto
<1>6. UNCHANGED sessToSubsMap
  BY <1>1 DEF regVars, mapVars
<1>7. SessOK(s)'
  BY <1>5, <1>6 DEF SessOK, OwnID, NewID, AddOK, RemoveOK, AckOK, CleanupOK, Adding, Removing
<1>8. pc[s] \notin Adding \cup Touching /\ pc'[s] \notin Touching
  BY <1>1, <1>5 DEF Adding, Touching
<1> QED
  BY <1>1, <1>4, <1>7, <1>8, GoOnKeeps

LEMMA CleanupNextKeeps ==
    ASSUME TypeInv, StreamInv, RegInv, status = "up", NEW s \in Sessions, CleanupNext(s),
           UNCHANGED clientVars
    PROVE  RegInv'
<1>1. /\ pc[s] = "cleanup2" /\ Goto(s, "rm1") /\ UNCHANGED <<status, regVars, ptr>>
  BY DEF CleanupNext, heapVars, regVars, clientVars
<1>2. PICK i \in rmIDs[s] : /\ rmIDs' = [rmIDs EXCEPT ![s] = @ \ {i}]
                            /\ arg' = [arg EXCEPT ![s] = [@ EXCEPT !.id = i]]
  BY DEF CleanupNext
<1>3. /\ pc \in [Sessions -> Labels] /\ rmIDs \in [Sessions -> SUBSET SubsIDs]
      /\ arg \in [Sessions -> Frame]
  BY HeapTypes DEF TypeInv, TypeOK, ProcTypeOK, SubTypeOK
<1>4. PICK f : f = [arg[s] EXCEPT !.id = i]
  OBVIOUS
<1>5. f.id = i
  BY <1>3, <1>4 DEF Frame
<1>6. /\ pc'[s] = "rm1" /\ arg'[s] = f /\ rmIDs'[s] = rmIDs[s] \ {i} /\ OthersStay(s)
  BY <1>1, <1>2, <1>3, <1>4 DEF OthersStay, Goto
<1>7. i \in SubsIDs /\ sessToSubsMap[s] = rmIDs[s] /\ rmIDs[s] # Nil
  BY <1>1, <1>2, <1>3, NilAssumption DEF RegInv, SessOK, CleanupOK
<1>8. issued[i] = s
  BY <1>7 DEF RegInv, IDOK, SetOK, Live
<1>9. UNCHANGED <<sessToSubsMap, issued>>
  BY <1>1 DEF regVars, mapVars
<1>10. rmIDs[s] = (rmIDs[s] \ {i}) \cup {i}
  OBVIOUS
<1>11. CleanupOK(s)'
  BY <1>5, <1>6, <1>7, <1>9, <1>10 DEF CleanupOK
<1>12. SessOK(s)'
  BY <1>5, <1>6, <1>7, <1>8, <1>9, <1>11 DEF SessOK, OwnID, NewID, AddOK, RemoveOK, AckOK
<1>13. pc[s] \notin Adding \cup Touching /\ pc'[s] \notin Touching
  BY <1>1, <1>6 DEF Adding, Touching
<1> QED
  BY <1>1, <1>6, <1>12, <1>13, GoOnKeeps

\* Nothing is left in the set that is deleted.
LEMMA CleanupLastKeeps ==
    ASSUME TypeInv, StreamInv, RegInv, status = "up", NEW s \in Sessions, CleanupLast(s),
           UNCHANGED clientVars
    PROVE  RegInv'
<1>1. /\ pc[s] = "cleanup2" /\ Continue(s, "bye1") /\ rmIDs[s] = {}
      /\ sessToSubsMap' = [sessToSubsMap EXCEPT ![s] = Nil]
      /\ UNCHANGED <<destToSubsMap, subsToDestMap, nInfo, info, issued, ptr, rmIDs>>
  BY DEF CleanupLast, heapVars, localVars, clientVars
<1>2. sessToSubsMap[s] = {}
  BY <1>1 DEF RegInv, SessOK, CleanupOK
<1>3. /\ sessToSubsMap'[s] = Nil
      /\ \A t \in Sessions \ {s} : sessToSubsMap'[t] = sessToSubsMap[t]
  BY <1>1, HeapTypes DEF SubTypeOK
<1>4. \A j : ~Live(s, j) /\ ~Live(s, j)'
  BY <1>2, <1>3 DEF Live
<1>5. pc'[s] = "bye1" /\ UNCHANGED <<arg, status>> /\ OthersStay(s)
  BY <1>1, ContinueMoves
<1>6. AsksOn(s) /\ pc[s] \notin Touching /\ pc'[s] \notin Touching
  BY <1>1, <1>5 DEF AsksOn, Touching
<1>7. PICK F : F = {}
  OBVIOUS
<1>8. \A e, j : Lookup(e, j)' = Lookup(e, j)
  BY <1>1 DEF Lookup
<1>9. StepOf(s, F)
  BY <1>1, <1>3, <1>4, <1>5, <1>6, <1>7, <1>8 DEF StepOf, OthersStay
<1>10. SessOK(s)'
  BY <1>5 DEF SessOK, OwnID, NewID, AddOK, RemoveOK, AckOK, CleanupOK, Adding, Removing
<1>11. \A j \in F : IDOK(j)'
  BY <1>7
<1>12. /\ status' \notin {"nil set", "nil pointer"}
       /\ \A e \in Dests, j \in SubsIDs \ F : Lookup(e, j)' = Lookup(e, j) \/ Shared(e, j)'
  BY <1>5, <1>8
<1> QED
  BY <1>6, <1>9, <1>10, <1>11, <1>12, StepKeeps

----------------------------------------------------------------------------
\* processAck

\* The entry was in its session's set when the first lookup found it.
LEMMA AckCheckKeeps ==
    ASSUME TypeInv, StreamInv, RegInv, status = "up", NEW s \in Sessions, AckCheck(s),
           UNCHANGED clientVars
    PROVE  RegInv'
<1>1. pc[s] = "ack1" /\ UNCHANGED <<regVars, ptr, rmIDs>>
  BY DEF AckCheck, subVars, heapVars, localVars, regVars, clientVars
<1>2. pc[s] \notin Adding \cup Touching
  BY <1>1 DEF Adding, Touching
<1>3. CASE Fail(s)
  BY <1>1, <1>2, <1>3, MoveKeeps
<1>4. CASE Lookup(arg[s].dest, arg[s].id) # Nil /\ Continue(s, "ack2")
  <2>1. PICK i, d : i = arg[s].id /\ d = arg[s].dest
    OBVIOUS
  <2>2. d \in Dests /\ i \in SubsIDs
    BY <1>1, <2>1 DEF TypeInv, ArgsOK, NamesSubscription
  <2>3. AckOK(s)
    BY DEF RegInv, SessOK
  <2>4. Known(i, d)
    BY <1>1, <2>1, <2>3 DEF AckOK
  <2>5. Live(s, i) \/ issued[i] # s
    BY <1>1, <1>4, <2>1, <2>2, <2>4 DEF RegInv, IDOK, RouteOK
  <2>6. pc'[s] = "ack2" /\ UNCHANGED <<arg, status>> /\ OthersStay(s)
    BY <1>1, <1>4, ContinueMoves
  <2>7. UNCHANGED <<sessToSubsMap, issued, info, nInfo>>
    BY <1>1 DEF regVars, mapVars
  <2>8. AckOK(s)'
    BY <2>1, <2>4, <2>5, <2>6, <2>7 DEF AckOK, Known, Live
  <2>9. SessOK(s)'
    BY <2>6, <2>8 DEF SessOK, OwnID, NewID, AddOK, RemoveOK, CleanupOK, Adding, Removing
  <2>10. pc'[s] \notin Touching
    BY <2>6 DEF Touching
  <2> QED
    BY <1>1, <1>2, <2>6, <2>9, <2>10, GoOnKeeps
<1> QED
  BY <1>3, <1>4 DEF AckCheck

LEMMA AckLookupKeeps ==
    ASSUME TypeInv, StreamInv, RegInv, status = "up", NEW s \in Sessions, AckLookup(s),
           UNCHANGED clientVars
    PROVE  RegInv'
<1>1. pc[s] = "ack2" /\ UNCHANGED <<regVars, rmIDs>>
  BY DEF AckLookup, heapVars, regVars, clientVars
<1>2. PICK i, d, p : i = arg[s].id /\ d = arg[s].dest /\ p = Lookup(d, i)
  OBVIOUS
<1>3. d \in Dests /\ i \in SubsIDs
  BY <1>1, <1>2 DEF TypeInv, ArgsOK, NamesSubscription
<1>4. CASE p = Nil
  <2>1. Panic("nil pointer") /\ UNCHANGED ptr
    BY <1>2, <1>4 DEF AckLookup
  <2>2. AckOK(s)
    BY DEF RegInv, SessOK
  <2>3. Known(i, d) /\ (Live(s, i) \/ issued[i] # s)
    BY <1>1, <1>2, <2>2 DEF AckOK
  <2>4. CASE issued[i] # s
    <3>1. AcksForeign(s)
      BY <1>1, <1>2, <2>4 DEF AcksForeign
    <3> QED
      BY <1>1, <1>3, <2>1, <2>3, <3>1, NilPointerKeeps
  <2>5. ASSUME issued[i] = s PROVE Shared(d, i)
    BY <1>2, <1>3, <1>4, <2>3, <2>5 DEF RegInv, IDOK, DisplacedOK
  <2> QED
    BY <1>1, <1>3, <2>1, <2>3, <2>4, <2>5, NilPointerKeeps
<1>5. CASE p # Nil
  <2>1. ptr' = [ptr EXCEPT ![s] = p] /\ Continue(s, "ack3")
    BY <1>2, <1>5 DEF AckLookup
  <2>2. \A t \in Sessions \ {s} : ptr'[t] = ptr[t] /\ rmIDs'[t] = rmIDs[t]
    BY <1>1, <2>1, HeapTypes DEF SubTypeOK
  <2>3. pc[s] \notin Adding \cup Touching /\ Elsewhere("ack3")
    BY <1>1, ElsewhereLabels DEF Adding, Touching
  <2> QED
    BY <1>1, <2>1, <2>2, <2>3, MoveKeeps
<1> QED
  BY <1>4, <1>5

----------------------------------------------------------------------------
\* The specification.

LEMMA RegInit == Init => RegInv
<1> SUFFICES ASSUME Init PROVE RegInv
  OBVIOUS
<1>1. /\ status = "up" /\ nInfo = 0
      /\ \A s \in Sessions : pc[s] = "none" /\ sessToSubsMap[s] = Nil
      /\ \A i \in SubsIDs : subsToDestMap[i] = Nil /\ issued[i] = Nil
      /\ \A d \in Dests, i \in SubsIDs : Lookup(d, i) = Nil
  BY DEF Init, ProcInit, SubInit, Lookup
<1>2. \A i \in SubsIDs : Untouched(i)
  BY <1>1 DEF Untouched
<1>3. \A s \in Sessions : SessOK(s)
  BY <1>1 DEF SessOK, OwnID, NewID, AddOK, RemoveOK, AckOK, CleanupOK, Adding, Removing
<1>4. \A i \in SubsIDs : IDOK(i)
  BY <1>1, <1>2 DEF IDOK, ObjectOK, IndexOK, SetOK, RouteOK, DisplacedOK, Untouched, Live,
                    Known
<1> QED
  BY <1>1, <1>3, <1>4 DEF RegInv, NoNilSet, NilPointerOK

LEMMA ReceiveKeeps ==
    ASSUME LibraryClients, TypeInv, StreamInv, RegInv, status = "up", NEW s \in Sessions,
           ReceiveStep(s)
    PROVE  RegInv'
BY SubscribeKeeps, UnsubscribeKeeps, AckKeeps, OtherFramesKeep DEF ReceiveStep

LEMMA RegistryStepKeeps ==
    ASSUME TypeInv, StreamInv, RegInv, status = "up", NEW s \in Sessions,
           SubscribeStep(s), UNCHANGED clientVars
    PROVE  RegInv'
<1>1. CASE AddCheck(s) \/ AddReset(s) \/ AddInsert(s) \/ AddIndexDest(s) \/ AddIndexSession(s)
  BY <1>1, AddCheckKeeps, AddResetKeeps, AddInsertKeeps, AddIndexDestKeeps,
     AddIndexSessionKeeps
<1>2. CASE \/ RemoveFindDest(s) \/ RemoveCheckDest(s) \/ RemoveFindInfo(s)
           \/ RemoveFromSession(s) \/ RemoveEntry(s) \/ RemoveCheckEmpty(s)
           \/ RemoveDest(s) \/ RemoveIndexDest(s)
  BY <1>2, RemoveFindDestKeeps, RemoveCheckDestKeeps, RemoveFindInfoKeeps,
     RemoveFromSessionKeeps, RemoveEntryKeeps, RemoveCheckEmptyKeeps, RemoveDestKeeps,
     RemoveIndexDestKeeps
<1>3. CASE CleanupBegin(s) \/ CleanupNext(s) \/ CleanupLast(s)
  BY <1>3, CleanupBeginKeeps, CleanupNextKeeps, CleanupLastKeeps
<1>4. CASE AckCheck(s) \/ AckLookup(s)
  BY <1>4, AckCheckKeeps, AckLookupKeeps
<1>5. CASE \/ PublishRange(s) \/ PublishWait(s) \/ AckApply(s)
           \/ \E p \in Addr : PublishNext(s, p) \/ SendStep(s, p)
  BY <1>5, PublishKeeps
<1> QED
  BY <1>1, <1>2, <1>3, <1>4, <1>5 DEF SubscribeStep, HandlerStep

LEMMA RegNext ==
    ASSUME LibraryClients, TypeInv, StreamInv, RegInv, [Next]_vars
    PROVE  RegInv'
<1>1. CASE UNCHANGED vars
  BY <1>1, AllStay
     DEF vars, procVars, subVars, heapVars, localVars, clientVars, regVars, Harmless
<1>2. CASE Next
  <2>1. status = "up"
    BY <1>2 DEF Next
  <2>2. PICK s \in Sessions :
          \/ ReceiveStep(s)
          \/ SessionStep(s) /\ UNCHANGED <<subVars, txVars, clientVars>>
          \/ SubscribeStep(s) /\ UNCHANGED <<sessVars, txVars, clientVars>>
          \/ TransactionStep(s) /\ UNCHANGED <<sessVars, subVars, clientVars>>
          \/ \E t \in Sessions : MapFault(s, t)
    BY <1>2 DEF Next
  <2>3. CASE \E t \in Sessions : MapFault(s, t)
    BY <2>3, AllStay
       DEF MapFault, Panic, subVars, heapVars, localVars, clientVars, regVars, Harmless
  <2>4. CASE SessionStep(s) /\ UNCHANGED <<subVars, txVars, clientVars>>
    BY <2>1, <2>4, SessionKeeps
  <2>5. CASE TransactionStep(s) /\ UNCHANGED <<sessVars, subVars, clientVars>>
    BY <2>1, <2>5, TransactionKeeps
  <2>6. CASE SubscribeStep(s) /\ UNCHANGED <<sessVars, txVars, clientVars>>
    BY <2>1, <2>6, RegistryStepKeeps
  <2> QED
    BY <2>1, <2>2, <2>3, <2>4, <2>5, <2>6, ReceiveKeeps
<1> QED
  BY <1>1, <1>2

LEMMA RegInvariant == ASSUME LibraryClients PROVE Spec => []RegInv
<1>1. Init => RegInv
  BY RegInit
<1>2. TypeInv /\ StreamInv /\ RegInv /\ [Next]_vars => RegInv'
  BY RegNext
<1> QED
  BY <1>1, <1>2, TypeInvariant, StreamInvariant, PTL DEF Spec

----------------------------------------------------------------------------
\* What can be routed is in the two other maps, unless its session is about to add or
\* to remove it: UNSUBSCRIBE and the cleanup of DISCONNECT find every subscription
\* that publish() delivers to (addSubscription and removeSubscription).
THEOREM RoutedAreOwned == ASSUME LibraryClients PROVE Spec => []RoutableOwned
<1>1. TypeInv /\ StreamInv /\ RegInv => RoutableOwned
  <2>1. SUFFICES ASSUME TypeInv, StreamInv, RegInv,
                        NEW d \in Dests, NEW i \in SubsIDs, Lookup(d, i) # Nil,
                        NEW s, s = info[Lookup(d, i)].sess
                 PROVE  \/ pc[s] \in {"add4", "add5", "rm5"} /\ arg[s].id = i
                        \/ subsToDestMap[i] = d /\ sessToSubsMap[s] # Nil /\ i \in sessToSubsMap[s]
    BY DEF RoutableOwned
  <2>2. Lookup(d, i) \in 1 .. nInfo /\ info[Lookup(d, i)].id = i
    BY <2>1, LookupType, HeapTypes DEF StreamInv, RoutesOK
  <2>3. issued[i] = s
    BY <2>1, <2>2 DEF RegInv, IDOK, ObjectOK
  <2> QED
    BY <2>1, <2>3 DEF RegInv, IDOK, RouteOK, Live
<1> QED
  BY <1>1, TypeInvariant, StreamInvariant, RegInvariant, PTL

\* removeSubscription() never calls Remove() on a nil set: a session's set of IDs
\* outlives every subscription that a handler of it can look up.
THEOREM SetsAreThere == ASSUME LibraryClients PROVE Spec => []NoNilSet
<1>1. RegInv => NoNilSet
  BY DEF RegInv
<1> QED
  BY <1>1, RegInvariant, PTL

\* A subscriber that never shared its destination stays routed, and nobody finds the
\* nil entry of removeSubscription() and processAck() unless a destination is shared or
\* an ACK is for a subscription of another session.
THEOREM OnlySharingDisplaces == ASSUME LibraryClients PROVE Spec => []SoleSubscriberIsSafe
<1>1. TypeInv /\ RegInv => SoleSubscriberIsSafe
  <2> SUFFICES ASSUME TypeInv, RegInv PROVE SoleSubscriberIsSafe
    OBVIOUS
  <2>1. ASSUME NEW s \in Sessions, NEW i \in SubsIDs, Live(s, i)
        PROVE  Asked(subsToDestMap[i]) # {i} \/ Lookup(subsToDestMap[i], i) # Nil
    <3>1. PICK d : d = subsToDestMap[i]
      OBVIOUS
    <3>2. issued[i] = s /\ d # Nil
      BY <2>1, <3>1 DEF RegInv, IDOK, SetOK
    <3>3. d \in Dests
      BY <2>1, <3>1, <3>2, HeapTypes DEF SubTypeOK
    <3>4. Known(i, d)
      BY <3>1, <3>2 DEF RegInv, IDOK, IndexOK
    <3>5. Lookup(d, i) # Nil \/ Shared(d, i)
      BY <2>1, <3>2, <3>3, <3>4 DEF RegInv, IDOK, DisplacedOK
    <3> QED
      BY <3>1, <3>5 DEF Shared
  <2> QED
    BY <2>1 DEF SoleSubscriberIsSafe, RegInv, NilPointerOK, Live
<1> QED
  BY <1>1, TypeInvariant, RegInvariant, PTL
=============================================================================
