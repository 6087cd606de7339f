----------------------------- MODULE Subscribe -----------------------------
(***************************************************************************)
(* subscribe.go: the three process-wide maps that route messages, and the  *)
(* subsInfo objects they lead to.  No lock protects the maps, so every     *)
(* handler is split at each map access; only a subsInfo has a mutex.       *)
(*                                                                         *)
(* A Go map is a total function whose absent keys hold Nil.  subsInfo      *)
(* objects are numbered in the order they are allocated: goroutines keep   *)
(* pointers to objects that have already been removed from the maps.       *)
(***************************************************************************)
EXTENDS Session

CONSTANTS
    MaxSubs,    \* bound: how many subsInfo objects are allocated
    AckMod      \* nextAckNum is a uint32: AckMod is 2^32 in the code

ASSUME SubscribeAssumption ==
    /\ MaxSubs \in Nat
    /\ AckMod \in Nat \ {0}

Addr == 1 .. MaxSubs

VARIABLES
    destToSubsMap,  \* destination => (subscription ID => subsInfo)
    sessToSubsMap,  \* session => set of subscription IDs
    subsToDestMap,  \* subscription ID => destination
    nInfo,          \* how many subsInfo objects have been allocated
    info,           \* their constant fields, with the mode the client asked for
    nextAckNum,
    pendingAckBitmap,
    mutex,          \* mutex[p]: the session whose goroutine holds p's lock, or Nil
    ptr,            \* ptr[s]: the *subsInfo a handler of s has looked up
    rmIDs,          \* rmIDs[s]: the rest of ToSlice() in cleanupSubscriptions
    gor,            \* gor[s][p]: the sendIt goroutine of s's publish() for p
    npub,           \* npub[s]: how many times s has called publish()
    log             \* log[p]: the MESSAGE frames written for p (history)

mapVars == <<destToSubsMap, sessToSubsMap, subsToDestMap>>
heapVars == <<nInfo, info, nextAckNum, pendingAckBitmap, mutex>>
localVars == <<ptr, rmIDs>>
pubVars == <<gor, npub, log>>
subVars == <<mapVars, heapVars, localVars, pubVars>>

Info == [sess: Sessions, dest: Dests, id: SubsIDs,
         ackMode: AckModes, asked: AckModes]

\* nil is no pointer to an object, no string, no set, no map that was made, no frame.
ASSUME NilAssumption ==
    /\ Nil \notin Addr \cup Info
    /\ Nil \notin Dests
    /\ \A ids \in SUBSET SubsIDs : ids # Nil
    /\ Nil \notin [SubsIDs -> Addr \cup {Nil}]
    /\ Nil \notin Frame

GorStates == {"none", "due", "start", "locked", "written", "done", "failed"}

Entry == [by: Sessions, pub: Nat, ack: Nat, msg: Frame]

SubInit ==
    /\ destToSubsMap = [d \in Dests |-> Nil]
    /\ sessToSubsMap = [s \in Sessions |-> Nil]
    /\ subsToDestMap = [i \in SubsIDs |-> Nil]
    /\ nInfo = 0
    /\ info = [p \in Addr |-> Nil]
    /\ nextAckNum = [p \in Addr |-> 0]
    /\ pendingAckBitmap = [p \in Addr |-> {}]
    /\ mutex = [p \in Addr |-> Nil]
    /\ ptr = [s \in Sessions |-> Nil]
    /\ rmIDs = [s \in Sessions |-> {}]
    /\ gor = [s \in Sessions |-> [p \in Addr |-> "none"]]
    /\ npub = [s \in Sessions |-> 0]
    /\ log = [p \in Addr |-> <<>>]

\* subsToInfo{}: a destination's map without entries.
NoSubs == [i \in SubsIDs |-> Nil]

\* destToSubsMap[d][i], Nil when either key is absent.
Lookup(d, i) == IF destToSubsMap[d] = Nil THEN Nil ELSE destToSubsMap[d][i]

----------------------------------------------------------------------------
\* addSubscription

\* The header checks, and whether the destination's map holds this very ID.
AddCheck(s) ==
    LET d == arg[s].dest
        i == arg[s].id
    IN
    /\ At(s, "add1")
    /\ IF i = Empty \/ d = Empty THEN Fail(s)
       ELSE Continue(s, IF Lookup(d, i) = Nil THEN "add2" ELSE "add3")
    /\ UNCHANGED subVars

\* Mutant: all destinations get a new map.
AddResetAll(s) ==
    /\ At(s, "add2")
    /\ destToSubsMap' = [d \in Dests |-> NoSubs]
    /\ Continue(s, "add3")
    /\ UNCHANGED <<sessToSubsMap, subsToDestMap, heapVars, localVars, pubVars>>

\* If not, the destination gets a new map, whatever other IDs the old one holds.
AddReset(s) ==
    /\ At(s, "add2")
    /\ destToSubsMap' = [destToSubsMap EXCEPT ![arg[s].dest] = NoSubs]
    /\ Continue(s, "add3")
    /\ UNCHANGED <<sessToSubsMap, subsToDestMap, heapVars, localVars, pubVars>>

\* The mode stateMachine() passes on: the header's value only when it is "".
AckModeOf(m) == IF m = "" THEN m ELSE "auto"

\* The new subsInfo is entered.  Writing to an absent destination's nil map panics.
AddInsert(s) ==
    LET d == arg[s].dest
        i == arg[s].id
        p == nInfo + 1
    IN
    /\ At(s, "add3")
    /\ UNCHANGED <<sessToSubsMap, subsToDestMap, localVars, pubVars, mutex>>
    /\ \/ /\ destToSubsMap[d] = Nil
          /\ Panic("nil map")
          /\ UNCHANGED <<destToSubsMap, nInfo, info, nextAckNum, pendingAckBitmap>>
       \/ /\ destToSubsMap[d] # Nil
          /\ nInfo < MaxSubs
          /\ nInfo' = p
          /\ info' = [info EXCEPT ![p] =
                        [sess |-> s, dest |-> d, id |-> i, asked |-> arg[s].mode,
                         ackMode |-> AckModeOf(arg[s].mode)]]
          /\ nextAckNum' = [nextAckNum EXCEPT ![p] = 0]
          /\ pendingAckBitmap' = [pendingAckBitmap EXCEPT ![p] = {}]
          /\ destToSubsMap' = [destToSubsMap EXCEPT ![d] = [@ EXCEPT ![i] = p]]
          /\ Continue(s, "add4")

AddIndexDest(s) ==
    /\ At(s, "add4")
    /\ subsToDestMap' = [subsToDestMap EXCEPT ![arg[s].id] = arg[s].dest]
    /\ Continue(s, "add5")
    /\ UNCHANGED <<destToSubsMap, sessToSubsMap, heapVars, localVars, pubVars>>

\* Only the session's own goroutine creates and deletes its set.
AddIndexSession(s) ==
    /\ At(s, "add5")
    /\ sessToSubsMap' = [sessToSubsMap EXCEPT
                           ![s] = (IF @ = Nil THEN {} ELSE @) \cup {arg[s].id}]
    /\ Return(s)
    /\ UNCHANGED <<destToSubsMap, subsToDestMap, heapVars, localVars, pubVars>>

----------------------------------------------------------------------------
\* removeSubscription, called for UNSUBSCRIBE and by cleanupSubscriptions, which
\* gives up at the first error; its own error is ignored.

Disconnecting(s) == arg[s].cmd = "DISCONNECT"

RemoveError(s) ==
    /\ IF Disconnecting(s) THEN Continue(s, "bye1") ELSE Fail(s)
    /\ rmIDs' = [rmIDs EXCEPT ![s] = {}]

\* Whether the entry goes before the check or between it and the read that follows,
\* removeSubscription() returns an error.
RemoveFindDest(s) ==
    LET i == arg[s].id
        d == IF i = Empty THEN Nil ELSE subsToDestMap[i]
    IN
    /\ At(s, "rm1")
    /\ IF d = Nil THEN RemoveError(s)
       ELSE /\ arg' = [arg EXCEPT ![s] = [@ EXCEPT !.dest = d]]
            /\ Goto(s, "rm2")
            /\ UNCHANGED <<status, msg, rmIDs>>
    /\ UNCHANGED <<mapVars, heapVars, ptr, pubVars>>

RemoveCheckDest(s) ==
    /\ At(s, "rm2")
    /\ IF destToSubsMap[arg[s].dest] = Nil THEN RemoveError(s)
       ELSE Continue(s, "rm3") /\ UNCHANGED rmIDs
    /\ UNCHANGED <<mapVars, heapVars, ptr, pubVars>>

\* The subsInfo is dereferenced for its session without a check that it is there.
RemoveFindInfo(s) ==
    LET p == Lookup(arg[s].dest, arg[s].id) IN
    /\ At(s, "rm3")
    /\ \/ p = Nil /\ Panic("nil pointer") /\ UNCHANGED ptr
       \/ p # Nil /\ ptr' = [ptr EXCEPT ![s] = p] /\ Continue(s, "rm4")
    /\ UNCHANGED <<mapVars, heapVars, rmIDs, pubVars>>

\* sessToSubsMap[sess].Remove: a method call on a nil set panics.
RemoveFromSession(s) ==
    LET owner == info[ptr[s]].sess IN
    /\ At(s, "rm4")
    /\ \/ /\ sessToSubsMap[owner] = Nil
          /\ Panic("nil set")
          /\ UNCHANGED <<sessToSubsMap, ptr>>
       \/ /\ sessToSubsMap[owner] # Nil
          /\ ptr' = [ptr EXCEPT ![s] = Nil]
          /\ sessToSubsMap' = [sessToSubsMap EXCEPT ![owner] = @ \ {arg[s].id}]
          /\ Continue(s, "rm5")
    /\ UNCHANGED <<destToSubsMap, subsToDestMap, heapVars, rmIDs, pubVars>>

\* delete() on an absent map does nothing.
RemoveEntry(s) ==
    LET d == arg[s].dest IN
    /\ At(s, "rm5")
    /\ destToSubsMap' =
          IF destToSubsMap[d] = Nil THEN destToSubsMap
          ELSE [destToSubsMap EXCEPT ![d] = [@ EXCEPT ![arg[s].id] = Nil]]
    /\ Continue(s, "rm6")
    /\ UNCHANGED <<sessToSubsMap, subsToDestMap, heapVars, localVars, pubVars>>

\* len() of an absent map is 0 as well.
RemoveCheckEmpty(s) ==
    /\ At(s, "rm6")
    /\ Continue(s, IF destToSubsMap[arg[s].dest] \in {Nil, NoSubs} THEN "rm7" ELSE "rm8")
    /\ UNCHANGED subVars

RemoveDest(s) ==
    /\ At(s, "rm7")
    /\ destToSubsMap' = [destToSubsMap EXCEPT ![arg[s].dest] = Nil]
    /\ Continue(s, "rm8")
    /\ UNCHANGED <<sessToSubsMap, subsToDestMap, heapVars, localVars, pubVars>>

RemoveIndexDest(s) ==
    /\ At(s, "rm8")
    /\ subsToDestMap' = [subsToDestMap EXCEPT ![arg[s].id] = Nil]
    /\ IF Disconnecting(s) THEN Continue(s, "cleanup2") ELSE Return(s)
    /\ UNCHANGED <<destToSubsMap, sessToSubsMap, heapVars, localVars, pubVars>>

\* Mutant: the session's set is deleted before its subscriptions are removed.
CleanupDeleteFirst(s) ==
    /\ At(s, "cleanup1")
    /\ IF sessToSubsMap[s] = Nil
       THEN Continue(s, "bye1") /\ UNCHANGED <<rmIDs, sessToSubsMap>>
       ELSE /\ rmIDs' = [rmIDs EXCEPT ![s] = sessToSubsMap[s]]
            /\ sessToSubsMap' = [sessToSubsMap EXCEPT ![s] = Nil]
            /\ Continue(s, "cleanup2")
    /\ UNCHANGED <<destToSubsMap, subsToDestMap, heapVars, ptr, pubVars>>

\* cleanupSubscriptions: ToSlice() is taken once, and its IDs are removed in the
\* arbitrary order of the set.
CleanupBegin(s) ==
    /\ At(s, "cleanup1")
    /\ IF sessToSubsMap[s] = Nil
       THEN Continue(s, "bye1") /\ UNCHANGED rmIDs
       ELSE /\ rmIDs' = [rmIDs EXCEPT ![s] = sessToSubsMap[s]]
            /\ Continue(s, "cleanup2")
    /\ UNCHANGED <<mapVars, heapVars, ptr, pubVars>>

CleanupNext(s) ==
    /\ At(s, "cleanup2")
    /\ \E i \in rmIDs[s] :
          /\ rmIDs' = [rmIDs EXCEPT ![s] = @ \ {i}]
          /\ arg' = [arg EXCEPT ![s] = [@ EXCEPT !.id = i]]
    /\ Goto(s, "rm1")
    /\ UNCHANGED <<status, msg, mapVars, heapVars, ptr, pubVars>>

\* Mutant: the session's set is deleted although IDs are left.
CleanupTooEarly(s) ==
    /\ At(s, "cleanup2")
    /\ sessToSubsMap' = [sessToSubsMap EXCEPT ![s] = Nil]
    /\ Continue(s, "bye1")
    /\ UNCHANGED <<destToSubsMap, subsToDestMap, heapVars, localVars, pubVars>>

CleanupLast(s) ==
    /\ At(s, "cleanup2")
    /\ rmIDs[s] = {}
    /\ sessToSubsMap' = [sessToSubsMap EXCEPT ![s] = Nil]
    /\ Continue(s, "bye1")
    /\ UNCHANGED <<destToSubsMap, subsToDestMap, heapVars, localVars, pubVars>>

----------------------------------------------------------------------------
\* publish

\* Mutant: subscribers are looked up by their IDs alone.
TargetsByID(d) == {p \in 1 .. nInfo : Lookup(d, info[p].id) # Nil}

\* The objects in a destination's map.
Targets(d) == {p \in 1 .. nInfo : \E i \in SubsIDs : Lookup(d, i) = p}

SetGor(s, p, state) == gor' = [gor EXCEPT ![s] = [@ EXCEPT ![p] = state]]

\* The range over the destination's map begins; its entries are due to be met.
PublishRange(s) ==
    LET d == msg[s].dest IN
    /\ At(s, "pub")
    /\ IF d = Empty
       THEN Fail(s) /\ UNCHANGED <<gor, npub>>
       ELSE /\ gor' = [gor EXCEPT ![s] = [p \in Addr |-> IF p \in Targets(d)
                                                       THEN "due" ELSE "none"]]
            /\ npub' = [npub EXCEPT ![s] = @ + 1]
            /\ Continue(s, "wait")
    /\ UNCHANGED <<mapVars, heapVars, localVars, log>>

\* Mutant: an entry that is still there may be passed over.
PublishSkips(s, p) ==
    /\ gor[s][p] = "due"
    /\ SetGor(s, p, "start") \/ SetGor(s, p, "none")
    /\ UNCHANGED <<procVars, mapVars, heapVars, localVars, npub, log>>

\* The range meets an entry: wg.Add(1) and a new goroutine.  An entry removed since
\* the range began may be passed over; entries added since need not be met.
PublishNext(s, p) ==
    /\ gor[s][p] = "due"
    /\ \/ SetGor(s, p, "start")
       \/ p \notin Targets(msg[s].dest) /\ SetGor(s, p, "none")
    /\ UNCHANGED <<procVars, mapVars, heapVars, localVars, npub, log>>

\* Mutant: sendIt without the lock.
SendUnlocked(s, p) ==
    /\ gor[s][p] = "start"
    /\ SetGor(s, p, "locked")
    /\ UNCHANGED <<procVars, mapVars, heapVars, localVars, npub, log>>

\* sendIt: info.Lock()
SendLock(s, p) ==
    /\ gor[s][p] = "start"
    /\ mutex[p] = Nil
    /\ mutex' = [mutex EXCEPT ![p] = s]
    /\ SetGor(s, p, "locked")
    /\ UNCHANGED <<procVars, mapVars, nInfo, info, nextAckNum, pendingAckBitmap,
                   localVars, npub, log>>

\* sendMessage, with the acknowledgement number of the moment.
SendWrite(s, p) ==
    /\ gor[s][p] = "locked"
    /\ WriteSucceeds(info[p].sess)
    /\ log' = [log EXCEPT ![p] = Append(@, [by |-> s, pub |-> npub[s],
                                            ack |-> nextAckNum[p], msg |-> msg[s]])]
    /\ SetGor(s, p, "written")
    /\ UNCHANGED <<procVars, mapVars, heapVars, localVars, npub>>

\* Mutant: a counter wider than the bitmap's elements.
NextAckWide(n) == n + 1

\* nextAckNum++ of a uint32.
NextAck(n) == (n + 1) % AckMod

\* Mutant: the lock is not released.
SendDoneLocked(s, p) ==
    /\ gor[s][p] = "written"
    /\ pendingAckBitmap' = [pendingAckBitmap EXCEPT ![p] = @ \cup {nextAckNum[p]}]
    /\ nextAckNum' = [nextAckNum EXCEPT ![p] = NextAck(@)]
    /\ SetGor(s, p, "done")
    /\ UNCHANGED <<procVars, mapVars, nInfo, info, mutex, localVars, npub, log>>

\* Mutant: the frame is sent again although it was written.
SendDoneAgain(s, p) ==
    /\ gor[s][p] = "written"
    /\ pendingAckBitmap' = [pendingAckBitmap EXCEPT ![p] = @ \cup {nextAckNum[p]}]
    /\ nextAckNum' = [nextAckNum EXCEPT ![p] = NextAck(@)]
    /\ mutex' = [mutex EXCEPT ![p] = Nil]
    /\ SetGor(s, p, "start") \/ SetGor(s, p, "done")
    /\ UNCHANGED <<procVars, mapVars, nInfo, info, localVars, npub, log>>

\* The number is recorded as pending and moves on; then wg.Done() and Unlock().
SendDone(s, p) ==
    /\ gor[s][p] = "written"
    /\ pendingAckBitmap' = [pendingAckBitmap EXCEPT ![p] = @ \cup {nextAckNum[p]}]
    /\ nextAckNum' = [nextAckNum EXCEPT ![p] = NextAck(@)]
    /\ mutex' = [mutex EXCEPT ![p] = Nil]
    /\ SetGor(s, p, "done")
    /\ UNCHANGED <<procVars, mapVars, nInfo, info, localVars, npub, log>>

\* Mutant: the number is recorded as pending although the write failed.
SendFailsPending(s, p) ==
    /\ gor[s][p] = "locked"
    /\ WriteFails(info[p].sess)
    /\ pendingAckBitmap' = [pendingAckBitmap EXCEPT ![p] = @ \cup {nextAckNum[p]}]
    /\ mutex' = [mutex EXCEPT ![p] = Nil]
    /\ SetGor(s, p, "failed")
    /\ UNCHANGED <<procVars, mapVars, nInfo, info, nextAckNum, localVars, npub, log>>

\* When every retry failed sendIt returns early: Unlock(), but no wg.Done().
SendFails(s, p) ==
    /\ gor[s][p] = "locked"
    /\ WriteFails(info[p].sess)
    /\ mutex' = [mutex EXCEPT ![p] = Nil]
    /\ SetGor(s, p, "failed")
    /\ UNCHANGED <<procVars, mapVars, nInfo, info, nextAckNum, pendingAckBitmap,
                   localVars, npub, log>>

\* wg.Wait() returns when each goroutine has called wg.Done().  publish() returns
\* to foreachTx() when it was called for a COMMIT.
PublishWait(s) ==
    /\ At(s, "wait")
    /\ \A p \in Addr : gor[s][p] \in {"none", "done"}
    /\ gor' = [gor EXCEPT ![s] = [p \in Addr |-> "none"]]
    /\ IF arg[s].cmd = "COMMIT" THEN Continue(s, "foreach") ELSE Return(s)
    /\ UNCHANGED <<mapVars, heapVars, localVars, npub, log>>

----------------------------------------------------------------------------
\* processAck

\* The numbers that an ACK of n leaves pending.  In "client" mode the code removes
\* the run of consecutive numbers that starts at the minimum.
AfterAck(mode, pending, n) ==
    CASE mode = "client" ->
            {k \in pending : \E g \in 0 .. k : g \notin pending
                                /\ \E m \in pending : m < g}
      [] mode = "client-individual" -> pending \ {n}
      [] OTHER -> pending

AckCheck(s) ==
    /\ At(s, "ack1")
    /\ IF Lookup(arg[s].dest, arg[s].id) = Nil THEN Fail(s) ELSE Continue(s, "ack2")
    /\ UNCHANGED subVars

\* The entry is read again; info.Lock() of a nil pointer panics.
AckLookup(s) ==
    LET p == Lookup(arg[s].dest, arg[s].id) IN
    /\ At(s, "ack2")
    /\ \/ p = Nil /\ Panic("nil pointer") /\ UNCHANGED ptr
       \/ p # Nil /\ ptr' = [ptr EXCEPT ![s] = p] /\ Continue(s, "ack3")
    /\ UNCHANGED <<mapVars, heapVars, rmIDs, pubVars>>

\* The bitmap is updated under the object's lock.
AckApply(s) ==
    LET p == ptr[s] IN
    /\ At(s, "ack3")
    /\ mutex[p] = Nil
    /\ pendingAckBitmap' = [pendingAckBitmap EXCEPT
                              ![p] = AfterAck(info[p].ackMode, @, arg[s].ack)]
    /\ ptr' = [ptr EXCEPT ![s] = Nil]
    /\ Return(s)
    /\ UNCHANGED <<mapVars, nInfo, info, nextAckNum, mutex, rmIDs, pubVars>>

----------------------------------------------------------------------------
SendStep(s, p) ==
    \/ SendLock(s, p) \/ SendWrite(s, p) \/ SendDone(s, p) \/ SendFails(s, p)

\* The steps of the session's own goroutine.
HandlerStep(s) ==
    \/ AddCheck(s) \/ AddReset(s) \/ AddInsert(s)
    \/ AddIndexDest(s) \/ AddIndexSession(s)
    \/ RemoveFindDest(s) \/ RemoveCheckDest(s) \/ RemoveFindInfo(s)
    \/ RemoveFromSession(s) \/ RemoveEntry(s) \/ RemoveCheckEmpty(s)
    \/ RemoveDest(s) \/ RemoveIndexDest(s)
    \/ CleanupBegin(s) \/ CleanupNext(s) \/ CleanupLast(s)
    \/ PublishRange(s) \/ PublishWait(s) \/ \E p \in Addr : PublishNext(s, p)
    \/ AckCheck(s) \/ AckLookup(s) \/ AckApply(s)

SubscribeStep(s) == HandlerStep(s) \/ \E p \in Addr : SendStep(s, p)

\* Pointers lead to allocated objects only.
SubTypeOK ==
    /\ nInfo \in 0 .. MaxSubs
    /\ destToSubsMap \in [Dests -> [SubsIDs -> (1 .. nInfo) \cup {Nil}] \cup {Nil}]
    /\ sessToSubsMap \in [Sessions -> (SUBSET SubsIDs) \cup {Nil}]
    /\ subsToDestMap \in [SubsIDs -> Dests \cup {Nil}]
    /\ info \in [Addr -> Info \cup {Nil}]
    /\ \A p \in 1 .. nInfo : info[p] \in Info
    /\ nextAckNum \in [Addr -> 0 .. AckMod - 1]
    /\ pendingAckBitmap \in [Addr -> SUBSET (0 .. AckMod - 1)]
    /\ mutex \in [Addr -> Sessions \cup {Nil}]
    /\ ptr \in [Sessions -> (1 .. nInfo) \cup {Nil}]
    /\ rmIDs \in [Sessions -> SUBSET SubsIDs]
    /\ gor \in [Sessions -> [Addr -> GorStates]]
    /\ npub \in [Sessions -> Nat]
    /\ log \in [Addr -> Seq(Entry)]
=============================================================================
