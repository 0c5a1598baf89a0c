----------------------- MODULE FleetControllerProofs -----------------------
(***************************************************************************)
(* Proofs about FleetController, for every value of the bounds.            *)
(***************************************************************************)
EXTENDS FleetController, FiniteSetTheorems, SequenceTheorems, TLAPS

-----------------------------------------------------------------------------
(* The inductive invariant: what the controller may rely on although what  *)
(* it reads may be old                                                     *)

\* The versions of the fleet that the controller knows, in its local or its
\* cache, or will still be told of.
KnownFleets == fWatch \cup {cFleet, fl}

\* A resource version names one state of the fleet, of which Reconcile changes
\* only the count of servers before it writes, and no copy is ahead.
VersionsAreUnique ==
    /\ fleet.rv = 0 => fleet = NoFleet
    /\ \A v \in KnownFleets :
          /\ v.rv <= fleet.rv
          /\ v.rv = fleet.rv => v.ex = fleet.ex /\ v.fin = fleet.fin /\ v.del = fleet.del

\* What Reconcile read is not newer than the cache, the cache not newer than
\* what the watch has yet to deliver.
CachesMoveForward ==
    /\ fl.rv <= cFleet.rv
    /\ \A v \in fWatch : cFleet.rv <= v.rv

\* An object without finalizers does not survive its deletion.
Settled == fleet.del => fleet.ex /\ fleet.fin

\* A copy of the fleet that shows it protected and wanted may be old, but the
\* stored fleet is still protected: only this controller takes the finalizer
\* away, and only after it has seen the deletion.
OldCopiesAreProtected ==
    \A v \in KnownFleets : v.ex /\ v.fin /\ ~v.del => fleet.ex /\ fleet.fin

ScalingSteps == {"getServers", "createServer", "findDeleteServer", "deleteServer",
                 "relist", "statusUpdate"}

DeletionSteps == {"listForDeletion", "deleteServers", "relistForDeletion",
                  "removeFinalizer"}

\* What the position in Reconcile says about the fleet it started from, and
\* that the loop that scales up ends.
WorkerKnows ==
    /\ pc = "idle" => fl = NoFleet
    /\ pc = "addFinalizer" => fl.ex /\ ~fl.del
    /\ pc \in ScalingSteps => fl.ex /\ fl.fin /\ ~fl.del
    /\ pc \in DeletionSteps => fl.ex /\ fl.del
    /\ pc = "createServer" => need > 0

\* There are servers only once the fleet was seen with its finalizer.
ServersComeAfterFinalizer ==
    (\E s \in Ids : life[s] # "none") => fleet.rv > 0 /\ (fleet.ex => fleet.fin)

\* A server that the cache shows, or an event will show, to be gone is gone.
GoneIsFinal ==
    /\ \A s \in Ids : known[s] = "gone" => life[s] = "gone"
    /\ \A i \in 1..Len(sEvents) : sEvents[i].life = "gone" => life[sEvents[i].server] = "gone"

FleetInv ==
    /\ TypeOK
    /\ VersionsAreUnique
    /\ CachesMoveForward
    /\ Settled
    /\ OldCopiesAreProtected
    /\ WorkerKnows
    /\ ServersComeAfterFinalizer
    /\ GoneIsFinal
    /\ OnlyUnseenLeftBehind

-----------------------------------------------------------------------------
(* Types *)

Events == [server : Ids, life : Lives]

LEMMA NoFleetType == NoFleet \in Fleets
  BY DEF NoFleet, Fleets

\* The cache lists finitely many servers.
LEMMA ListIsFinite == IsFiniteSet(getServers) /\ Cardinality(getServers) \in Nat
<1>1. IsFiniteSet(Ids)
  BY FleetAssumption, FS_Interval DEF Ids
<1>2. getServers \subseteq Ids
  BY DEF getServers
<1>3. IsFiniteSet(getServers)
  BY <1>1, <1>2, FS_Subset
<1>4. QED
  BY <1>3, FS_CardinalityType

\* A write stores a fleet of the right type, whatever the write is.
LEMMA WriteFleetType ==
    ASSUME TypeOK, NEW new \in Fleets, WriteFleet(new)
    PROVE  fleet' \in Fleets /\ fWatch' \subseteq Fleets
<1>1. CASE new = fleet
  BY <1>1 DEF WriteFleet, fleetVars, TypeOK
<1>2. CASE new # fleet
  <2>1. fleet.rv + 1 \in Nat
    BY DEF TypeOK, Fleets
  <2>2. \A n \in Nat : SettleFleet([new EXCEPT !.rv = n]) \in Fleets
    <3> TAKE n \in Nat
    <3>1. [new EXCEPT !.rv = n] \in Fleets
      BY DEF Fleets
    <3>2. [NoFleet EXCEPT !.rv = n] \in Fleets
      BY NoFleetType DEF Fleets
    <3>3. [new EXCEPT !.rv = n].rv = n
      BY DEF Fleets
    <3>4. QED
      BY <3>1, <3>2, <3>3 DEF SettleFleet
  <2>3. SettleFleet([new EXCEPT !.rv = fleet.rv + 1]) \in Fleets
    BY <2>1, <2>2
  <2>4. QED
    BY <1>2, <2>3 DEF WriteFleet, TypeOK
<1>3. QED
  BY <1>1, <1>2

LEMMA SetLifeType ==
    ASSUME TypeOK, NEW s \in Ids, NEW l \in Lives, SetLife(s, l)
    PROVE  life' \in [Ids -> Lives] /\ sEvents' \in Seq(Events) /\ pods' \subseteq Ids
<1>1. [server |-> s, life |-> l] \in Events
  BY DEF Events
<1>2. QED
  BY <1>1, AppendProperties DEF SetLife, TypeOK, Events

LEMMA RequestDeletionType ==
    ASSUME TypeOK, NEW s \in Ids, RequestDeletion(s)
    PROVE  life' \in [Ids -> Lives] /\ sEvents' \in Seq(Events) /\ pods' \subseteq Ids
<1>1. {"terminating", "gone"} \subseteq Lives
  BY DEF Lives
<1>2. QED
  BY <1>1, SetLifeType DEF RequestDeletion, serverVars, TypeOK, Events

LEMMA ReturnType ==
    ASSUME TypeOK, NEW again \in BOOLEAN, Return(again)
    PROVE  /\ pc' \in Steps /\ fl' \in Fleets /\ need' \in Nat /\ todo' \subseteq Ids
           /\ queued' \in BOOLEAN
  BY NoFleetType DEF Return, TypeOK, Steps

\* The loop of scaleServerCount counts need down and ends at zero: need stays
\* a natural number only because of that, so the two are proved together.
LoopEnds == pc = "createServer" => need > 0

LEMMA TypeStep == TypeOK /\ LoopEnds /\ [Next]_vars => TypeOK' /\ LoopEnds'
<1> SUFFICES ASSUME TypeOK, LoopEnds, [Next]_vars PROVE TypeOK' /\ LoopEnds'
  OBVIOUS
<1> USE DEF TypeOK, LoopEnds, fleetVars, serverVars, cacheVars, workerVars, budgetVars
<1>1. CASE Reconcile
  BY <1>1, ReturnType DEF Reconcile, Return, Goto, FirstStep, Steps
<1>2. CASE AddFinalizer
  <2>1. [fl EXCEPT !.fin = TRUE] \in Fleets
    BY DEF Fleets
  <2>2. QED
    BY <1>2, <2>1, WriteFleetType, ReturnType DEF AddFinalizer, Return
<1>3. CASE CountServers
  <2> DEFINE n == Cardinality(getServers)
  <2>1. n \in Nat
    BY ListIsFinite
  <2>2. fl.replicas \in Int
    BY DEF Fleets
  <2>3. fl' \in Fleets
    BY <1>3, <2>1 DEF CountServers, Fleets
  <2>4. need' \in Nat /\ (TooFew(n) => need' > 0)
    BY <1>3, <2>1, <2>2 DEF CountServers, TooFew
  <2>5. pc' \in Steps /\ (pc' = "createServer" => TooFew(n))
    BY <1>3 DEF CountServers, Goto, Steps
  <2>6. QED
    BY <1>3, <2>3, <2>4, <2>5 DEF CountServers
<1>4. CASE CreateServer
  <2>1. CASE StoreNewServer /\ need' = need - 1
             /\ Goto(IF LastRound THEN "relist" ELSE "createServer") /\ UNCHANGED <<queued, fl, todo>>
    <3>1. life' \in [Ids -> Lives] /\ sEvents' \in Seq(Events) /\ pods' \subseteq Ids
      BY <2>1, SetLifeType DEF StoreNewServer, Unborn, Lives
    <3>2. need' \in Nat /\ (pc' = "createServer" => need' > 0)
      BY <1>4, <2>1 DEF CreateServer, Goto, LastRound
    <3>3. QED
      BY <1>4, <2>1, <3>1, <3>2 DEF CreateServer, Goto, Steps, Events
  <2>2. CASE UNCHANGED serverVars /\ Return(TRUE)
    BY <1>4, <2>2, ReturnType DEF CreateServer, Return
  <2>3. QED
    BY <1>4, <2>1, <2>2 DEF CreateServer
<1>5. CASE PickServer
  <2>1. todo' \subseteq Ids
    BY <1>5 DEF PickServer, Eligible, First, getServers
  <2>2. QED
    BY <1>5, <2>1 DEF PickServer, Goto, Steps
<1>6. CASE PickFails
  BY <1>6, ReturnType DEF PickFails, Return
<1>7. CASE DeleteServer
  BY <1>7, RequestDeletionType, ReturnType DEF DeleteServer, Return, Goto, Steps, Events
<1>8. CASE Relist
  <2>1. fl' \in Fleets
    BY <1>8, ListIsFinite DEF Relist, Fleets
  <2>2. QED
    BY <1>8, <2>1 DEF Relist, Goto, Steps
<1>9. CASE StatusUpdate
  <2>1. [fleet EXCEPT !.current = fl.current] \in Fleets
    BY DEF Fleets
  <2>2. QED
    BY <1>9, <2>1, WriteFleetType, ReturnType DEF StatusUpdate, Return
<1>10. CASE ListForDeletion
  BY <1>10 DEF ListForDeletion, ToDelete, getServers, Goto, Steps
<1>11. CASE DeleteServers
  BY <1>11, RequestDeletionType, ReturnType DEF DeleteServers, Return, Goto, Steps, Events
<1>12. CASE RelistForDeletion
  BY <1>12, ReturnType DEF RelistForDeletion, Return, Goto, Steps
<1>13. CASE RemoveFinalizer
  <2>1. [fl EXCEPT !.fin = FALSE] \in Fleets
    BY DEF Fleets
  <2>2. QED
    BY <1>13, <2>1, WriteFleetType, ReturnType DEF RemoveFinalizer, Return
<1>14. CASE CallFails
  <2>1. disturbances' \in 0..MaxDisturbances
    BY <1>14, FleetAssumption DEF CallFails, Disturb
  <2>2. QED
    BY <1>14, <2>1, ReturnType DEF CallFails, Disturb, Return
<1>15. CASE Crash
  <2>1. disturbances' \in 0..MaxDisturbances
    BY <1>15, FleetAssumption DEF Crash, Disturb
  <2>2. sEvents' \in Seq(Events)
    BY <1>15, EmptySeq DEF Crash
  <2>3. (fleet.ex \/ \E s \in Ids : Exists(s)) \in BOOLEAN
    OBVIOUS
  <2>4. QED
    BY <1>15, <2>1, <2>2, <2>3, NoFleetType DEF Crash, Disturb, Steps, Events
<1>16. CASE DeliverFleet
  BY <1>16 DEF DeliverFleet
<1>17. CASE DeliverServer
  <2>1. Head(sEvents) \in Events /\ Tail(sEvents) \in Seq(Events)
    BY <1>17, HeadTailProperties DEF DeliverServer, Events
  <2>2. QED
    BY <1>17, <2>1 DEF DeliverServer, Events
<1>18. CASE CreateFleet
  <2>1. \A n \in Replicas : [NoFleet EXCEPT !.ex = TRUE, !.replicas = n] \in Fleets
    BY FleetAssumption DEF NoFleet, Fleets
  <2>2. QED
    BY <1>18, <2>1, WriteFleetType DEF CreateFleet
<1>19. CASE EditReplicas
  <2>1. \A n \in Replicas : [fleet EXCEPT !.replicas = n] \in Fleets
    BY FleetAssumption DEF Fleets
  <2>2. edits' \in 0..MaxEdits
    BY <1>19, FleetAssumption DEF EditReplicas
  <2>3. QED
    BY <1>19, <2>1, <2>2, WriteFleetType DEF EditReplicas
<1>20. CASE DeleteFleet
  <2>1. [fleet EXCEPT !.del = TRUE] \in Fleets
    BY DEF Fleets
  <2>2. QED
    BY <1>20, <2>1, WriteFleetType DEF DeleteFleet
<1>21. CASE UserDeletesServer
  <2>1. disturbances' \in 0..MaxDisturbances
    BY <1>21, FleetAssumption DEF UserDeletesServer, Disturb
  <2>2. QED
    BY <1>21, <2>1, RequestDeletionType DEF UserDeletesServer, Disturb, Live, Events
<1>22. CASE ServerFinalised
  BY <1>22, SetLifeType DEF ServerFinalised, Lives, Events
<1>23. CASE CollectGarbage
  BY <1>23, RequestDeletionType DEF CollectGarbage, Live, Events
<1>24. CASE \E s \in Ids : ServerGetsPod(s)
  BY <1>24 DEF ServerGetsPod
<1>25. CASE PodLost
  <2>1. disturbances' \in 0..MaxDisturbances
    BY <1>25, FleetAssumption DEF PodLost, Disturb
  <2>2. QED
    BY <1>25, <2>1 DEF PodLost, Disturb
<1>26. CASE UNCHANGED vars
  BY <1>26 DEF vars
<1>27. QED
  BY <1>1, <1>2, <1>3, <1>4, <1>5, <1>6, <1>7, <1>8, <1>9, <1>10, <1>11, <1>12,
     <1>13, <1>14, <1>15, <1>16, <1>17, <1>18, <1>19, <1>20, <1>21, <1>22, <1>23, <1>24,
     <1>25, <1>26
     DEF Next, Worker, Environment

-----------------------------------------------------------------------------
(* The versions of the fleet *)

Versions ==
    VersionsAreUnique /\ CachesMoveForward /\ Settled /\ OldCopiesAreProtected

LEMMA RvsAreNumbers ==
    TypeOK => fleet.rv \in Nat /\ \A v \in KnownFleets : v \in Fleets /\ v.rv \in Nat
  BY DEF TypeOK, KnownFleets, Fleets

\* A step that writes nothing, and at most starts from the cached fleet, counts
\* the servers in its copy or gives it up.
LEMMA ReadKeepsVersions ==
    ASSUME TypeOK, Versions, UNCHANGED <<fleet, fWatch, cFleet>>, fl' \in Fleets,
           \/ fl' \in {cFleet, NoFleet}
           \/ fl'.rv = fl.rv /\ fl'.ex = fl.ex /\ fl'.fin = fl.fin /\ fl'.del = fl.del
    PROVE  Versions'
<1> USE DEF TypeOK, Versions, KnownFleets, Fleets
<1>1. NoFleet.rv = 0 /\ ~NoFleet.ex /\ ~NoFleet.fin /\ ~NoFleet.del
  BY DEF NoFleet
<1>2. VersionsAreUnique'
  BY <1>1 DEF VersionsAreUnique
<1>3. CachesMoveForward'
  BY <1>1 DEF CachesMoveForward
<1>4. Settled'
  BY DEF Settled
<1>5. OldCopiesAreProtected'
  BY <1>1 DEF OldCopiesAreProtected
<1>6. QED
  BY <1>2, <1>3, <1>4, <1>5

\* The version that a write gives the fleet is none of the former ones.
LEMMA NextIsLarger == \A m, n \in Nat : m <= n => m <= n + 1 /\ m # n + 1
  OBVIOUS

\* A write that takes no finalizer away.
LEMMA WriteKeepsVersions ==
    ASSUME TypeOK, Versions, NEW new \in Fleets, WriteFleet(new), new.ex,
           fleet.ex /\ fleet.fin => new.fin, UNCHANGED cFleet, fl' \in {fl, NoFleet}
    PROVE  Versions'
<1>1. CASE new = fleet
  BY <1>1, ReadKeepsVersions, NoFleetType DEF WriteFleet, fleetVars, TypeOK
<1>2. CASE new # fleet
  <2> USE DEF TypeOK, Versions, KnownFleets, Fleets
  <2>1. NoFleet.rv = 0 /\ ~NoFleet.ex /\ ~NoFleet.fin /\ ~NoFleet.del
    BY DEF NoFleet
  <2>2. /\ fleet'.rv = fleet.rv + 1
        /\ fleet'.del => fleet'.ex /\ fleet'.fin
        /\ new.fin => fleet'.ex /\ fleet'.fin
    BY <1>2 DEF WriteFleet, SettleFleet, NoFleet
  <2>3. fWatch' = fWatch \cup {fleet'}
    BY <1>2 DEF WriteFleet
  <2>4. VersionsAreUnique'
    <3>1. \A v \in KnownFleets : v.rv \in Nat /\ v.rv <= fleet.rv
      BY DEF VersionsAreUnique
    <3>2. \A v \in KnownFleets' : v = fleet' \/ v = NoFleet \/ v \in KnownFleets
      BY <2>3
    <3>3. fleet.rv \in Nat /\ fleet'.rv # 0
      BY <2>2
    <3>4. ASSUME NEW v \in KnownFleets', v # fleet'
          PROVE  v.rv <= fleet'.rv /\ v.rv # fleet'.rv
      <4>1. v.rv \in Nat /\ v.rv <= fleet.rv
        <5>1. v = NoFleet \/ v \in KnownFleets
          BY <3>2, <3>4, Zenon
        <5>2. NoFleet.rv \in Nat /\ NoFleet.rv <= fleet.rv
          BY <2>1, <3>3
        <5>3. QED
          BY <3>1, <5>1, <5>2, Zenon
      <4>2. v.rv <= fleet.rv + 1 /\ v.rv # fleet.rv + 1
        BY <3>3, <4>1, NextIsLarger, Zenon
      <4>3. QED
        BY <2>2, <4>2, Zenon
    <3>5. fleet'.rv <= fleet'.rv
      BY <2>2, <3>3
    <3>6. QED
      BY <3>3, <3>4, <3>5 DEF VersionsAreUnique
  <2>5. CachesMoveForward'
    BY <2>1, <2>2, <2>3 DEF CachesMoveForward, VersionsAreUnique
  <2>6. Settled'
    BY <2>2 DEF Settled
  <2>7. OldCopiesAreProtected'
    BY <2>1, <2>2, <2>3 DEF OldCopiesAreProtected
  <2>8. QED
    BY <2>4, <2>5, <2>6, <2>7
<1>3. QED
  BY <1>1, <1>2

\* What a call may rely on at its position in Reconcile.
LEMMA WorkerStep ==
    ASSUME TypeOK, WorkerKnows, [Next]_vars, LoopEnds' PROVE WorkerKnows'
<1> USE DEF WorkerKnows, ScalingSteps, DeletionSteps, LoopEnds,
            fleetVars, serverVars, cacheVars, workerVars, budgetVars, Goto
<1>1. CASE pc' = "idle" /\ fl' = NoFleet
  BY <1>1
<1>2. CASE UNCHANGED <<pc, fl>>
  BY <1>2
<1>3. CASE Reconcile
  BY <1>1, <1>3 DEF Reconcile, Return, FirstStep
<1>4. CASE CountServers
  BY <1>4 DEF CountServers, TypeOK, Fleets
<1>5. CASE CreateServer
  BY <1>1, <1>5 DEF CreateServer, Return
<1>6. CASE PickServer
  BY <1>6 DEF PickServer
<1>7. CASE DeleteServer
  BY <1>1, <1>7 DEF DeleteServer, Return
<1>8. CASE Relist
  BY <1>8 DEF Relist, TypeOK, Fleets
<1>9. CASE ListForDeletion
  BY <1>9 DEF ListForDeletion
<1>10. CASE DeleteServers
  BY <1>1, <1>10 DEF DeleteServers, Return
<1>11. CASE RelistForDeletion
  BY <1>1, <1>11 DEF RelistForDeletion, Return
<1>12. QED
  BY <1>1, <1>2, <1>3, <1>4, <1>5, <1>6, <1>7, <1>8, <1>9, <1>10, <1>11
     DEF Next, Worker, Environment, vars, Return, AddFinalizer, PickFails, StatusUpdate,
         RemoveFinalizer, CallFails, Crash, DeliverFleet, DeliverServer, CreateFleet,
         EditReplicas, DeleteFleet, UserDeletesServer, ServerGetsPod, PodLost, ServerFinalised,
         CollectGarbage

LEMMA VersionsStep ==
    ASSUME TypeOK, Versions, WorkerKnows, [Next]_vars, TypeOK' PROVE Versions'
<1> USE DEF fleetVars, serverVars, cacheVars, workerVars, budgetVars
<1>1. fl' \in Fleets
  BY DEF TypeOK
<1>2. CASE UNCHANGED <<fleet, fWatch, cFleet>> /\ fl' \in {fl, cFleet, NoFleet}
  BY <1>1, <1>2, ReadKeepsVersions
<1>3. CASE CountServers \/ Relist
  BY <1>1, <1>3, ReadKeepsVersions DEF CountServers, Relist, TypeOK, Fleets
<1>4. CASE AddFinalizer
  <2>1. CASE FleetCurrent /\ WriteFleet([fl EXCEPT !.fin = TRUE])
    <3>1. [fl EXCEPT !.fin = TRUE] \in Fleets /\ [fl EXCEPT !.fin = TRUE].fin
          /\ [fl EXCEPT !.fin = TRUE].ex = fl.ex
      BY DEF TypeOK, Fleets
    <3>2. fl.ex /\ fl' = NoFleet /\ UNCHANGED cFleet
      BY <1>4 DEF AddFinalizer, WorkerKnows, Return
    <3>3. QED
      BY <2>1, <3>1, <3>2, WriteKeepsVersions
  <2>2. QED
    BY <1>2, <1>4, <2>1 DEF AddFinalizer, Return
<1>5. CASE StatusUpdate
  <2>1. CASE FleetCurrent /\ WriteFleet([fleet EXCEPT !.current = fl.current])
    <3> DEFINE new == [fleet EXCEPT !.current = fl.current]
    <3>1. new \in Fleets /\ new.fin = fleet.fin /\ new.ex = fleet.ex
      BY DEF TypeOK, Fleets
    <3>2. fleet.ex /\ fl' = NoFleet /\ UNCHANGED cFleet
      BY <1>5, <2>1 DEF StatusUpdate, FleetCurrent, Return
    <3>3. QED
      BY <2>1, <3>1, <3>2, WriteKeepsVersions
  <2>2. QED
    BY <1>2, <1>5, <2>1 DEF StatusUpdate, Return
<1>6. CASE RemoveFinalizer
  <2>1. CASE FleetCurrent /\ WriteFleet([fl EXCEPT !.fin = FALSE])
    \* The stored fleet is the one that was seen with its deletion mark, and no
    \* copy is older: none shows a fleet that is wanted.
    <3>1. fl.del /\ fl.ex /\ fl' = NoFleet /\ UNCHANGED cFleet
      BY <1>6 DEF RemoveFinalizer, WorkerKnows, DeletionSteps, Return
    <3>2. fleet.del /\ fleet.fin /\ fleet.rv \in Nat
      BY <2>1, <3>1 DEF FleetCurrent, Versions, VersionsAreUnique, KnownFleets, Settled, TypeOK, Fleets
    <3>3. fleet' = [NoFleet EXCEPT !.rv = fleet.rv + 1] /\ fWatch' = fWatch \cup {fleet'}
      BY <2>1, <3>1, <3>2 DEF WriteFleet, SettleFleet, TypeOK, Fleets
    <3>4. /\ fleet'.rv = fleet.rv + 1 /\ ~fleet'.ex /\ ~fleet'.fin /\ ~fleet'.del
          /\ NoFleet.rv = 0 /\ ~NoFleet.ex
      BY <3>3 DEF NoFleet
    <3>5. ASSUME NEW v \in fWatch \cup {cFleet}
          PROVE  v.del /\ v.rv \in Nat /\ v.rv = fleet.rv
      <4>1. v \in KnownFleets /\ cFleet \in KnownFleets /\ fl.rv = fleet.rv
        BY <2>1 DEF KnownFleets, FleetCurrent
      <4>2. v.rv \in Nat /\ cFleet.rv \in Nat /\ fleet.rv \in Nat
        BY <4>1, RvsAreNumbers
      <4>3. v.rv <= fleet.rv /\ fl.rv <= cFleet.rv /\ cFleet.rv <= v.rv
        BY <4>1, <4>2 DEF Versions, VersionsAreUnique, CachesMoveForward
      <4>4. v.rv = fleet.rv
        BY <4>1, <4>2, <4>3
      <4>5. QED
        BY <3>2, <4>1, <4>2, <4>4 DEF Versions, VersionsAreUnique
    <3>6. \A v \in KnownFleets' : v = fleet' \/ v = NoFleet \/ v \in fWatch \cup {cFleet}
      BY <3>1, <3>3 DEF KnownFleets
    <3>7. VersionsAreUnique'
      <4>1. ASSUME NEW v \in KnownFleets', v # fleet'
            PROVE  v.rv <= fleet'.rv /\ v.rv # fleet'.rv
        BY <3>2, <3>4, <3>5, <3>6, <4>1
      <4>2. fleet'.rv <= fleet'.rv /\ fleet'.rv # 0
        BY <3>2, <3>4
      <4>3. QED
        BY <4>1, <4>2 DEF VersionsAreUnique
    <3>8. CachesMoveForward'
      <4>1. cFleet.rv = fleet.rv /\ \A v \in fWatch : v.rv = fleet.rv
        BY <3>5
      <4>2. cFleet' = cFleet /\ fl'.rv = 0 /\ \A v \in fWatch' : v \in fWatch \/ v = fleet'
        BY <3>1, <3>3, <3>4
      <4>3. \A v \in fWatch' : v.rv = fleet.rv \/ v.rv = fleet.rv + 1
        BY <3>4, <4>1, <4>2
      <4>4. QED
        BY <3>2, <4>1, <4>2, <4>3 DEF CachesMoveForward
    <3>9. Settled' /\ OldCopiesAreProtected'
      BY <3>4, <3>5, <3>6 DEF Settled, OldCopiesAreProtected
    <3>10. QED
      BY <3>7, <3>8, <3>9 DEF Versions
  <2>2. QED
    BY <1>2, <1>6, <2>1 DEF RemoveFinalizer, Return
<1>7. CASE Crash
  <2>1. /\ fleet' = fleet /\ fWatch' = {} /\ cFleet' = fleet /\ fl' = NoFleet
        /\ fleet.rv \in Nat
    BY <1>7 DEF Crash, TypeOK, Fleets
  <2>2. NoFleet.rv = 0 /\ ~NoFleet.ex /\ ~NoFleet.fin /\ ~NoFleet.del
    BY DEF NoFleet
  <2>3. QED
    BY <2>1, <2>2 DEF Versions, VersionsAreUnique, CachesMoveForward, Settled,
                      OldCopiesAreProtected, KnownFleets
<1>8. CASE DeliverFleet
  <2>1. PICK v \in fWatch : cFleet' = v /\ fWatch' = {w \in fWatch : w.rv > v.rv}
    BY <1>8 DEF DeliverFleet
  <2>2. UNCHANGED <<fleet, fl>>
    BY <1>8 DEF DeliverFleet
  <2>3. KnownFleets' \subseteq KnownFleets
    BY <2>1, <2>2 DEF KnownFleets
  <2>4. CachesMoveForward'
    <3>1. v.rv \in Nat /\ cFleet.rv \in Nat /\ fl.rv \in Nat /\ \A w \in fWatch : w.rv \in Nat
      BY RvsAreNumbers DEF KnownFleets
    <3>2. fl.rv <= cFleet.rv /\ cFleet.rv <= v.rv
      BY DEF Versions, CachesMoveForward
    <3>3. \A w \in fWatch' : w \in fWatch /\ w.rv > v.rv
      BY <2>1
    <3>4. QED
      BY <2>1, <2>2, <3>1, <3>2, <3>3 DEF CachesMoveForward
  <2>5. QED
    BY <2>2, <2>3, <2>4 DEF Versions, VersionsAreUnique, Settled, OldCopiesAreProtected
<1>9. CASE CreateFleet
  <2>1. PICK n \in Replicas : WriteFleet([NoFleet EXCEPT !.ex = TRUE, !.replicas = n])
    BY <1>9 DEF CreateFleet
  <2> DEFINE new == [NoFleet EXCEPT !.ex = TRUE, !.replicas = n]
  <2>2. new \in Fleets /\ new.ex
    BY FleetAssumption DEF NoFleet, Fleets
  <2>3. ~fleet.ex
    BY <1>9 DEF CreateFleet, Versions, VersionsAreUnique, NoFleet
  <2>4. QED
    BY <1>9, <2>1, <2>2, <2>3, WriteKeepsVersions DEF CreateFleet
<1>10. CASE EditReplicas
  <2>1. PICK n \in Replicas : WriteFleet([fleet EXCEPT !.replicas = n])
    BY <1>10 DEF EditReplicas
  <2> DEFINE new == [fleet EXCEPT !.replicas = n]
  <2>2. new \in Fleets /\ new.ex = fleet.ex /\ new.fin = fleet.fin
    BY FleetAssumption DEF TypeOK, Fleets
  <2>3. QED
    BY <1>10, <2>1, <2>2, WriteKeepsVersions DEF EditReplicas
<1>11. CASE DeleteFleet
  <2> DEFINE new == [fleet EXCEPT !.del = TRUE]
  <2>1. new \in Fleets /\ new.ex = fleet.ex /\ new.fin = fleet.fin
    BY DEF TypeOK, Fleets
  <2>2. QED
    BY <1>11, <2>1, WriteKeepsVersions DEF DeleteFleet
<1>12. QED
  BY <1>2, <1>3, <1>4, <1>5, <1>6, <1>7, <1>8, <1>9, <1>10, <1>11
     DEF Next, Worker, Environment, vars, Return, Reconcile, CreateServer, PickServer,
         PickFails, DeleteServer, ListForDeletion, DeleteServers, RelistForDeletion,
         CallFails, DeliverServer, UserDeletesServer, ServerGetsPod, PodLost,
         ServerFinalised, CollectGarbage

\* What any step may do to the stored fleet: it comes once, loses its finalizer
\* only when it goes, and goes without one or by the last step of handleDeletion.
LEMMA FleetSteps ==
    ASSUME TypeOK, Versions, WorkerKnows, [Next]_vars
    PROVE  \/ fleet' = fleet
           \/ fleet.rv = 0 /\ fleet'.rv > 0 /\ fleet'.ex
           \/ /\ fleet.ex /\ fleet'.rv > 0
              /\ fleet'.ex /\ fleet.fin => fleet'.fin
              /\ ~fleet'.ex => ~fleet.fin \/ pc = "removeFinalizer"
<1> USE DEF fleetVars, serverVars, cacheVars, workerVars, budgetVars
<1>1. ASSUME NEW new \in Fleets, WriteFleet(new), new.ex
      PROVE  \/ fleet' = fleet
             \/ /\ fleet'.rv > 0
                /\ fleet'.ex => fleet'.fin = new.fin
                /\ ~fleet'.ex => new.del /\ ~new.fin
  <2> DEFINE stored == [new EXCEPT !.rv = fleet.rv + 1]
  <2>1. /\ fleet.rv + 1 > 0 /\ stored.rv = fleet.rv + 1
        /\ stored.ex /\ stored.fin = new.fin /\ stored.del = new.del
    BY <1>1 DEF TypeOK, Fleets
  <2>2. /\ [NoFleet EXCEPT !.rv = stored.rv].rv = stored.rv
        /\ ~[NoFleet EXCEPT !.rv = stored.rv].ex
    BY DEF NoFleet
  <2>3. fleet' = fleet \/ fleet' = SettleFleet(stored)
    BY <1>1 DEF WriteFleet
  <2> HIDE DEF stored
  <2>4. QED
    BY <2>1, <2>2, <2>3 DEF SettleFleet
<1>2. CASE AddFinalizer
  <2>1. /\ [fl EXCEPT !.fin = TRUE] \in Fleets /\ [fl EXCEPT !.fin = TRUE].fin
        /\ [fl EXCEPT !.fin = TRUE].ex = fl.ex
    BY DEF TypeOK, Fleets
  <2>2. QED
    BY <1>1, <1>2, <2>1 DEF AddFinalizer, WorkerKnows, FleetCurrent
<1>3. CASE StatusUpdate
  <2> DEFINE new == [fleet EXCEPT !.current = fl.current]
  <2>1. new \in Fleets /\ new.fin = fleet.fin /\ new.ex = fleet.ex /\ new.del = fleet.del
    BY DEF TypeOK, Fleets
  <2>2. QED
    BY <1>1, <1>3, <2>1 DEF StatusUpdate, FleetCurrent, Versions, Settled
<1>4. CASE RemoveFinalizer
  <2> DEFINE new == [fl EXCEPT !.fin = FALSE]
  <2>1. new \in Fleets /\ new.ex = fl.ex /\ new.del = fl.del /\ ~new.fin
    BY DEF TypeOK, Fleets
  <2>2. WriteFleet(new) /\ fleet' # fleet /\ new.del => ~fleet'.ex
    BY <2>1 DEF WriteFleet, SettleFleet, NoFleet, TypeOK, Fleets
  <2>3. QED
    BY <1>1, <1>4, <2>1, <2>2 DEF RemoveFinalizer, WorkerKnows, DeletionSteps, FleetCurrent
<1>5. CASE CreateFleet
  <2>1. PICK n \in Replicas : WriteFleet([NoFleet EXCEPT !.ex = TRUE, !.replicas = n])
    BY <1>5 DEF CreateFleet
  <2> DEFINE new == [NoFleet EXCEPT !.ex = TRUE, !.replicas = n]
  <2>2. new \in Fleets /\ new.ex /\ ~new.del
    BY FleetAssumption DEF NoFleet, Fleets
  <2>3. QED
    BY <1>1, <1>5, <2>1, <2>2 DEF CreateFleet
<1>6. CASE EditReplicas
  <2>1. PICK n \in Replicas : WriteFleet([fleet EXCEPT !.replicas = n])
    BY <1>6 DEF EditReplicas
  <2> DEFINE new == [fleet EXCEPT !.replicas = n]
  <2>2. new \in Fleets /\ new.ex = fleet.ex /\ new.fin = fleet.fin
    BY FleetAssumption DEF TypeOK, Fleets
  <2>3. QED
    BY <1>1, <1>6, <2>1, <2>2 DEF EditReplicas
<1>7. CASE DeleteFleet
  <2> DEFINE new == [fleet EXCEPT !.del = TRUE]
  <2>1. new \in Fleets /\ new.ex = fleet.ex /\ new.fin = fleet.fin
    BY DEF TypeOK, Fleets
  <2>2. QED
    BY <1>1, <1>7, <2>1 DEF DeleteFleet
<1>8. CASE fleet' = fleet
  BY <1>8
<1>9. QED
  BY <1>2, <1>3, <1>4, <1>5, <1>6, <1>7, <1>8
     DEF Next, Worker, Environment, vars, Reconcile, CountServers, CreateServer, PickServer,
         PickFails, DeleteServer, Relist, ListForDeletion, DeleteServers,
         RelistForDeletion, CallFails, Crash, DeliverFleet, DeliverServer,
         UserDeletesServer, ServerGetsPod, PodLost, ServerFinalised, CollectGarbage

-----------------------------------------------------------------------------
(* The servers *)

\* What any step may do to the servers and to what is known of them.
LEMMA ServerSteps ==
    ASSUME TypeOK, [Next]_vars
    PROVE  \/ UNCHANGED <<life, known, sEvents>>
           \/ /\ CreateServer /\ UNCHANGED known
              /\ \E s \in Ids : life[s] = "none" /\ SetLife(s, "live")
           \/ /\ UNCHANGED known
              /\ \E s \in Ids, l \in {"terminating", "gone"} : Exists(s) /\ SetLife(s, l)
           \/ DeliverServer
           \/ Crash
<1> USE DEF fleetVars, serverVars, cacheVars, workerVars, budgetVars
<1>1. ASSUME NEW s \in Ids, RequestDeletion(s)
      PROVE  \/ UNCHANGED <<life, sEvents>>
             \/ \E l \in {"terminating", "gone"} : Exists(s) /\ SetLife(s, l)
  BY <1>1 DEF RequestDeletion, Exists
<1>2. CASE CreateServer
  BY <1>2 DEF CreateServer, StoreNewServer, Unborn
<1>3. CASE DeleteServer \/ DeleteServers
  BY <1>1, <1>3 DEF DeleteServer, DeleteServers, TypeOK
<1>4. CASE UserDeletesServer \/ CollectGarbage
  BY <1>1, <1>4 DEF UserDeletesServer, CollectGarbage, Live
<1>5. CASE ServerFinalised
  BY <1>5 DEF ServerFinalised, Exists, TypeOK
<1>6. QED
  BY <1>2, <1>3, <1>4, <1>5
     DEF Next, Worker, Environment, vars, Reconcile, AddFinalizer, CountServers, PickServer,
         PickFails, Relist, StatusUpdate, ListForDeletion, RelistForDeletion,
         RemoveFinalizer, CallFails, DeliverFleet, CreateFleet, EditReplicas, DeleteFleet,
         ServerGetsPod, PodLost

LEMMA GoneStep == ASSUME TypeOK, GoneIsFinal, [Next]_vars, TypeOK' PROVE GoneIsFinal'
<1> USE DEF GoneIsFinal
<1>1. ASSUME NEW s \in Ids, NEW l \in Lives, SetLife(s, l), life[s] # "gone", UNCHANGED known
      PROVE  GoneIsFinal'
  <2>1. life' = [life EXCEPT ![s] = l] /\ life \in [Ids -> Lives]
    BY <1>1 DEF SetLife, TypeOK
  <2>2. [server |-> s, life |-> l] \in Events /\ sEvents \in Seq(Events)
    BY DEF Events, TypeOK
  <2>3. /\ Len(sEvents') = Len(sEvents) + 1 /\ Len(sEvents) \in Nat
        /\ \A i \in 1..Len(sEvents) : sEvents'[i] = sEvents[i] /\ sEvents[i] \in Events
        /\ sEvents'[Len(sEvents) + 1] = [server |-> s, life |-> l]
    BY <1>1, <2>2, AppendProperties, LenProperties DEF SetLife
  <2>4. \A t \in Ids : life[t] = "gone" => life'[t] = "gone"
    BY <1>1, <2>1
  <2>5. ASSUME NEW i \in 1..Len(sEvents'), sEvents'[i].life = "gone"
        PROVE  life'[sEvents'[i].server] = "gone"
    <3>1. CASE i \in 1..Len(sEvents)
      BY <2>3, <2>4, <2>5, <3>1 DEF Events
    <3>2. CASE i = Len(sEvents) + 1
      BY <2>1, <2>3, <2>5, <3>2
    <3>3. QED
      BY <2>3, <3>1, <3>2
  <2>6. QED
    BY <1>1, <2>4, <2>5
<1>2. CASE DeliverServer
  <2>1. /\ sEvents # <<>> /\ UNCHANGED life
        /\ known' = [known EXCEPT ![Head(sEvents).server] = Head(sEvents).life]
        /\ sEvents' = Tail(sEvents)
    BY <1>2 DEF DeliverServer
  <2>2. sEvents \in Seq(Events)
    BY DEF TypeOK, Events
  <2>3. /\ Head(sEvents) = sEvents[1] /\ 1 \in 1..Len(sEvents)
        /\ Len(sEvents') = Len(sEvents) - 1 /\ Len(sEvents) \in Nat
        /\ \A i \in 1..Len(sEvents') : sEvents'[i] = sEvents[i + 1]
    BY <2>1, <2>2, HeadTailProperties, LenProperties, EmptySeq
  <2>4. \A t \in Ids : known'[t] = "gone" => life'[t] = "gone"
    BY <2>1, <2>3 DEF TypeOK
  <2>5. \A i \in 1..Len(sEvents') : sEvents'[i].life = "gone" => life'[sEvents'[i].server] = "gone"
    BY <2>1, <2>3
  <2>6. QED
    BY <2>4, <2>5
<1>3. CASE Crash
  BY <1>3, EmptySeq DEF Crash
<1>4. CASE UNCHANGED <<life, known, sEvents>>
  BY <1>4
<1>5. QED
  BY <1>1, <1>2, <1>3, <1>4, ServerSteps DEF Lives, Exists

\* A server is created only while the fleet exists and is held: the copy that
\* the loop works from may be old, but the fleet cannot have gone since.
LEMMA CreatedForHeldFleet ==
    ASSUME TypeOK, Versions, WorkerKnows, pc = "createServer"
    PROVE  fleet.ex /\ fleet.fin /\ fleet.rv > 0
<1>1. fl.ex /\ fl.fin /\ ~fl.del /\ fl \in KnownFleets
  BY DEF WorkerKnows, ScalingSteps, KnownFleets
<1>2. fleet.ex /\ fleet.fin
  BY <1>1 DEF Versions, OldCopiesAreProtected
<1>3. fleet.rv # 0 /\ fleet.rv \in Nat
  BY <1>2, RvsAreNumbers DEF Versions, VersionsAreUnique, NoFleet
<1>4. QED
  BY <1>2, <1>3

\* Only CreateServer makes a server exist.
LEMMA NoServerComesBack ==
    ASSUME TypeOK, [Next]_vars, ~(CreateServer /\ life' # life)
    PROVE  \A s \in Ids : /\ Exists(s)' => Exists(s)
                          /\ life'[s] # "none" => life[s] # "none"
<1>1. CASE life' = life
  BY <1>1 DEF Exists
<1>2. ASSUME NEW s \in Ids, NEW l \in {"terminating", "gone"}, Exists(s), SetLife(s, l)
      PROVE  \A t \in Ids : (Exists(t)' => Exists(t)) /\ (life'[t] # "none" => life[t] # "none")
  BY <1>2 DEF SetLife, Exists, TypeOK
<1>3. QED
  BY <1>1, <1>2, ServerSteps DEF DeliverServer, Crash

LEMMA ServersStep ==
    ASSUME TypeOK, Versions, WorkerKnows, ServersComeAfterFinalizer, [Next]_vars
    PROVE  ServersComeAfterFinalizer'
<1>1. CASE CreateServer
  <2>1. fleet.ex /\ fleet.fin /\ fleet.rv > 0
    BY <1>1, CreatedForHeldFleet DEF CreateServer
  <2>2. fleet' = fleet
    BY <1>1 DEF CreateServer, fleetVars
  <2>3. QED
    BY <2>1, <2>2 DEF ServersComeAfterFinalizer
<1>2. CASE ~CreateServer
  <2>1. SUFFICES ASSUME NEW s \in Ids, life'[s] # "none"
                 PROVE  fleet'.rv > 0 /\ (fleet'.ex => fleet'.fin)
    BY DEF ServersComeAfterFinalizer
  <2>2. life[s] # "none"
    BY <1>2, <2>1, NoServerComesBack
  <2>3. fleet.rv > 0 /\ (fleet.ex => fleet.fin) /\ fleet.rv \in Nat
    BY <2>2, RvsAreNumbers DEF ServersComeAfterFinalizer
  <2>4. QED
    BY <2>3, FleetSteps
<1>3. QED
  BY <1>1, <1>2

LEMMA LeftBehindStep ==
    ASSUME TypeOK, Versions, WorkerKnows, ServersComeAfterFinalizer, GoneIsFinal,
           OnlyUnseenLeftBehind, [Next]_vars
    PROVE  OnlyUnseenLeftBehind'
<1>1. SUFFICES ASSUME pc' = "removeFinalizer" \/ (fleet'.rv > 0 /\ ~fleet'.ex),
                      NEW s \in Ids, Exists(s)'
               PROVE  s \in unseen'
  BY DEF OnlyUnseenLeftBehind
<1>2. ~CreateServer
  <2>1. SUFFICES ASSUME CreateServer PROVE FALSE
    OBVIOUS
  <2>2. fleet' = fleet /\ fleet.ex
    BY <2>1, CreatedForHeldFleet DEF CreateServer, fleetVars
  <2>3. pc' # "removeFinalizer"
    BY <2>1 DEF CreateServer, Goto, Return
  <2>4. QED
    BY <1>1, <2>2, <2>3
<1>3. Exists(s)
  BY <1>1, <1>2, NoServerComesBack
<1>4. CASE RelistForDeletion /\ AllGone
  <2>1. unseen' = {t \in Ids : known[t] = "none"}
    BY <1>4 DEF RelistForDeletion
  <2>2. known[s] \in Lives /\ known[s] \notin {"live", "terminating"}
    BY <1>4 DEF AllGone, getServers, TypeOK
  <2>3. known[s] # "gone"
    BY <1>3 DEF GoneIsFinal, Exists
  <2>4. QED
    BY <2>1, <2>2, <2>3 DEF Lives
<1>5. CASE ~(RelistForDeletion /\ AllGone)
  <2>1. unseen' = unseen /\ (pc' = "removeFinalizer" => pc = "removeFinalizer")
    BY <1>5 DEF Next, Worker, Environment, vars, workerVars, Return, Goto, FirstStep,
         Reconcile, AddFinalizer, CountServers, CreateServer, PickServer, PickFails,
         DeleteServer, Relist, StatusUpdate, ListForDeletion, DeleteServers,
         RelistForDeletion, RemoveFinalizer, CallFails, Crash, DeliverFleet, DeliverServer,
         CreateFleet, EditReplicas, DeleteFleet, UserDeletesServer, ServerGetsPod, PodLost,
         ServerFinalised, CollectGarbage
  <2>2. CASE pc = "removeFinalizer"
    BY <1>3, <2>1, <2>2 DEF OnlyUnseenLeftBehind
  <2>3. CASE fleet.rv > 0 /\ ~fleet.ex
    BY <1>3, <2>1, <2>3 DEF OnlyUnseenLeftBehind
  <2>4. life[s] # "none"
    BY <1>3 DEF Exists
  <2>5. QED
    BY <1>1, <2>1, <2>2, <2>3, <2>4, FleetSteps DEF ServersComeAfterFinalizer
<1>6. QED
  BY <1>4, <1>5

-----------------------------------------------------------------------------
(* The invariant and what follows from it *)

LEMMA FleetInvInit == Init => FleetInv
<1> SUFFICES ASSUME Init PROVE FleetInv
  OBVIOUS
<1> USE DEF Init
<1>1. TypeOK
  <2>1. sEvents \in Seq([server : Ids, life : Lives])
    BY EmptySeq
  <2>2. edits \in 0..MaxEdits /\ disturbances \in 0..MaxDisturbances
    BY FleetAssumption
  <2>3. QED
    BY <2>1, <2>2, NoFleetType DEF TypeOK, Lives, Steps
<1>2. VersionsAreUnique /\ CachesMoveForward /\ Settled /\ OldCopiesAreProtected
  BY DEF VersionsAreUnique, CachesMoveForward, Settled, OldCopiesAreProtected, KnownFleets, NoFleet
<1>3. WorkerKnows
  BY DEF WorkerKnows, ScalingSteps, DeletionSteps
<1>4. ServersComeAfterFinalizer
  BY DEF ServersComeAfterFinalizer
<1>5. GoneIsFinal
  BY EmptySeq DEF GoneIsFinal
<1>6. OnlyUnseenLeftBehind
  BY DEF OnlyUnseenLeftBehind, NoFleet
<1>7. QED
  BY <1>1, <1>2, <1>3, <1>4, <1>5, <1>6 DEF FleetInv

LEMMA FleetInvStep == FleetInv /\ [Next]_vars => FleetInv'
<1> SUFFICES ASSUME FleetInv, [Next]_vars PROVE FleetInv'
  OBVIOUS
<1>1. /\ TypeOK /\ Versions /\ WorkerKnows /\ LoopEnds
      /\ ServersComeAfterFinalizer /\ GoneIsFinal /\ OnlyUnseenLeftBehind
  BY DEF FleetInv, Versions, WorkerKnows, LoopEnds
<1>2. TypeOK' /\ LoopEnds'
  BY <1>1, TypeStep
<1>3. WorkerKnows'
  BY <1>1, <1>2, WorkerStep
<1>4. Versions'
  BY <1>1, <1>2, VersionsStep
<1>5. ServersComeAfterFinalizer' /\ GoneIsFinal' /\ OnlyUnseenLeftBehind'
  BY <1>1, <1>2, ServersStep, GoneStep, LeftBehindStep
<1>6. QED
  BY <1>2, <1>3, <1>4, <1>5 DEF FleetInv, Versions

LEMMA FleetInvCorrect == Spec => []FleetInv
  BY FleetInvInit, FleetInvStep, PTL DEF Spec

\* Every variable of FleetController keeps its type; the loop of
\* scaleServerCount never counts below zero.
THEOREM TypeCorrect == Spec => []TypeOK
<1>1. FleetInv => TypeOK
  BY DEF FleetInv
<1>2. QED
  BY <1>1, FleetInvCorrect, PTL

\* However many servers, edits, faults and crashes there are, and however old
\* what handleDeletion reads is: when the fleet goes, the servers left behind
\* are ones the cache had not shown at the last list.
THEOREM OnlyUnseenLeftBehindCorrect == Spec => []OnlyUnseenLeftBehind
<1>1. FleetInv => OnlyUnseenLeftBehind
  BY DEF FleetInv
<1>2. QED
  BY <1>1, FleetInvCorrect, PTL

\* No server is ever created for a fleet that is gone or was not yet given
\* FLEET_FINALIZER.
THEOREM NewServersAreOwnedCorrect == Spec => NewServersAreOwned
<1>1. FleetInv /\ [Next]_vars => [Unborn' # Unborn => fleet.ex /\ fleet.fin]_vars
  <2> SUFFICES ASSUME FleetInv, [Next]_vars, Unborn' # Unborn
               PROVE  fleet.ex /\ fleet.fin
    OBVIOUS
  <2>1. TypeOK /\ Versions /\ WorkerKnows
    BY DEF FleetInv, Versions
  <2>2. CreateServer
    <3>1. SUFFICES ASSUME ~CreateServer PROVE Unborn' = Unborn
      OBVIOUS
    <3>2. \A s \in Ids : life'[s] # "none" => life[s] # "none"
      BY <2>1, <3>1, NoServerComesBack
    <3>3. \A s \in Ids : life[s] # "none" => life'[s] # "none"
      BY <2>1, <3>1, ServerSteps DEF SetLife, Exists, DeliverServer, Crash, TypeOK
    <3>4. QED
      BY <3>2, <3>3 DEF Unborn
  <2>3. QED
    BY <2>1, <2>2, CreatedForHeldFleet DEF CreateServer
<1>2. QED
  BY <1>1, FleetInvCorrect, PTL DEF Spec, NewServersAreOwned

=============================================================================
