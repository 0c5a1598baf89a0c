---------------------- MODULE GameTypeControllerProofs ----------------------
(***************************************************************************)
(* Proofs about GameTypeController, for every value of the bounds.         *)
(***************************************************************************)
EXTENDS GameTypeController, FiniteSetTheorems, SequenceTheorems, TLAPS

-----------------------------------------------------------------------------
(* The inductive invariant: what the controller may rely on although what  *)
(* it reads may be old                                                     *)

\* The versions of the game type that the controller knows, in its local or
\* its cache, or will still be told of.
KnownGametypes == gWatch \cup {cGametype, g}

\* The two agree in everything but the spec and the status.
SameVersion(v, w) == v.rv = w.rv /\ v.ex = w.ex /\ v.fin = w.fin /\ v.del = w.del

\* A resource version names one state of the game type, of which Reconcile
\* changes only the status before it writes, and no copy is ahead.
VersionsAreUnique ==
    /\ gametype.rv = 0 => gametype = NoGameType
    /\ \A v \in KnownGametypes :
          v.rv <= gametype.rv /\ (v.rv = gametype.rv => SameVersion(v, gametype))

\* The cache is not newer than what the watch has yet to deliver.  (Reconcile
\* itself may be: UpdateStatus hands it the version it has written.)
CachesMoveForward == \A v \in gWatch : cGametype.rv <= v.rv

\* An object without finalizers does not survive its deletion.
DeletedIsHeld == gametype.del => gametype.ex /\ gametype.fin

\* A copy of the game type that shows it protected and wanted may be old, but
\* the stored one is still protected: only this controller takes the finalizer
\* away, and only after it has seen the deletion.
OldCopiesAreProtected ==
    \A v \in KnownGametypes : v.ex /\ v.fin /\ ~v.del => gametype.ex /\ gametype.fin

UpdatingSteps ==
    {"handleGametypeStatus", "updateFleetStatus", "getFleet", "updateStatus",
     "handleUpdating", "createFleet", "updateCurrent", "updateFleet",
     "updateReplicas", "deleteOldest"}

DeletionSteps ==
    {"listForDeletion", "deleteFleets", "relistForDeletion", "removeFinalizer"}

\* The steps that use the fleet that Reconcile has copied from the cache.
CopySteps == {"updateFleetStatus", "updateCurrent", "updateFleet"}

\* The copy is one of a fleet that the cache listed.
CopyIsListed == pc \in CopySteps => f.id \in Ids /\ Exists(f.fleet)

\* What the position in Reconcile says about the game type it started from.
WorkerKnows ==
    /\ pc = "idle" => g = NoGameType
    /\ pc = "addFinalizer" => g.ex /\ ~g.del
    /\ pc \in UpdatingSteps => g.ex /\ g.fin /\ ~g.del
    /\ pc \in DeletionSteps => g.ex /\ g.del /\ g.rv <= cGametype.rv

Born(i) == fleets[i].life # "none"

\* There are fleets only once the game type was seen with its finalizer.
FleetsComeAfterFinalizer ==
    (\E i \in Ids : Born(i)) => gametype.rv > 0 /\ (gametype.ex => gametype.fin)

\* A fleet that the cache shows, or an event will show, to be gone is gone.
GoneIsFinal ==
    /\ \A i \in Ids : known[i].life = "gone" => fleets[i].life = "gone"
    /\ \A n \in 1..Len(fEvents) :
          fEvents[n].fleet.life = "gone" => fleets[fEvents[n].id].life = "gone"

Versions ==
    VersionsAreUnique /\ CachesMoveForward /\ DeletedIsHeld /\ OldCopiesAreProtected

GametypeInv ==
    /\ TypeOK
    /\ CopyIsListed
    /\ Versions
    /\ WorkerKnows
    /\ FleetsComeAfterFinalizer
    /\ GoneIsFinal
    /\ OnlyUnseenLeftBehind

(* What UpgradeKeepsAFleet needs beyond that                               *)

\* What is known of the fleets, or will be: the cache, the events that are still
\* to come, and the copy that Reconcile works on.
Copies == {Copy(i) : i \in Ids} \cup {fEvents[n] : n \in 1..Len(fEvents)} \cup {f}

\* A resource version names one state of a fleet, and no copy is ahead.
Fits(v, stored) ==
    Exists(stored) /\ Exists(v) => v.rv <= stored.rv /\ (v.rv = stored.rv => v = stored)

FleetVersionsAreUnique == \A c \in Copies : c.id \in Ids => Fits(c.fleet, fleets[c.id])

\* What the controller knows of has been created.
KnownAreBorn == \A c \in Copies : c.id \in Ids /\ c.fleet.life # "none" => Born(c.id)

\* Fleets are numbered as they come, and none is older than those before.
BornInOrder ==
    \A i, j \in Ids : i < j /\ Born(j) => Born(i) /\ ts[i] <= ts[j]

\* One of them is the last.
OneIsTheLast ==
    (\E i \in Ids : Born(i)) => \E j \in Ids : Born(j) /\ \A i \in Ids : Born(i) => i <= j

\* A game type that was told to go, or has gone.
Doomed(v) == v.del \/ (v.rv > 0 /\ ~v.ex)

\* The cache cannot show a game type wanted that it has shown doomed.
DoomIsFinal ==
    /\ Doomed(cGametype) => Doomed(gametype) /\ \A v \in gWatch : Doomed(v)
    /\ \A v, w \in gWatch : Doomed(v) /\ v.rv <= w.rv => Doomed(w)
    /\ \A v \in gWatch : Doomed(v) => Doomed(gametype)

\* The controller deletes all fleets, and a game type that has fleets goes,
\* only after the cache has shown its deletion.
DeletionWasSeen ==
    \/ pc \in DeletionSteps
    \/ gametype.rv > 0 /\ ~gametype.ex /\ \E i \in Ids : Born(i)
    => Doomed(cGametype)

\* What handleUpdating is about to delete is not younger than all others.
DeletesAnOlderOne ==
    pc = "deleteOldest" =>
        \A i \in todo : \E j \in Ids : j # i /\ Born(j) /\ ts[i] <= ts[j]

\* A fleet that is younger than all others that ever were.
SoleYoungest(j) == Born(j) /\ \A i \in Ids : Born(i) /\ i # j => ts[i] < ts[j]

\* While the controller does not know of the game type's deletion, a fleet that
\* is younger than all others is live, unless users delete fleets.
YoungestIsLive ==
    userDeletes = 0 /\ (pc \in UpdatingSteps \/ ~Doomed(cGametype))
        => \A j \in Ids : SoleYoungest(j) => fleets[j].life = "live"

UpgradeInv ==
    /\ GametypeInv
    /\ FleetVersionsAreUnique
    /\ KnownAreBorn
    /\ BornInOrder
    /\ OneIsTheLast
    /\ DoomIsFinal
    /\ DeletionWasSeen
    /\ DeletesAnOlderOne
    /\ YoungestIsLive

-----------------------------------------------------------------------------
(* Types *)

Events == [id : Ids, fleet : Fleets]

LEMMA AnyType == AnyTemplate \in Templates /\ AnyReplicas \in Replicas
  BY GameTypeAssumption DEF AnyTemplate, AnyReplicas

LEMMA NoObjectsType ==
    /\ NoGameType \in GameTypes /\ NoFleet \in Fleets
    /\ NoCopy \in [id : 0..MaxFleets, fleet : Fleets]
<1>1. 0 \in 0..MaxFleets
  BY GameTypeAssumption
<1>2. QED
  BY <1>1, AnyType DEF NoGameType, GameTypes, NoFleet, Fleets, NoCopy

\* A write stores an object of the right type, whatever the write is.
LEMMA WriteGametypeType ==
    ASSUME TypeOK, NEW new \in GameTypes, WriteGametype(new)
    PROVE  gametype' \in GameTypes /\ gWatch' \subseteq GameTypes
<1>1. CASE new = gametype
  BY <1>1 DEF WriteGametype, gametypeVars, TypeOK
<1>2. CASE new # gametype
  <2> DEFINE stored == [new EXCEPT !.rv = gametype.rv + 1]
  <2>1. stored \in GameTypes
    <3>1. gametype.rv + 1 \in Nat
      BY DEF TypeOK, GameTypes
    <3>2. \A n \in Nat : [new EXCEPT !.rv = n] \in GameTypes
      BY DEF GameTypes
    <3>3. QED
      BY <3>1, <3>2
  <2>2. \A n \in Nat : [NoGameType EXCEPT !.rv = n] \in GameTypes
    BY NoObjectsType DEF GameTypes
  <2>3. \A t \in GameTypes : SettleGametype(t) \in GameTypes
    BY <2>2 DEF SettleGametype, GameTypes
  <2>4. gametype' = SettleGametype(stored) /\ gWatch' = gWatch \cup {gametype'}
    BY <1>2 DEF WriteGametype
  <2>5. QED
    BY <2>1, <2>3, <2>4 DEF TypeOK
<1>3. QED
  BY <1>1, <1>2

LEMMA StoreFleetType ==
    ASSUME TypeOK, NEW i \in Ids, NEW new \in Fleets, StoreFleet(i, new)
    PROVE  fleets' \in [Ids -> Fleets] /\ fEvents' \in Seq(Events)
<1>1. [new EXCEPT !.rv = fleets[i].rv + 1] \in Fleets
  <2>1. fleets[i].rv + 1 \in Nat
    BY DEF TypeOK, Fleets
  <2>2. \A n \in Nat : [new EXCEPT !.rv = n] \in Fleets
    BY DEF Fleets
  <2>3. QED
    BY <2>1, <2>2
<1>2. [NoFleet EXCEPT !.life = "gone"] \in Fleets
  BY NoObjectsType DEF Fleets
<1>3. SettleFleet([new EXCEPT !.rv = fleets[i].rv + 1]) \in Fleets
  BY <1>1, <1>2 DEF SettleFleet
<1>4. fleets' \in [Ids -> Fleets]
  BY <1>3 DEF StoreFleet, TypeOK
<1>5. [id |-> i, fleet |-> fleets'[i]] \in Events
  BY <1>4 DEF Events
<1>6. QED
  BY <1>4, <1>5, AppendProperties DEF StoreFleet, TypeOK, Events

LEMMA WriteFleetType ==
    ASSUME TypeOK, NEW i \in Ids, NEW new \in Fleets, WriteFleet(i, new)
    PROVE  fleets' \in [Ids -> Fleets] /\ fEvents' \in Seq(Events)
  BY StoreFleetType DEF WriteFleet, TypeOK, Events

LEMMA RequestDeletionType ==
    ASSUME TypeOK, NEW i \in Ids, RequestDeletion(i)
    PROVE  fleets' \in [Ids -> Fleets] /\ fEvents' \in Seq(Events)
<1>1. \A l \in {"terminating", "gone"} : [fleets[i] EXCEPT !.life = l] \in Fleets
  BY DEF TypeOK, Fleets
<1>2. QED
  BY <1>1, WriteFleetType DEF RequestDeletion, TypeOK, Events

LEMMA StoreNewFleetType ==
    ASSUME TypeOK, StoreNewFleet
    PROVE  /\ fleets' \in [Ids -> Fleets] /\ fEvents' \in Seq(Events)
           /\ ts' \in [Ids -> Nat]
<1> DEFINE new == [NoFleet EXCEPT !.life = "live", !.template = g.template,
                                  !.replicas = g.replicas]
<1>1. PICK i \in Unborn : /\ WriteFleet(i, new)
                          /\ \E t \in NextTimes(i) : ts' = [ts EXCEPT ![i] = t]
  BY DEF StoreNewFleet
<1>2. i \in Ids /\ new \in Fleets
  BY NoObjectsType DEF Unborn, TypeOK, GameTypes, Fleets
<1>3. NextTimes(i) \subseteq Nat
  <2>1. i # 1 => i - 1 \in Ids
    BY <1>2, GameTypeAssumption DEF Ids
  <2>2. QED
    BY <2>1 DEF NextTimes, TypeOK
<1>4. QED
  BY <1>1, <1>2, <1>3, WriteFleetType DEF TypeOK

LEMMA DisturbType ==
    ASSUME TypeOK, Disturb
    PROVE  /\ edits' \in 0..MaxEdits /\ userDeletes' \in 0..MaxDisturbances
           /\ disturbances' \in 0..MaxDisturbances
  BY GameTypeAssumption DEF TypeOK, Disturb

LEMMA ReturnType ==
    ASSUME TypeOK, NEW again \in BOOLEAN, Return(again)
    PROVE  /\ pc' \in Steps /\ g' \in GameTypes /\ todo' \subseteq Ids
           /\ f' \in [id : 0..MaxFleets, fleet : Fleets]
           /\ queued' \in BOOLEAN
  BY NoObjectsType DEF Return, TypeOK, Steps

\* Status().Update takes the status of the local copy and the rest as stored.
LEMMA NewStatusType ==
    TypeOK => LET new == [gametype EXCEPT !.current = g.current,
                                          !.currentReplicas = g.currentReplicas]
              IN  /\ new \in GameTypes /\ new.ex = gametype.ex
                  /\ new.fin = gametype.fin /\ new.del = gametype.del
  BY DEF TypeOK, GameTypes

LEMMA WriteStatusType ==
    ASSUME TypeOK, WriteStatus
    PROVE  gametype' \in GameTypes /\ gWatch' \subseteq GameTypes
  BY NewStatusType, WriteGametypeType DEF WriteStatus

\* What the cache lists can be copied.
LEMMA CopyType ==
    ASSUME TypeOK, NEW i \in GetFleetsForType
    PROVE  /\ i \in Ids /\ i \in 0..MaxFleets
           /\ Copy(i) \in [id : 0..MaxFleets, fleet : Fleets]
           /\ Copy(i).id = i /\ Copy(i).fleet = known[i] /\ Exists(known[i])
<1>1. i \in Ids /\ Exists(known[i]) /\ known[i] \in Fleets
  BY DEF GetFleetsForType, TypeOK
<1>2. i \in 0..MaxFleets
  BY <1>1, GameTypeAssumption DEF Ids
<1>3. QED
  BY <1>1, <1>2 DEF Copy

\* UpdateFleet writes the fleet that was copied, which has a number only
\* because the cache listed it, so the two are proved together.
LEMMA TypeStep == TypeOK /\ CopyIsListed /\ [Next]_vars => TypeOK' /\ CopyIsListed'
<1> SUFFICES ASSUME TypeOK, CopyIsListed, [Next]_vars PROVE TypeOK' /\ CopyIsListed'
  OBVIOUS
<1> USE DEF TypeOK, CopyIsListed, CopySteps,
            gametypeVars, fleetVars, cacheVars, workerVars, budgetVars
<1>1. CASE Reconcile
  BY <1>1, ReturnType DEF Reconcile, Return, Goto, Steps
<1>2. CASE AddFinalizer
  <2>1. [g EXCEPT !.fin = TRUE] \in GameTypes
    BY DEF GameTypes
  <2>2. QED
    BY <1>2, <2>1, WriteGametypeType, ReturnType DEF AddFinalizer, Return
<1>3. CASE HandleGametypeStatus
  <2>0. edits' \in 0..MaxEdits /\ userDeletes' \in 0..MaxDisturbances
        /\ disturbances' \in 0..MaxDisturbances
    BY <1>3, DisturbType DEF HandleGametypeStatus
  <2>1. CASE UNCHANGED <<g, f>>
            /\ Goto(IF g.current = 0 THEN "handleUpdating" ELSE "getFleet")
    BY <1>3, <2>0, <2>1 DEF HandleGametypeStatus, Goto, Steps
  <2>2. CASE \E i \in Youngest(GetFleetsForType) :
                g' = [g EXCEPT !.current = i] /\ f' = Copy(i) /\ Goto("updateFleetStatus")
    <3>1. PICK i \in GetFleetsForType :
             g' = [g EXCEPT !.current = i] /\ f' = Copy(i) /\ Goto("updateFleetStatus")
      BY <2>2 DEF Youngest
    <3>2. g' \in GameTypes
      BY <3>1, CopyType DEF GameTypes
    <3>3. QED
      BY <1>3, <2>0, <3>1, <3>2, CopyType DEF HandleGametypeStatus, Goto, Steps
  <2>3. QED
    BY <1>3, <2>1, <2>2 DEF HandleGametypeStatus
<1>4. CASE UpdateFleetStatus
  BY <1>4, ReturnType, NoObjectsType DEF UpdateFleetStatus, Return, Goto, Steps
<1>5. CASE GetFleet
  <2>1. CASE /\ g.current \in GetFleetsForType
             /\ g' = [g EXCEPT !.currentReplicas = known[g.current].replicas]
             /\ Goto("updateStatus") /\ UNCHANGED <<queued, f, todo>>
    <3>1. known[g.current].replicas \in Int
      BY <2>1, CopyType, GameTypeAssumption DEF Fleets
    <3>2. g' \in GameTypes
      BY <2>1, <3>1 DEF GameTypes
    <3>3. QED
      BY <1>5, <2>1, <3>2 DEF GetFleet, Goto, Steps
  <2>2. CASE Return(TRUE)
    BY <1>5, <2>2, ReturnType DEF GetFleet, Return
  <2>3. QED
    BY <1>5, <2>1, <2>2 DEF GetFleet
<1>6. CASE UpdateStatus
  BY <1>6, WriteStatusType, ReturnType DEF UpdateStatus, Return, Goto, Steps
<1>7. CASE HandleUpdating
  <2>1. CASE \E i \in GetFleetsForType : /\ f' = Copy(i) /\ g' = [g EXCEPT !.current = i]
                                         /\ Goto("updateCurrent") /\ UNCHANGED <<queued, todo>>
    <3>1. PICK i \in GetFleetsForType : /\ f' = Copy(i) /\ g' = [g EXCEPT !.current = i]
                                        /\ Goto("updateCurrent") /\ UNCHANGED <<queued, todo>>
      BY <2>1
    <3>2. g' \in GameTypes
      BY <3>1, CopyType DEF GameTypes
    <3>3. QED
      BY <1>7, <3>1, <3>2, CopyType DEF HandleUpdating, Goto, Steps
  <2>2. CASE \E i \in Oldest(GetFleetsForType) :
                \/ todo' = {i} /\ Goto("deleteOldest") /\ UNCHANGED <<queued, g, f>>
                \/ Return(TRUE)
    <3>1. Oldest(GetFleetsForType) \subseteq Ids
      BY DEF Oldest, GetFleetsForType
    <3>2. QED
      BY <1>7, <2>2, <3>1, ReturnType DEF HandleUpdating, Return, Goto, Steps
  <2>3. CASE Goto("createFleet") /\ UNCHANGED <<queued, g, f, todo>>
    BY <1>7, <2>3 DEF HandleUpdating, Goto, Steps
  <2>4. QED
    BY <1>7, <2>1, <2>2, <2>3 DEF HandleUpdating
<1>8. CASE UpdateCurrent
  <2>1. CASE /\ WriteStatus /\ Goto("updateFleet")
             /\ g' = [gametype' EXCEPT !.currentReplicas = g.replicas]
             /\ UNCHANGED <<queued, f, todo>>
    <3>1. gametype' \in GameTypes /\ gWatch' \subseteq GameTypes
      BY <2>1, WriteStatusType
    <3>2. g.replicas \in Int
      BY GameTypeAssumption DEF GameTypes
    <3>3. g' \in GameTypes
      BY <2>1, <3>1, <3>2 DEF GameTypes
    <3>4. QED
      BY <1>8, <2>1, <3>1, <3>3 DEF UpdateCurrent, Goto, Steps
  <2>2. CASE WriteStatus /\ Goto("createFleet") /\ g' = gametype' /\ UNCHANGED <<queued, f, todo>>
    BY <1>8, <2>2, WriteStatusType DEF UpdateCurrent, Goto, Steps
  <2>3. CASE (WriteStatus \/ UNCHANGED gametypeVars) /\ Return(TRUE)
    BY <1>8, <2>3, WriteStatusType, ReturnType DEF UpdateCurrent, Return
  <2>4. QED
    BY <1>8, <2>1, <2>2, <2>3 DEF UpdateCurrent
<1>9. CASE CreateFleet
  <2>1. (f = NoCopy) \in BOOLEAN
    OBVIOUS
  <2>2. edits' \in 0..MaxEdits /\ userDeletes' \in 0..MaxDisturbances
        /\ disturbances' \in 0..MaxDisturbances
    BY <1>9, DisturbType DEF CreateFleet
  <2>3. QED
    BY <1>9, <2>1, <2>2, StoreNewFleetType, ReturnType DEF CreateFleet, Return, Events
<1>10. CASE UpdateFleet
  <2>1. f.id \in Ids /\ [f.fleet EXCEPT !.replicas = NewReplicas] \in Fleets
    BY <1>10 DEF UpdateFleet, Fleets, NewReplicas, GameTypes
  <2>2. QED
    BY <1>10, <2>1, WriteFleetType, ReturnType DEF UpdateFleet, Return, Goto, Steps, Events
<1>11. CASE UpdateReplicas
  BY <1>11, WriteStatusType, ReturnType DEF UpdateReplicas, Return
<1>12. CASE DeleteOldest
  BY <1>12, RequestDeletionType, ReturnType DEF DeleteOldest, Return, Events
<1>13. CASE ListForDeletion
  BY <1>13, ReturnType DEF ListForDeletion, ToDelete, GetFleetsForType, Return, Goto, Steps
<1>14. CASE DeleteFleets
  BY <1>14, RequestDeletionType, ReturnType DEF DeleteFleets, Return, Goto, Steps, Events
<1>15. CASE RelistForDeletion
  BY <1>15, ReturnType DEF RelistForDeletion, Return, Goto, Steps
<1>16. CASE RemoveFinalizer
  <2>1. [g EXCEPT !.fin = FALSE] \in GameTypes
    BY DEF GameTypes
  <2>2. QED
    BY <1>16, <2>1, WriteGametypeType, ReturnType DEF RemoveFinalizer, Return
<1>17. CASE CallFails
  BY <1>17, DisturbType, StoreNewFleetType, ReturnType DEF CallFails, Return, Events
<1>18. CASE Crash
  <2>1. edits' \in 0..MaxEdits /\ userDeletes' \in 0..MaxDisturbances
        /\ disturbances' \in 0..MaxDisturbances
    BY <1>18, DisturbType DEF Crash
  <2>2. fEvents' \in Seq(Events)
    BY <1>18, EmptySeq DEF Crash
  <2>3. (gametype.ex \/ \E i \in Ids : Exists(fleets[i])) \in BOOLEAN
    OBVIOUS
  <2>4. QED
    BY <1>18, <2>1, <2>2, <2>3, NoObjectsType DEF Crash, Steps, Events
<1>19. CASE DeliverGametype
  BY <1>19 DEF DeliverGametype
<1>20. CASE DeliverFleet
  <2>1. Head(fEvents) \in Events /\ Tail(fEvents) \in Seq(Events)
    BY <1>20, HeadTailProperties DEF DeliverFleet, Events
  <2>2. QED
    BY <1>20, <2>1 DEF DeliverFleet, Events
<1>21. CASE CreateGametype
  <2>1. [NoGameType EXCEPT !.ex = TRUE] \in GameTypes
    BY NoObjectsType DEF GameTypes
  <2>2. QED
    BY <1>21, <2>1, WriteGametypeType DEF CreateGametype
<1>22. CASE EditGametype
  <2>1. /\ \A t \in Templates : [gametype EXCEPT !.template = t] \in GameTypes
        /\ \A n \in Replicas : [gametype EXCEPT !.replicas = n] \in GameTypes
    BY DEF GameTypes
  <2>2. edits' \in 0..MaxEdits
    BY <1>22, GameTypeAssumption DEF EditGametype
  <2>3. QED
    BY <1>22, <2>1, <2>2, WriteGametypeType DEF EditGametype
<1>23. CASE DeleteGametype
  <2>1. [gametype EXCEPT !.del = TRUE] \in GameTypes
    BY DEF GameTypes
  <2>2. QED
    BY <1>23, <2>1, WriteGametypeType DEF DeleteGametype
<1>24. CASE UserDeletesFleet
  <2>1. userDeletes' \in 0..MaxDisturbances
    BY <1>24, GameTypeAssumption DEF UserDeletesFleet
  <2>2. QED
    BY <1>24, <2>1, RequestDeletionType DEF UserDeletesFleet, LiveFleets, Events
<1>25. CASE FleetReports
  BY <1>25, DisturbType, StoreFleetType DEF FleetReports, LiveFleets, Events
<1>26. CASE FleetFinalised
  <2>1. \A i \in Ids : [fleets[i] EXCEPT !.life = "gone"] \in Fleets
    BY DEF Fleets
  <2>2. QED
    BY <1>26, <2>1, WriteFleetType DEF FleetFinalised, Events
<1>27. CASE CollectGarbage
  BY <1>27, RequestDeletionType DEF CollectGarbage, LiveFleets, Events
<1>28. CASE UNCHANGED vars
  BY <1>28 DEF vars
<1>29. QED
  BY <1>1, <1>2, <1>3, <1>4, <1>5, <1>6, <1>7, <1>8, <1>9, <1>10, <1>11, <1>12, <1>13,
     <1>14, <1>15, <1>16, <1>17, <1>18, <1>19, <1>20, <1>21, <1>22, <1>23, <1>24, <1>25,
     <1>26, <1>27, <1>28
     DEF Next, Worker, Environment

-----------------------------------------------------------------------------
(* The versions of the game type *)

LEMMA RvsAreNumbers ==
    TypeOK => /\ gametype.rv \in Nat
              /\ \A v \in KnownGametypes : v \in GameTypes /\ v.rv \in Nat
  BY DEF TypeOK, KnownGametypes, GameTypes

LEMMA NothingStored ==
    NoGameType.rv = 0 /\ ~NoGameType.ex /\ ~NoGameType.fin /\ ~NoGameType.del
  BY DEF NoGameType

\* What a write of a game type that exists leaves behind.
LEMMA WriteEffect ==
    ASSUME TypeOK, NEW new \in GameTypes, WriteGametype(new), new.ex, new # gametype
    PROVE  /\ gametype'.rv = gametype.rv + 1
           /\ gWatch' = gWatch \cup {gametype'}
           /\ IF new.del /\ ~new.fin THEN ~gametype'.ex /\ ~gametype'.fin /\ ~gametype'.del
              ELSE gametype'.ex /\ gametype'.fin = new.fin /\ gametype'.del = new.del
<1> DEFINE stored == [new EXCEPT !.rv = gametype.rv + 1]
<1>1. /\ stored.rv = gametype.rv + 1
      /\ stored.ex /\ stored.fin = new.fin /\ stored.del = new.del
  BY DEF GameTypes
<1>2. LET none == [NoGameType EXCEPT !.rv = stored.rv]
      IN  none.rv = stored.rv /\ ~none.ex /\ ~none.fin /\ ~none.del
  BY DEF NoGameType
<1>3. gametype' = SettleGametype(stored) /\ gWatch' = gWatch \cup {gametype'}
  BY DEF WriteGametype
<1> HIDE DEF stored
<1>4. QED
  BY <1>1, <1>2, <1>3 DEF SettleGametype

\* A step that writes nothing: the local copy is given up, taken from the
\* cache, or changed in its status.
LEMMA ReadKeepsVersions ==
    ASSUME TypeOK, Versions, UNCHANGED <<gametype, gWatch, cGametype>>,
           \E v \in {g, cGametype, NoGameType} : SameVersion(g', v)
    PROVE  Versions'
<1> USE NothingStored, RvsAreNumbers DEF Versions, KnownGametypes, SameVersion
<1>1. VersionsAreUnique'
  BY DEF VersionsAreUnique
<1>2. CachesMoveForward' /\ DeletedIsHeld'
  BY DEF CachesMoveForward, DeletedIsHeld
<1>3. OldCopiesAreProtected'
  BY DEF OldCopiesAreProtected
<1>4. QED
  BY <1>1, <1>2, <1>3

\* A write that takes no finalizer away.
LEMMA WriteKeepsVersions ==
    ASSUME TypeOK, Versions, NEW new \in GameTypes, WriteGametype(new), new.ex,
           gametype.ex /\ gametype.fin => new.fin, UNCHANGED cGametype,
           \E v \in {g, NoGameType, gametype'} : SameVersion(g', v)
    PROVE  Versions'
<1>1. CASE new = gametype
  <2>1. UNCHANGED <<gametype, gWatch>>
    BY <1>1 DEF WriteGametype, gametypeVars
  <2>2. CASE SameVersion(g', gametype')
    <3> USE RvsAreNumbers, <2>1, <2>2 DEF Versions, KnownGametypes, SameVersion
    <3>1. VersionsAreUnique'
      BY DEF VersionsAreUnique
    <3>2. CachesMoveForward' /\ DeletedIsHeld' /\ OldCopiesAreProtected'
      BY DEF CachesMoveForward, DeletedIsHeld, OldCopiesAreProtected
    <3>3. QED
      BY <3>1, <3>2
  <2>3. QED
    BY <2>1, <2>2, ReadKeepsVersions
<1>2. CASE new # gametype
  <2>1. /\ gametype'.rv = gametype.rv + 1 /\ gWatch' = gWatch \cup {gametype'}
        /\ gametype'.del => gametype'.ex /\ gametype'.fin
        /\ new.fin => gametype'.ex /\ gametype'.fin
    BY <1>2, WriteEffect
  <2>2. ASSUME NEW v \in KnownGametypes'
        PROVE  \/ SameVersion(v, gametype')
               \/ SameVersion(v, NoGameType)
               \/ \E w \in KnownGametypes : SameVersion(v, w)
    BY <2>1 DEF KnownGametypes, SameVersion
  <2>3. /\ gametype.rv \in Nat
        /\ \A w \in KnownGametypes : w.rv \in Nat /\ w.rv <= gametype.rv
    BY RvsAreNumbers DEF Versions, VersionsAreUnique
  <2>4. ASSUME NEW v \in KnownGametypes', ~SameVersion(v, gametype')
        PROVE  v.rv <= gametype'.rv /\ v.rv # gametype'.rv
    BY <2>1, <2>2, <2>3, <2>4, NothingStored DEF SameVersion
  <2>5. VersionsAreUnique'
    BY <2>1, <2>3, <2>4 DEF VersionsAreUnique, SameVersion
  <2>6. CachesMoveForward'
    BY <2>1, <2>3 DEF CachesMoveForward, Versions, KnownGametypes
  <2>7. DeletedIsHeld'
    BY <2>1 DEF DeletedIsHeld
  <2>8. OldCopiesAreProtected'
    BY <2>1, <2>2, NothingStored DEF OldCopiesAreProtected, Versions, SameVersion
  <2>9. QED
    BY <2>5, <2>6, <2>7, <2>8 DEF Versions
<1>3. QED
  BY <1>1, <1>2

\* Status().Update succeeds only on the version that Reconcile has, which is
\* protected and wanted, and leaves it so.
LEMMA WriteStatusEffect ==
    ASSUME TypeOK, Versions, WriteStatus, g.ex /\ g.fin /\ ~g.del
    PROVE  gametype'.ex /\ gametype'.fin /\ ~gametype'.del
<1> DEFINE new == [gametype EXCEPT !.current = g.current,
                                   !.currentReplicas = g.currentReplicas]
<1>1. SameVersion(g, gametype)
  BY DEF WriteStatus, GametypeCurrent, Versions, VersionsAreUnique, KnownGametypes
<1>2. /\ WriteGametype(new) /\ new \in GameTypes
      /\ new.ex = gametype.ex /\ new.fin = gametype.fin /\ new.del = gametype.del
  BY NewStatusType DEF WriteStatus
<1>3. CASE new = gametype
  BY <1>1, <1>2, <1>3 DEF WriteGametype, gametypeVars, SameVersion
<1>4. CASE new # gametype
  BY <1>1, <1>2, <1>4, WriteEffect DEF SameVersion
<1>5. QED
  BY <1>3, <1>4

\* What a call may rely on at its position in Reconcile.
LEMMA WorkerStep ==
    ASSUME TypeOK, Versions, WorkerKnows, [Next]_vars PROVE WorkerKnows'
<1> USE DEF WorkerKnows, UpdatingSteps, DeletionSteps,
            gametypeVars, fleetVars, cacheVars, workerVars, budgetVars, Goto
<1>1. CASE pc' = "idle" /\ g' = NoGameType
  BY <1>1
<1>2. CASE UNCHANGED <<pc, g, cGametype>>
  BY <1>2
<1>3. CASE Reconcile
  <2>1. cGametype.rv <= cGametype.rv
    BY RvsAreNumbers DEF KnownGametypes
  <2>2. QED
    BY <1>1, <1>3, <2>1 DEF Reconcile, Return
<1>4. CASE HandleGametypeStatus \/ UpdateFleetStatus \/ GetFleet \/ HandleUpdating
  <2>1. /\ \A i : LET new == [g EXCEPT !.current = i]
                 IN  new.ex = g.ex /\ new.fin = g.fin /\ new.del = g.del
        /\ \A i : LET new == [g EXCEPT !.currentReplicas = i]
                 IN  new.ex = g.ex /\ new.fin = g.fin /\ new.del = g.del
    BY DEF TypeOK, GameTypes
  <2>2. QED
    BY <1>1, <1>4, <2>1
       DEF HandleGametypeStatus, UpdateFleetStatus, GetFleet, HandleUpdating, Return
<1>5. CASE UpdateStatus
  BY <1>1, <1>5, WriteStatusEffect DEF UpdateStatus, Return
<1>6. CASE UpdateCurrent
  <2>1. CASE /\ WriteStatus /\ Goto("updateFleet")
             /\ g' = [gametype' EXCEPT !.currentReplicas = g.replicas]
    <3>1. gametype' \in GameTypes /\ gametype'.ex /\ gametype'.fin /\ ~gametype'.del
      BY <1>6, <2>1, WriteStatusEffect, WriteStatusType DEF UpdateCurrent
    <3>2. g'.ex /\ g'.fin /\ ~g'.del
      BY <2>1, <3>1 DEF GameTypes
    <3>3. QED
      BY <2>1, <3>2
  <2>2. QED
    BY <1>1, <1>6, <2>1, WriteStatusEffect DEF UpdateCurrent, Return
<1>7. CASE CreateFleet \/ UpdateFleet
  BY <1>1, <1>7 DEF CreateFleet, UpdateFleet, Return
<1>8. CASE ListForDeletion \/ DeleteFleets \/ RelistForDeletion
  BY <1>1, <1>8 DEF ListForDeletion, DeleteFleets, RelistForDeletion, Return
<1>9. CASE DeliverGametype
  <2>1. PICK v \in gWatch : cGametype' = v
    BY <1>9 DEF DeliverGametype
  <2>2. cGametype.rv <= cGametype'.rv
    BY <2>1 DEF Versions, CachesMoveForward
  <2>3. cGametype.rv \in Nat /\ cGametype'.rv \in Nat /\ g.rv \in Nat
    BY <2>1, RvsAreNumbers DEF KnownGametypes
  <2>4. QED
    BY <1>9, <2>2, <2>3 DEF DeliverGametype
<1>10. QED
  BY <1>1, <1>2, <1>3, <1>4, <1>5, <1>6, <1>7, <1>8, <1>9
     DEF Next, Worker, Environment, vars, Return, AddFinalizer, UpdateReplicas,
         DeleteOldest, RemoveFinalizer, CallFails, Crash, DeliverFleet, CreateGametype,
         EditGametype, DeleteGametype, UserDeletesFleet, FleetReports, FleetFinalised,
         CollectGarbage

LEMMA VersionsStep ==
    ASSUME TypeOK, Versions, WorkerKnows, [Next]_vars PROVE Versions'
<1> USE DEF gametypeVars, fleetVars, cacheVars, workerVars, budgetVars
<1>1. \A v : SameVersion(v, v)
  BY DEF SameVersion
<1>2. CASE UNCHANGED <<gametype, gWatch, cGametype>> /\ g' \in {g, cGametype, NoGameType}
  BY <1>1, <1>2, ReadKeepsVersions
<1>3. CASE HandleGametypeStatus \/ GetFleet \/ HandleUpdating
  <2>1. \A i : /\ SameVersion([g EXCEPT !.current = i], g)
               /\ SameVersion([g EXCEPT !.currentReplicas = i], g)
    BY DEF TypeOK, GameTypes, SameVersion
  <2>2. UNCHANGED <<gametype, gWatch, cGametype>>
    BY <1>3 DEF HandleGametypeStatus, GetFleet, HandleUpdating
  <2>3. \E v \in {g, NoGameType} : SameVersion(g', v)
    BY <1>1, <1>3, <2>1 DEF HandleGametypeStatus, GetFleet, HandleUpdating, Return
  <2>4. QED
    BY <2>2, <2>3, ReadKeepsVersions
<1>4. CASE AddFinalizer
  <2>1. CASE GametypeCurrent /\ WriteGametype([g EXCEPT !.fin = TRUE])
    <3> DEFINE new == [g EXCEPT !.fin = TRUE]
    <3>1. new \in GameTypes /\ new.fin /\ new.ex = g.ex
      BY DEF TypeOK, GameTypes
    <3>2. g.ex /\ g' = NoGameType /\ UNCHANGED cGametype
      BY <1>4 DEF AddFinalizer, WorkerKnows, Return
    <3>3. QED
      BY <1>1, <2>1, <3>1, <3>2, WriteKeepsVersions
  <2>2. QED
    BY <1>2, <1>4, <2>1 DEF AddFinalizer, Return
<1>5. CASE UpdateStatus \/ UpdateCurrent \/ UpdateReplicas
  <2>1. CASE WriteStatus
    <3> DEFINE new == [gametype EXCEPT !.current = g.current,
                                       !.currentReplicas = g.currentReplicas]
    <3>1. new \in GameTypes /\ new.ex = gametype.ex /\ new.fin = gametype.fin
      BY NewStatusType
    <3>2. WriteGametype(new) /\ gametype.ex
      BY <2>1 DEF WriteStatus, GametypeCurrent
    <3>3. SameVersion([gametype' EXCEPT !.currentReplicas = g.replicas], gametype')
      BY <2>1, WriteStatusType DEF GameTypes, SameVersion
    <3>4. (\E v \in {g, NoGameType, gametype'} : SameVersion(g', v)) /\ UNCHANGED cGametype
      BY <1>1, <1>5, <3>3 DEF UpdateStatus, UpdateCurrent, UpdateReplicas, Return
    <3>5. QED
      BY <3>1, <3>2, <3>4, WriteKeepsVersions
  <2>2. QED
    BY <1>2, <1>5, <2>1 DEF UpdateStatus, UpdateCurrent, UpdateReplicas, Return
<1>6. CASE RemoveFinalizer
  <2>1. CASE GametypeCurrent /\ WriteGametype([g EXCEPT !.fin = FALSE])
    \* The stored game type is the one that was seen with its deletion mark, and
    \* no copy is older: none shows a game type that is wanted.
    <3> DEFINE new == [g EXCEPT !.fin = FALSE]
    <3>1. g.ex /\ g.del /\ g.rv <= cGametype.rv /\ g' = NoGameType /\ UNCHANGED cGametype
      BY <1>6 DEF RemoveFinalizer, WorkerKnows, DeletionSteps, Return
    <3>2. new \in GameTypes /\ new.ex /\ new.del /\ ~new.fin
      BY <3>1 DEF TypeOK, GameTypes
    <3>3. g.rv = gametype.rv /\ gametype.del /\ gametype.fin /\ gametype.rv \in Nat
      BY <2>1, <3>1, RvsAreNumbers
         DEF GametypeCurrent, Versions, VersionsAreUnique, KnownGametypes, DeletedIsHeld, SameVersion
    <3>4. /\ gametype'.rv = gametype.rv + 1 /\ gWatch' = gWatch \cup {gametype'}
          /\ ~gametype'.ex /\ ~gametype'.fin /\ ~gametype'.del
      BY <2>1, <3>2, <3>3, WriteEffect
    <3>5. ASSUME NEW v \in gWatch \cup {cGametype}
          PROVE  v.del /\ v.rv = gametype.rv
      <4>1. v \in KnownGametypes /\ cGametype \in KnownGametypes
        BY DEF KnownGametypes
      <4>2. v.rv \in Nat /\ cGametype.rv \in Nat
        BY <4>1, RvsAreNumbers
      <4>3. v.rv <= gametype.rv /\ cGametype.rv <= v.rv
        BY <4>1, <4>2 DEF Versions, VersionsAreUnique, CachesMoveForward
      <4>4. v.rv = gametype.rv
        BY <3>1, <3>3, <4>2, <4>3
      <4>5. QED
        BY <3>3, <4>1, <4>4 DEF Versions, VersionsAreUnique, SameVersion
    <3>6. \A v \in KnownGametypes' :
             v = gametype' \/ v = NoGameType \/ v \in gWatch \cup {cGametype}
      BY <3>1, <3>4 DEF KnownGametypes
    <3>7. VersionsAreUnique'
      <4>1. ASSUME NEW v \in KnownGametypes', v # gametype'
            PROVE  v.rv <= gametype'.rv /\ v.rv # gametype'.rv
        BY <3>3, <3>4, <3>5, <3>6, <4>1, NothingStored
      <4>2. gametype'.rv <= gametype'.rv /\ gametype'.rv # 0
        BY <3>3, <3>4
      <4>3. QED
        BY <4>1, <4>2 DEF VersionsAreUnique, SameVersion
    <3>8. CachesMoveForward'
      <4>1. cGametype.rv = gametype.rv /\ \A v \in gWatch : v.rv = gametype.rv
        BY <3>5
      <4>2. \A v \in gWatch' : v.rv = gametype.rv \/ v.rv = gametype.rv + 1
        BY <3>4, <4>1
      <4>3. QED
        BY <3>1, <3>3, <4>1, <4>2 DEF CachesMoveForward
    <3>9. DeletedIsHeld' /\ OldCopiesAreProtected'
      BY <3>4, <3>5, <3>6, NothingStored DEF DeletedIsHeld, OldCopiesAreProtected
    <3>10. QED
      BY <3>7, <3>8, <3>9 DEF Versions
  <2>2. QED
    BY <1>2, <1>6, <2>1 DEF RemoveFinalizer, Return
<1>7. CASE Crash
  <2>1. /\ gametype' = gametype /\ gWatch' = {} /\ cGametype' = gametype /\ g' = NoGameType
        /\ gametype.rv \in Nat
    BY <1>7, RvsAreNumbers DEF Crash
  <2>2. QED
    BY <2>1, NothingStored
       DEF Versions, VersionsAreUnique, CachesMoveForward, DeletedIsHeld,
           OldCopiesAreProtected, KnownGametypes, SameVersion
<1>8. CASE DeliverGametype
  <2>1. PICK v \in gWatch : cGametype' = v /\ gWatch' = {w \in gWatch : w.rv > v.rv}
    BY <1>8 DEF DeliverGametype
  <2>2. UNCHANGED <<gametype, g>>
    BY <1>8 DEF DeliverGametype
  <2>3. KnownGametypes' \subseteq KnownGametypes
    BY <2>1, <2>2 DEF KnownGametypes
  <2>4. CachesMoveForward'
    <3>1. v.rv \in Nat /\ \A w \in gWatch : w.rv \in Nat
      BY RvsAreNumbers DEF KnownGametypes
    <3>2. \A w \in gWatch' : w \in gWatch /\ w.rv > v.rv
      BY <2>1
    <3>3. QED
      BY <2>1, <3>1, <3>2 DEF CachesMoveForward
  <2>5. QED
    BY <2>2, <2>3, <2>4 DEF Versions, VersionsAreUnique, DeletedIsHeld, OldCopiesAreProtected
<1>9. CASE CreateGametype
  <2> DEFINE new == [NoGameType EXCEPT !.ex = TRUE]
  <2>1. new \in GameTypes /\ new.ex
    BY NoObjectsType DEF GameTypes
  <2>2. ~gametype.ex
    BY <1>9, NothingStored DEF CreateGametype, Versions, VersionsAreUnique
  <2>3. QED
    BY <1>1, <1>9, <2>1, <2>2, WriteKeepsVersions DEF CreateGametype
<1>10. CASE EditGametype
  <2>1. /\ \A t \in Templates : LET new == [gametype EXCEPT !.template = t] IN
              new \in GameTypes /\ new.ex = gametype.ex /\ new.fin = gametype.fin
        /\ \A n \in Replicas : LET new == [gametype EXCEPT !.replicas = n] IN
              new \in GameTypes /\ new.ex = gametype.ex /\ new.fin = gametype.fin
    BY DEF TypeOK, GameTypes
  <2>2. PICK new \in GameTypes :
           new.ex = gametype.ex /\ new.fin = gametype.fin /\ WriteGametype(new)
    BY <1>10, <2>1 DEF EditGametype
  <2>3. QED
    BY <1>1, <1>10, <2>2, WriteKeepsVersions DEF EditGametype
<1>11. CASE DeleteGametype
  <2> DEFINE new == [gametype EXCEPT !.del = TRUE]
  <2>1. new \in GameTypes /\ new.ex = gametype.ex /\ new.fin = gametype.fin
    BY DEF TypeOK, GameTypes
  <2>2. QED
    BY <1>1, <1>11, <2>1, WriteKeepsVersions DEF DeleteGametype
<1>12. QED
  BY <1>2, <1>3, <1>4, <1>5, <1>6, <1>7, <1>8, <1>9, <1>10, <1>11
     DEF Next, Worker, Environment, vars, Return, Reconcile, UpdateFleetStatus, CreateFleet,
         UpdateFleet, DeleteOldest, ListForDeletion, DeleteFleets, RelistForDeletion,
         CallFails, DeliverFleet, UserDeletesFleet, FleetReports, FleetFinalised,
         CollectGarbage

\* A write makes a new version and announces it.
Versioned ==
    /\ gametype'.rv = gametype.rv + 1
    /\ gWatch' = gWatch \cup {gametype'}
    /\ cGametype' = cGametype

\* What any step may do to the stored game type: it comes once, loses its
\* finalizer only when it goes, and goes without one or by the last step of
\* handleDeletion.
LEMMA GametypeSteps ==
    ASSUME TypeOK, Versions, WorkerKnows, [Next]_vars
    PROVE  \/ gametype' = gametype /\ (UNCHANGED <<gWatch, cGametype>> \/ DeliverGametype \/ Crash)
           \/ gametype.rv = 0 /\ gametype'.rv > 0 /\ gametype'.ex /\ Versioned
           \/ /\ gametype.ex /\ gametype'.rv > 0 /\ Versioned
              /\ gametype'.ex /\ gametype.fin => gametype'.fin
              /\ ~gametype'.ex => ~gametype.fin \/ pc = "removeFinalizer"
              /\ gametype.del => gametype'.del \/ ~gametype'.ex
<1> USE DEF gametypeVars, fleetVars, cacheVars, workerVars, budgetVars
<1>1. ASSUME NEW new \in GameTypes, WriteGametype(new), new.ex, UNCHANGED cGametype
      PROVE  \/ UNCHANGED <<gametype, gWatch, cGametype>>
             \/ /\ gametype'.rv > 0 /\ Versioned
                /\ gametype'.ex => gametype'.fin = new.fin /\ gametype'.del = new.del
                /\ gametype'.ex = ~(new.del /\ ~new.fin)
  <2>1. CASE new = gametype
    BY <1>1, <2>1 DEF WriteGametype
  <2>2. CASE new # gametype
    <3>1. gametype.rv + 1 > 0
      BY RvsAreNumbers
    <3>2. gametype'.ex \in BOOLEAN /\ new.del \in BOOLEAN /\ new.fin \in BOOLEAN
      BY <1>1, WriteGametypeType DEF GameTypes
    <3>3. QED
      BY <1>1, <2>2, <3>1, <3>2, WriteEffect DEF Versioned
  <2>3. QED
    BY <2>1, <2>2
<1>2. CASE AddFinalizer
  <2> DEFINE new == [g EXCEPT !.fin = TRUE]
  <2>1. new \in GameTypes /\ new.fin /\ new.ex = g.ex /\ new.del = g.del
    BY DEF TypeOK, GameTypes
  <2>2. GametypeCurrent => SameVersion(g, gametype)
    BY DEF GametypeCurrent, Versions, VersionsAreUnique, KnownGametypes
  <2>3. QED
    BY <1>1, <1>2, <2>1, <2>2 DEF AddFinalizer, WorkerKnows, GametypeCurrent, SameVersion
<1>3. CASE UpdateStatus \/ UpdateCurrent \/ UpdateReplicas
  <2>1. CASE WriteStatus
    <3> DEFINE new == [gametype EXCEPT !.current = g.current,
                                       !.currentReplicas = g.currentReplicas]
    <3>1. /\ new \in GameTypes /\ new.ex = gametype.ex
          /\ new.fin = gametype.fin /\ new.del = gametype.del
      BY NewStatusType
    <3>2. WriteGametype(new) /\ gametype.ex /\ UNCHANGED cGametype
      BY <1>3, <2>1
         DEF WriteStatus, GametypeCurrent, UpdateStatus, UpdateCurrent, UpdateReplicas
    <3>3. QED
      BY <1>1, <3>1, <3>2 DEF Versions, DeletedIsHeld
  <2>2. QED
    BY <1>3, <2>1 DEF UpdateStatus, UpdateCurrent, UpdateReplicas
<1>4. CASE RemoveFinalizer
  <2> DEFINE new == [g EXCEPT !.fin = FALSE]
  <2>1. new \in GameTypes /\ new.ex = g.ex /\ new.del = g.del /\ ~new.fin
    BY DEF TypeOK, GameTypes
  <2>2. QED
    BY <1>1, <1>4, <2>1 DEF RemoveFinalizer, WorkerKnows, DeletionSteps, GametypeCurrent
<1>5. CASE CreateGametype
  <2> DEFINE new == [NoGameType EXCEPT !.ex = TRUE]
  <2>1. new \in GameTypes /\ new.ex
    BY NoObjectsType DEF GameTypes
  <2>2. ~new.del
    BY DEF NoGameType
  <2>3. QED
    BY <1>1, <1>5, <2>1, <2>2 DEF CreateGametype
<1>6. CASE EditGametype
  <2>1. /\ \A t \in Templates : LET new == [gametype EXCEPT !.template = t] IN
              /\ new \in GameTypes /\ new.ex = gametype.ex
              /\ new.fin = gametype.fin /\ new.del = gametype.del
        /\ \A n \in Replicas : LET new == [gametype EXCEPT !.replicas = n] IN
              /\ new \in GameTypes /\ new.ex = gametype.ex
              /\ new.fin = gametype.fin /\ new.del = gametype.del
    BY DEF TypeOK, GameTypes
  <2>2. PICK new \in GameTypes :
           /\ new.ex = gametype.ex /\ new.fin = gametype.fin /\ new.del = gametype.del
           /\ WriteGametype(new)
    BY <1>6, <2>1 DEF EditGametype
  <2>3. QED
    BY <1>1, <1>6, <2>2 DEF EditGametype, Versions, DeletedIsHeld
<1>7. CASE DeleteGametype
  <2> DEFINE new == [gametype EXCEPT !.del = TRUE]
  <2>1. new \in GameTypes /\ new.ex = gametype.ex /\ new.fin = gametype.fin /\ new.del
    BY DEF TypeOK, GameTypes
  <2>2. QED
    BY <1>1, <1>7, <2>1 DEF DeleteGametype
<1>8. CASE UNCHANGED <<gametype, gWatch, cGametype>>
  BY <1>8
<1>9. CASE DeliverGametype \/ Crash
  BY <1>9 DEF DeliverGametype, Crash
<1>10. QED
  BY <1>2, <1>3, <1>4, <1>5, <1>6, <1>7, <1>8, <1>9
     DEF Next, Worker, Environment, vars, Reconcile, HandleGametypeStatus,
         UpdateFleetStatus, GetFleet, HandleUpdating, CreateFleet, UpdateFleet,
         DeleteOldest, ListForDeletion, DeleteFleets, RelistForDeletion, CallFails,
         DeliverFleet, UserDeletesFleet, FleetReports, FleetFinalised,
         CollectGarbage

-----------------------------------------------------------------------------
(* The fleets *)

\* What storing a fleet does to the fleets and adds to the events.
LEMMA StoreEffect ==
    ASSUME TypeOK, NEW i \in Ids, NEW new \in Fleets, StoreFleet(i, new)
    PROVE  /\ fleets'[i] \in Fleets /\ fleets'[i].life = new.life
           /\ new.life # "gone" => fleets'[i].rv = fleets[i].rv + 1
           /\ \A j \in Ids : j # i => fleets'[j] = fleets[j]
           /\ Len(fEvents) \in Nat /\ Len(fEvents') = Len(fEvents) + 1
           /\ \A n \in 1..Len(fEvents) : fEvents'[n] = fEvents[n] /\ fEvents[n] \in Events
           /\ LET last == fEvents'[Len(fEvents) + 1] IN last.id = i /\ last.fleet = fleets'[i]
<1> DEFINE stored == [new EXCEPT !.rv = fleets[i].rv + 1]
<1>1. stored.life = new.life /\ stored.rv = fleets[i].rv + 1
  BY DEF Fleets
<1>2. fleets' \in [Ids -> Fleets]
  BY StoreFleetType
<1>3. fleets' = [fleets EXCEPT ![i] = SettleFleet(stored)]
  BY DEF StoreFleet
<1>4. fleets'[i] = SettleFleet(stored) /\ \A j \in Ids : j # i => fleets'[j] = fleets[j]
  BY <1>3 DEF TypeOK
<1>5. [NoFleet EXCEPT !.life = "gone"].life = "gone"
  BY DEF NoFleet
<1> HIDE DEF stored
<1>6. fleets'[i].life = new.life /\ (new.life # "gone" => fleets'[i].rv = fleets[i].rv + 1)
  BY <1>1, <1>4, <1>5 DEF SettleFleet
<1>7. fEvents \in Seq(Events) /\ [id |-> i, fleet |-> fleets'[i]] \in Events
  BY <1>2 DEF TypeOK, Events
<1>8. /\ Len(fEvents) \in Nat /\ Len(fEvents') = Len(fEvents) + 1
      /\ \A n \in 1..Len(fEvents) : fEvents'[n] = fEvents[n] /\ fEvents[n] \in Events
      /\ fEvents'[Len(fEvents) + 1] = [id |-> i, fleet |-> fleets'[i]]
  BY <1>7, AppendProperties, LenProperties DEF StoreFleet
<1>9. QED
  BY <1>2, <1>4, <1>6, <1>8

\* What any step may do to the fleets and to what is known of them.
LEMMA FleetSteps ==
    ASSUME TypeOK, CopyIsListed, [Next]_vars
    PROVE  \/ UNCHANGED <<fleets, ts, known, fEvents>>
           \/ pc = "createFleet" /\ StoreNewFleet /\ UNCHANGED <<known, gametype>> /\ pc' = "idle"
           \/ /\ UNCHANGED <<known, ts>>
              /\ \E i \in Ids, new \in Fleets :
                    Exists(fleets[i]) /\ new.life # "none" /\ StoreFleet(i, new)
           \/ DeliverFleet
           \/ Crash
<1> USE DEF gametypeVars, fleetVars, cacheVars, workerVars, budgetVars
<1>1. ASSUME NEW i \in Ids, RequestDeletion(i)
      PROVE  \/ UNCHANGED <<fleets, fEvents>>
             \/ \E new \in Fleets :
                   Exists(fleets[i]) /\ new.life # "none" /\ StoreFleet(i, new)
  <2>1. \A l \in {"terminating", "gone"} : LET new == [fleets[i] EXCEPT !.life = l] IN
           new \in Fleets /\ new.life = l
    BY DEF TypeOK, Fleets
  <2>2. QED
    BY <1>1, <2>1 DEF RequestDeletion, WriteFleet, Exists
<1>2. CASE CreateFleet
  BY <1>2 DEF CreateFleet, Return
<1>3. CASE CallFails
  BY <1>3 DEF CallFails, Return
<1>4. CASE UpdateFleet
  <2> DEFINE new == [f.fleet EXCEPT !.replicas = NewReplicas]
  <2>1. f.id \in Ids /\ new \in Fleets /\ new.life = f.fleet.life /\ Exists(f.fleet)
    BY <1>4 DEF UpdateFleet, CopyIsListed, CopySteps, TypeOK, Fleets, NewReplicas, GameTypes
  <2>2. QED
    BY <1>4, <2>1 DEF UpdateFleet, WriteFleet, FleetCurrent, Exists
<1>5. CASE DeleteOldest \/ DeleteFleets
  BY <1>1, <1>5 DEF DeleteOldest, DeleteFleets, TypeOK
<1>6. CASE UserDeletesFleet \/ CollectGarbage
  BY <1>1, <1>6 DEF UserDeletesFleet, CollectGarbage, LiveFleets
<1>7. CASE FleetReports
  BY <1>7 DEF FleetReports, LiveFleets, Exists, TypeOK
<1>8. CASE FleetFinalised
  <2>1. \A i \in Ids : LET new == [fleets[i] EXCEPT !.life = "gone"] IN
           new \in Fleets /\ new.life = "gone"
    BY DEF TypeOK, Fleets
  <2>2. QED
    BY <1>8, <2>1 DEF FleetFinalised, WriteFleet, Exists
<1>9. QED
  BY <1>2, <1>3, <1>4, <1>5, <1>6, <1>7, <1>8
     DEF Next, Worker, Environment, vars, Reconcile, AddFinalizer, HandleGametypeStatus,
         UpdateFleetStatus, GetFleet, UpdateStatus, HandleUpdating, UpdateCurrent,
         UpdateReplicas, ListForDeletion, RelistForDeletion, RemoveFinalizer,
         DeliverGametype, CreateGametype, EditGametype, DeleteGametype

\* The new fleet is the first that was never created, and is live.
LEMMA NewFleet ==
    ASSUME TypeOK, StoreNewFleet
    PROVE  \E i \in Ids, new \in Fleets :
              /\ ~Born(i) /\ \A j \in Ids : ~Born(j) => i <= j
              /\ new.life = "live" /\ StoreFleet(i, new)
              /\ \E t \in NextTimes(i) : ts' = [ts EXCEPT ![i] = t]
<1> DEFINE new == [NoFleet EXCEPT !.life = "live", !.template = g.template,
                                  !.replicas = g.replicas]
<1>1. PICK i \in Unborn : /\ \A u \in Unborn : i <= u
                          /\ WriteFleet(i, new)
                          /\ \E t \in NextTimes(i) : ts' = [ts EXCEPT ![i] = t]
  BY DEF StoreNewFleet
<1>2. new \in Fleets
  BY NoObjectsType DEF TypeOK, GameTypes, Fleets
<1>3. new.life = "live"
  BY DEF NoFleet
<1>4. fleets[i].life = "none" /\ i \in Ids /\ \A j \in Ids : ~Born(j) => i <= j
  BY <1>1 DEF Unborn, Born
<1> HIDE DEF new
<1>5. new # fleets[i]
  BY <1>3, <1>4
<1>6. QED
  BY <1>1, <1>2, <1>3, <1>4, <1>5 DEF WriteFleet, Born

LEMMA GoneStep == ASSUME TypeOK, CopyIsListed, GoneIsFinal, [Next]_vars PROVE GoneIsFinal'
<1> USE DEF GoneIsFinal
<1>1. ASSUME NEW i \in Ids, NEW new \in Fleets, StoreFleet(i, new),
             fleets[i].life # "gone", UNCHANGED known
      PROVE  GoneIsFinal'
  <2>1. \A j \in Ids : fleets[j].life = "gone" => fleets'[j].life = "gone"
    BY <1>1, StoreEffect
  <2>2. ASSUME NEW n \in 1..Len(fEvents'), fEvents'[n].fleet.life = "gone"
        PROVE  fleets'[fEvents'[n].id].life = "gone"
    <3>1. CASE n \in 1..Len(fEvents)
      BY <1>1, <2>1, <2>2, <3>1, StoreEffect DEF Events
    <3>2. CASE n = Len(fEvents) + 1
      BY <1>1, <2>2, <3>2, StoreEffect
    <3>3. n \in 1..Len(fEvents) \/ n = Len(fEvents) + 1
      BY <1>1, <2>2, StoreEffect
    <3>4. QED
      BY <3>1, <3>2, <3>3
  <2>3. QED
    BY <1>1, <2>1, <2>2
<1>2. CASE DeliverFleet
  <2>1. /\ fEvents # <<>> /\ UNCHANGED fleets
        /\ known' = [known EXCEPT ![Head(fEvents).id] = Head(fEvents).fleet]
        /\ fEvents' = Tail(fEvents)
    BY <1>2 DEF DeliverFleet
  <2>2. fEvents \in Seq(Events)
    BY DEF TypeOK, Events
  <2>3. /\ Head(fEvents) = fEvents[1] /\ 1 \in 1..Len(fEvents)
        /\ Len(fEvents') = Len(fEvents) - 1 /\ Len(fEvents) \in Nat
        /\ \A n \in 1..Len(fEvents') : fEvents'[n] = fEvents[n + 1]
    BY <2>1, <2>2, HeadTailProperties, LenProperties, EmptySeq
  <2>4. \A j \in Ids : known'[j].life = "gone" => fleets'[j].life = "gone"
    BY <2>1, <2>3 DEF TypeOK
  <2>5. \A n \in 1..Len(fEvents') :
           fEvents'[n].fleet.life = "gone" => fleets'[fEvents'[n].id].life = "gone"
    BY <2>1, <2>3
  <2>6. QED
    BY <2>4, <2>5
<1>3. CASE Crash
  BY <1>3, EmptySeq DEF Crash
<1>4. CASE UNCHANGED <<fleets, known, fEvents>>
  BY <1>4
<1>5. QED
  BY <1>1, <1>2, <1>3, <1>4, FleetSteps, NewFleet DEF Exists, Born

\* A fleet is created only while the game type exists and is held.
LEMMA CreatedForHeldGametype ==
    ASSUME TypeOK, Versions, WorkerKnows, pc \in UpdatingSteps
    PROVE  gametype.ex /\ gametype.fin /\ gametype.rv > 0
<1>1. g.ex /\ g.fin /\ ~g.del /\ g \in KnownGametypes
  BY DEF WorkerKnows, KnownGametypes
<1>2. gametype.ex /\ gametype.fin
  BY <1>1 DEF Versions, OldCopiesAreProtected
<1>3. gametype.rv # 0 /\ gametype.rv \in Nat
  BY <1>2, RvsAreNumbers, NothingStored DEF Versions, VersionsAreUnique
<1>4. QED
  BY <1>2, <1>3

\* Unless one is created, no step makes a fleet exist.
LEMMA NoFleetComesBack ==
    ASSUME TypeOK, CopyIsListed, [Next]_vars, ~(pc = "createFleet" /\ StoreNewFleet)
    PROVE  \A i \in Ids : /\ Exists(fleets'[i]) => Exists(fleets[i])
                          /\ Born(i)' = Born(i)
<1>1. CASE fleets' = fleets
  BY <1>1 DEF Born
<1>2. ASSUME NEW i \in Ids, NEW new \in Fleets,
             Exists(fleets[i]), new.life # "none", StoreFleet(i, new)
      PROVE  \A j \in Ids : (Exists(fleets'[j]) => Exists(fleets[j])) /\ Born(j)' = Born(j)
  BY <1>2, StoreEffect DEF Exists, Born
<1>3. QED
  BY <1>1, <1>2, FleetSteps DEF DeliverFleet, Crash

LEMMA FleetsStep ==
    ASSUME TypeOK, CopyIsListed, Versions, WorkerKnows, FleetsComeAfterFinalizer, [Next]_vars
    PROVE  FleetsComeAfterFinalizer'
<1>1. CASE pc = "createFleet"
  <2>1. gametype.ex /\ gametype.fin /\ gametype.rv > 0
    BY <1>1, CreatedForHeldGametype DEF UpdatingSteps
  <2>2. QED
    BY <1>1, <2>1, GametypeSteps DEF FleetsComeAfterFinalizer
<1>2. CASE pc # "createFleet"
  <2>1. SUFFICES ASSUME NEW i \in Ids, Born(i)'
                 PROVE  gametype'.rv > 0 /\ (gametype'.ex => gametype'.fin)
    BY DEF FleetsComeAfterFinalizer
  <2>2. Born(i)
    BY <1>2, <2>1, NoFleetComesBack
  <2>3. gametype.rv > 0 /\ (gametype.ex => gametype.fin) /\ gametype.rv \in Nat
    BY <2>2, RvsAreNumbers DEF FleetsComeAfterFinalizer
  <2>4. QED
    BY <2>3, GametypeSteps
<1>3. QED
  BY <1>1, <1>2

LEMMA LeftBehindStep ==
    ASSUME TypeOK, CopyIsListed, Versions, WorkerKnows, FleetsComeAfterFinalizer,
           GoneIsFinal, OnlyUnseenLeftBehind, [Next]_vars
    PROVE  OnlyUnseenLeftBehind'
<1>1. SUFFICES ASSUME pc' = "removeFinalizer" \/ (gametype'.rv > 0 /\ ~gametype'.ex),
                      NEW i \in Ids, Exists(fleets'[i])
               PROVE  i \in unseen'
  BY DEF OnlyUnseenLeftBehind
<1>2. ~(pc = "createFleet" /\ StoreNewFleet)
  <2>1. SUFFICES ASSUME pc = "createFleet", StoreNewFleet PROVE FALSE
    OBVIOUS
  <2>2. gametype.ex
    BY <2>1, CreatedForHeldGametype DEF UpdatingSteps
  <2>3. PICK j \in Ids : ~Born(j) /\ Born(j)'
    BY <2>1, NewFleet, StoreEffect DEF Born
  <2>4. ASSUME NEW k \in Ids, NEW new \in Fleets, Exists(fleets[k]), StoreFleet(k, new)
        PROVE  FALSE
    BY <2>3, <2>4, StoreEffect DEF Born, Exists
  <2>5. pc' = "idle" /\ gametype' = gametype
    BY <2>3, <2>4, FleetSteps DEF Born, DeliverFleet, Crash
  <2>6. QED
    BY <1>1, <2>2, <2>5
<1>3. Exists(fleets[i])
  BY <1>1, <1>2, NoFleetComesBack
<1>4. CASE RelistForDeletion /\ AllGone
  <2>1. unseen' = {j \in Ids : known[j].life = "none"}
    BY <1>4 DEF RelistForDeletion
  <2>2. known[i] \in Fleets /\ ~Exists(known[i])
    BY <1>4 DEF AllGone, GetFleetsForType, TypeOK
  <2>3. known[i].life # "gone"
    BY <1>3 DEF GoneIsFinal, Exists
  <2>4. QED
    BY <2>1, <2>2, <2>3 DEF Fleets, Exists
<1>5. CASE ~(RelistForDeletion /\ AllGone)
  <2>1. unseen' = unseen /\ (pc' = "removeFinalizer" => pc = "removeFinalizer")
    BY <1>5
       DEF Next, Worker, Environment, vars, workerVars, Return, Goto, Reconcile,
         AddFinalizer, HandleGametypeStatus, UpdateFleetStatus, GetFleet, UpdateStatus,
         HandleUpdating, UpdateCurrent, CreateFleet, UpdateFleet, UpdateReplicas,
         DeleteOldest, ListForDeletion, DeleteFleets, RelistForDeletion, RemoveFinalizer,
         CallFails, Crash, DeliverGametype, DeliverFleet, CreateGametype, EditGametype,
         DeleteGametype, UserDeletesFleet, FleetReports, FleetFinalised, CollectGarbage
  <2>2. CASE pc = "removeFinalizer" \/ (gametype.rv > 0 /\ ~gametype.ex)
    BY <1>3, <2>1, <2>2 DEF OnlyUnseenLeftBehind
  <2>3. Born(i)
    BY <1>3 DEF Exists, Born
  <2>4. QED
    BY <1>1, <2>1, <2>2, <2>3, GametypeSteps DEF FleetsComeAfterFinalizer
<1>6. QED
  BY <1>4, <1>5

-----------------------------------------------------------------------------
(* The invariant and what follows from it *)

LEMMA GametypeInvInit == Init => GametypeInv
<1> SUFFICES ASSUME Init PROVE GametypeInv
  OBVIOUS
<1> USE DEF Init
<1>1. TypeOK
  <2>1. fEvents \in Seq([id : Ids, fleet : Fleets])
    BY EmptySeq
  <2>2. /\ edits \in 0..MaxEdits /\ userDeletes \in 0..MaxDisturbances
        /\ disturbances \in 0..MaxDisturbances
    BY GameTypeAssumption
  <2>3. QED
    BY <2>1, <2>2, NoObjectsType DEF TypeOK, Steps
<1>2. Versions
  BY NothingStored DEF Versions, VersionsAreUnique, CachesMoveForward, DeletedIsHeld,
                       OldCopiesAreProtected, KnownGametypes, SameVersion
<1>3. WorkerKnows /\ CopyIsListed
  BY DEF WorkerKnows, CopyIsListed, CopySteps, UpdatingSteps, DeletionSteps
<1>4. \A i \in Ids : fleets[i].life = "none" /\ known[i].life = "none"
  BY DEF NoFleet
<1>5. FleetsComeAfterFinalizer
  BY <1>4 DEF FleetsComeAfterFinalizer, Born
<1>6. GoneIsFinal
  BY <1>4, EmptySeq DEF GoneIsFinal
<1>7. OnlyUnseenLeftBehind
  BY <1>4 DEF OnlyUnseenLeftBehind, Exists
<1>8. QED
  BY <1>1, <1>2, <1>3, <1>5, <1>6, <1>7 DEF GametypeInv

LEMMA GametypeInvStep == GametypeInv /\ [Next]_vars => GametypeInv'
  BY TypeStep, VersionsStep, WorkerStep, FleetsStep, GoneStep, LeftBehindStep DEF GametypeInv

LEMMA GametypeInvCorrect == Spec => []GametypeInv
  BY GametypeInvInit, GametypeInvStep, PTL DEF Spec

\* Every variable of GameTypeController keeps its type.
THEOREM TypeCorrect == Spec => []TypeOK
<1>1. GametypeInv => TypeOK
  BY DEF GametypeInv
<1>2. QED
  BY <1>1, GametypeInvCorrect, PTL

\* However many fleets, edits, faults and crashes there are, and however old
\* what handleDeletion reads is: when the game type goes, the fleets left
\* behind are ones the cache had not shown at the last list.
THEOREM OnlyUnseenLeftBehindCorrect == Spec => []OnlyUnseenLeftBehind
<1>1. GametypeInv => OnlyUnseenLeftBehind
  BY DEF GametypeInv
<1>2. QED
  BY <1>1, GametypeInvCorrect, PTL

-----------------------------------------------------------------------------
(* An upgrade keeps a fleet *)

LEMMA FleetRvsAreNumbers ==
    TypeOK => /\ \A i \in Ids : fleets[i].rv \in Nat /\ known[i].rv \in Nat
              /\ f.fleet.rv \in Nat
  BY DEF TypeOK, Fleets

LEMMA EventsAreEvents ==
    TypeOK => /\ fEvents \in Seq(Events) /\ Len(fEvents) \in Nat
              /\ \A n \in 1..Len(fEvents) :
                    /\ fEvents[n].id \in Ids /\ fEvents[n].fleet \in Fleets
                    /\ fEvents[n].fleet.rv \in Nat
<1> SUFFICES ASSUME TypeOK PROVE /\ fEvents \in Seq(Events) /\ Len(fEvents) \in Nat
                                 /\ \A n \in 1..Len(fEvents) :
                                       /\ fEvents[n].id \in Ids /\ fEvents[n].fleet \in Fleets
                                       /\ fEvents[n].fleet.rv \in Nat
  OBVIOUS
<1>1. fEvents \in Seq(Events)
  BY DEF TypeOK, Events
<1>2. Len(fEvents) \in Nat /\ \A n \in 1..Len(fEvents) : fEvents[n] \in Events
  BY <1>1, LenProperties
<1>3. QED
  BY <1>1, <1>2 DEF Events, Fleets

\* The local copy of a fleet is kept, given up or taken from the cache.
LEMMA LocalSteps ==
    ASSUME [Next]_vars
    PROVE  \/ f' \in {f, NoCopy}
           \/ known' = known /\ \E i \in GetFleetsForType : f' = Copy(i)
  BY DEF Next, Worker, Environment, vars, workerVars, cacheVars, Return,
         Reconcile, AddFinalizer, HandleGametypeStatus, Youngest, UpdateFleetStatus,
         GetFleet, UpdateStatus, HandleUpdating, UpdateCurrent, CreateFleet, UpdateFleet,
         UpdateReplicas, DeleteOldest, ListForDeletion, DeleteFleets, RelistForDeletion,
         RemoveFinalizer, CallFails, Crash, DeliverGametype, DeliverFleet, CreateGametype,
         EditGametype, DeleteGametype, UserDeletesFleet, FleetReports, FleetFinalised,
         CollectGarbage

\* A fleet that was created stays so.
LEMMA BornForever ==
    ASSUME TypeOK, CopyIsListed, [Next]_vars, NEW i \in Ids, Born(i) PROVE Born(i)'
<1>1. CASE pc = "createFleet" /\ StoreNewFleet
  BY <1>1, NewFleet, StoreEffect DEF Born
<1>2. QED
  BY <1>1, NoFleetComesBack

\* What is known of the fleets after a step was known before, or is what the
\* step has stored, or what the operator lists when it restarts.
LEMMA CopiesStep ==
    ASSUME TypeOK, CopyIsListed, [Next]_vars, NEW c \in Copies'
    PROVE  \/ c \in Copies
           \/ c = NoCopy
           \/ c.id \in Ids /\ c.fleet = fleets'[c.id]
<1> DEFINE Goal == c \in Copies \/ c = NoCopy \/ (c.id \in Ids /\ c.fleet = fleets'[c.id])
<1>1. ASSUME NEW i \in Ids, NEW new \in Fleets, StoreFleet(i, new), UNCHANGED known
      PROVE  Goal
  <2>1. CASE \E n \in 1..Len(fEvents') : c = fEvents'[n]
    <3>1. PICK n \in 1..Len(fEvents') : c = fEvents'[n]
      BY <2>1
    <3>2. n \in 1..Len(fEvents) \/ n = Len(fEvents) + 1
      BY <1>1, <3>1, StoreEffect
    <3>3. QED
      BY <1>1, <3>1, <3>2, StoreEffect DEF Copies
  <2>2. CASE c = f'
    BY <1>1, <2>2, LocalSteps DEF Copies, GetFleetsForType
  <2>3. CASE \E j \in Ids : c = Copy(j)'
    BY <1>1, <2>3 DEF Copies, Copy
  <2>4. QED
    BY <2>1, <2>2, <2>3 DEF Copies
<1>2. CASE DeliverFleet
  <2>1. /\ fEvents # <<>> /\ f' = f
        /\ known' = [known EXCEPT ![Head(fEvents).id] = Head(fEvents).fleet]
        /\ fEvents' = Tail(fEvents)
    BY <1>2 DEF DeliverFleet
  <2>2. /\ Head(fEvents) = fEvents[1] /\ 1 \in 1..Len(fEvents)
        /\ Len(fEvents') = Len(fEvents) - 1 /\ Len(fEvents) \in Nat
        /\ \A n \in 1..Len(fEvents') : fEvents'[n] = fEvents[n + 1]
    BY <2>1, EventsAreEvents, HeadTailProperties, LenProperties, EmptySeq
  <2>3. ASSUME NEW n \in 1..Len(fEvents'), c = fEvents'[n] PROVE c \in Copies
    <3>1. n + 1 \in 1..Len(fEvents)
      BY <2>2
    <3>2. QED
      BY <2>2, <2>3, <3>1 DEF Copies
  <2>4. ASSUME NEW j \in Ids, c = [id |-> j, fleet |-> known'[j]] PROVE c \in Copies
    <3>1. CASE j = fEvents[1].id
      <4>1. fEvents[1] \in Events /\ known'[j] = fEvents[1].fleet
        BY <2>1, <2>2, <3>1, EventsAreEvents DEF TypeOK
      <4>2. c = fEvents[1]
        BY <2>4, <3>1, <4>1 DEF Events
      <4>3. QED
        BY <2>2, <4>2 DEF Copies
    <3>2. CASE j # fEvents[1].id
      BY <2>1, <2>2, <2>4, <3>2 DEF Copies, Copy, TypeOK
    <3>3. QED
      BY <3>1, <3>2
  <2>5. QED
    BY <2>1, <2>3, <2>4 DEF Copies, Copy
<1>3. CASE Crash
  <2>1. known' = fleets /\ fleets' = fleets /\ f' = NoCopy /\ Len(fEvents') = 0
    BY <1>3, EmptySeq DEF Crash
  <2>2. QED
    BY <2>1 DEF Copies, Copy
<1>4. CASE UNCHANGED <<fleets, known, fEvents>>
  BY <1>4, LocalSteps DEF Copies, Copy, GetFleetsForType
<1>5. QED
  BY <1>1, <1>3, <1>2, <1>4, FleetSteps, NewFleet

\* A fleet changes to a new version, and only while it exists.
LEMMA FleetChanges ==
    ASSUME TypeOK, CopyIsListed, [Next]_vars, NEW i \in Ids
    PROVE  \/ fleets'[i] = fleets[i]
           \/ /\ ~Born(i) \/ Exists(fleets[i])
              /\ Born(i)'
              /\ Exists(fleets'[i]) => fleets'[i].rv = fleets[i].rv + 1
<1>1. ASSUME NEW k \in Ids, NEW new \in Fleets, StoreFleet(k, new), new.life # "none",
             ~Born(k) \/ Exists(fleets[k])
      PROVE  \/ fleets'[i] = fleets[i]
             \/ /\ ~Born(i) \/ Exists(fleets[i])
                /\ Born(i)'
                /\ Exists(fleets'[i]) => fleets'[i].rv = fleets[i].rv + 1
  BY <1>1, StoreEffect DEF Exists, Born
<1>2. CASE fleets' = fleets
  BY <1>2
<1>3. CASE StoreNewFleet
  <2>1. PICK k \in Ids, new \in Fleets : ~Born(k) /\ new.life = "live" /\ StoreFleet(k, new)
    BY <1>3, NewFleet
  <2>2. QED
    BY <1>1, <2>1
<1>4. QED
  BY <1>1, <1>2, <1>3, FleetSteps DEF DeliverFleet, Crash

LEMMA FleetVersionsStep ==
    ASSUME TypeOK, CopyIsListed, KnownAreBorn, FleetVersionsAreUnique, [Next]_vars, TypeOK'
    PROVE  KnownAreBorn' /\ FleetVersionsAreUnique'
<1>1. ASSUME NEW c \in Copies', c.id \in Ids
      PROVE  /\ c.fleet.life # "none" => fleets'[c.id].life # "none"
             /\ Fits(c.fleet, fleets'[c.id])
  <2>1. CASE c \in Copies
    <3>1. Fits(c.fleet, fleets[c.id]) /\ (c.fleet.life # "none" => Born(c.id))
      BY <1>1, <2>1 DEF FleetVersionsAreUnique, KnownAreBorn
    <3>2. CASE fleets'[c.id] = fleets[c.id]
      BY <3>1, <3>2 DEF Born
    <3>3. CASE fleets'[c.id] # fleets[c.id]
      <4>1. /\ ~Born(c.id) \/ Exists(fleets[c.id])
            /\ fleets'[c.id].life # "none"
            /\ Exists(fleets'[c.id]) => fleets'[c.id].rv = fleets[c.id].rv + 1
        BY <1>1, <3>3, FleetChanges DEF Born
      <4>2. SUFFICES ASSUME Exists(fleets'[c.id]), Exists(c.fleet)
                     PROVE  c.fleet.rv <= fleets'[c.id].rv /\ c.fleet.rv # fleets'[c.id].rv
        BY <4>1 DEF Fits
      <4>3. Exists(fleets[c.id])
        BY <3>1, <4>1, <4>2 DEF Exists
      <4>4. c.fleet.rv <= fleets[c.id].rv /\ fleets'[c.id].rv = fleets[c.id].rv + 1
        BY <3>1, <4>1, <4>2, <4>3 DEF Fits
      <4>5. fleets[c.id].rv \in Nat
        BY <1>1, FleetRvsAreNumbers
      <4>6. c.fleet.rv \in Nat
        BY <1>1, <2>1, FleetRvsAreNumbers, EventsAreEvents DEF Copies, Copy
      <4>7. QED
        BY <4>4, <4>5, <4>6
    <3>4. QED
      BY <3>2, <3>3
  <2>2. CASE c = NoCopy
    BY <2>2, <1>1 DEF NoCopy, Ids
  <2>3. CASE c.fleet = fleets'[c.id]
    <3>1. fleets'[c.id].rv \in Nat
      BY <1>1 DEF TypeOK, Fleets
    <3>2. QED
      BY <2>3, <3>1 DEF Fits
  <2>4. QED
    BY <1>1, <2>1, <2>2, <2>3, CopiesStep
<1>2. QED
  BY <1>1 DEF KnownAreBorn, FleetVersionsAreUnique, Born

\* A new fleet takes the next number, and is not older than the one before it.
LEMMA BornInOrderStep ==
    ASSUME TypeOK, CopyIsListed, BornInOrder, [Next]_vars PROVE BornInOrder'
<1>1. CASE StoreNewFleet
  <2>1. PICK k \in Ids, new \in Fleets :
           /\ ~Born(k) /\ \A j \in Ids : ~Born(j) => k <= j
           /\ new.life = "live" /\ StoreFleet(k, new)
           /\ \E t \in NextTimes(k) : ts' = [ts EXCEPT ![k] = t]
    BY <1>1, NewFleet
  <2>2. /\ Born(k)' /\ \A j \in Ids : j # k => Born(j)' = Born(j)
    BY <2>1, StoreEffect DEF Born
  <2>3. /\ k # 1 => ts'[k] \in {ts[k - 1], ts[k - 1] + 1}
        /\ \A j \in Ids : j # k => ts'[j] = ts[j]
    BY <2>1 DEF NextTimes, TypeOK
  <2>4. ASSUME NEW i \in Ids, NEW j \in Ids, i < j, Born(j)'
        PROVE  Born(i)' /\ ts'[i] <= ts'[j]
    <3>1. CASE j = k
      <4>1. Born(i) /\ i # k
        BY <2>1, <2>4, <3>1 DEF Ids
      <4>2. k - 1 \in Ids /\ k # 1 /\ k - 1 < k /\ i <= k - 1
        BY <2>1, <2>4, <3>1, GameTypeAssumption DEF Ids
      <4>3. i < k - 1 => ts[i] <= ts[k - 1]
        <5>1. Born(k - 1)
          BY <2>1, <4>2 DEF Ids
        <5>2. QED
          BY <4>2, <5>1 DEF BornInOrder
      <4>4. i \in Nat /\ k \in Nat /\ ts[i] \in Nat /\ ts[k - 1] \in Nat
        <5>1. ts[i] \in Nat /\ ts[k - 1] \in Nat
          BY <4>2 DEF TypeOK
        <5>2. QED
          BY <2>1, <5>1 DEF Ids
      <4>5. ts'[j] \in {ts[k - 1], ts[k - 1] + 1} /\ ts'[i] = ts[i]
        BY <2>3, <3>1, <4>1, <4>2
      <4>6. QED
        BY <2>2, <4>1, <4>2, <4>3, <4>4, <4>5
    <3>2. CASE j # k
      <4>1. Born(i) /\ ts[i] <= ts[j]
        BY <2>2, <2>4, <3>2 DEF BornInOrder
      <4>2. QED
        BY <2>1, <2>2, <2>3, <3>2, <4>1
    <3>3. QED
      BY <3>1, <3>2
  <2>5. QED
    BY <2>4 DEF BornInOrder
<1>2. CASE ~StoreNewFleet
  <2>1. ts' = ts /\ \A i \in Ids : Born(i)' = Born(i)
    BY <1>2, FleetSteps, NoFleetComesBack DEF DeliverFleet, Crash
  <2>2. QED
    BY <2>1 DEF BornInOrder
<1>3. QED
  BY <1>1, <1>2

\* A new fleet comes after all others.
LEMMA NewIsLast ==
    ASSUME TypeOK, BornInOrder, StoreNewFleet
    PROVE  \E k \in Ids : /\ ~Born(k) /\ fleets'[k].life = "live"
                          /\ \A i \in Ids : i # k => Born(i)' = Born(i)
                          /\ \A i \in Ids : Born(i) => i < k
<1>1. PICK k \in Ids, new \in Fleets : ~Born(k) /\ new.life = "live" /\ StoreFleet(k, new)
  BY NewFleet
<1>2. fleets'[k].life = "live" /\ \A i \in Ids : i # k => Born(i)' = Born(i)
  BY <1>1, StoreEffect DEF Born
<1>3. ASSUME NEW i \in Ids, Born(i) PROVE i < k
  <2>1. i # k /\ ~(k < i)
    BY <1>1, <1>3 DEF BornInOrder
  <2>2. QED
    BY <1>1, <2>1 DEF Ids
<1>4. QED
  BY <1>1, <1>2, <1>3

LEMMA OneIsTheLastStep ==
    ASSUME TypeOK, CopyIsListed, BornInOrder, OneIsTheLast, [Next]_vars PROVE OneIsTheLast'
<1>1. CASE StoreNewFleet
  <2>1. PICK k \in Ids : /\ fleets'[k].life = "live"
                         /\ \A i \in Ids : i # k => Born(i)' = Born(i)
                         /\ \A i \in Ids : Born(i) => i < k
    BY <1>1, NewIsLast
  <2>2. Born(k)'
    BY <2>1 DEF Born
  <2>3. \A i \in Ids : Born(i)' => i <= k
    BY <2>1 DEF Ids
  <2>4. QED
    BY <2>2, <2>3 DEF OneIsTheLast
<1>2. CASE ~StoreNewFleet
  <2>1. \A i \in Ids : Born(i)' = Born(i)
    BY <1>2, NoFleetComesBack
  <2>2. QED
    BY <2>1 DEF OneIsTheLast
<1>3. QED
  BY <1>1, <1>2

\* Doom is final in the API, and the watch delivers versions in order.
LEMMA DoomIsFinalStep ==
    ASSUME TypeOK, Versions, WorkerKnows, DoomIsFinal, [Next]_vars PROVE DoomIsFinal'
<1>1. CASE UNCHANGED <<gametype, gWatch, cGametype>>
  BY <1>1 DEF DoomIsFinal
<1>2. CASE DeliverGametype
  <2>1. PICK v \in gWatch : cGametype' = v /\ gWatch' = {w \in gWatch : w.rv > v.rv}
    BY <1>2 DEF DeliverGametype
  <2>2. gametype' = gametype
    BY <1>2 DEF DeliverGametype
  <2>3. \A w \in gWatch : w.rv \in Nat
    BY RvsAreNumbers DEF KnownGametypes
  <2>4. \A w \in gWatch' : w \in gWatch /\ v.rv <= w.rv
    BY <2>1, <2>3
  <2>5. QED
    BY <2>1, <2>2, <2>4 DEF DoomIsFinal
<1>3. CASE Crash
  BY <1>3 DEF Crash, DoomIsFinal
<1>4. CASE Versioned /\ (gametype.rv = 0 \/ (gametype.ex /\ (gametype.del => gametype'.del \/ ~gametype'.ex)))
           /\ gametype'.rv > 0
  <2>1. Doomed(gametype) => Doomed(gametype')
    <3>1. gametype.rv = 0 => ~Doomed(gametype)
      BY NothingStored DEF Versions, VersionsAreUnique, Doomed
    <3>2. QED
      BY <1>4, <3>1 DEF Doomed
  <2>2. ASSUME NEW v \in gWatch PROVE v.rv < gametype'.rv
    <3>1. v.rv <= gametype.rv /\ v.rv \in Nat /\ gametype.rv \in Nat
      BY RvsAreNumbers DEF Versions, VersionsAreUnique, KnownGametypes
    <3>2. QED
      BY <1>4, <3>1 DEF Versioned
  <2>3. gWatch' = gWatch \cup {gametype'} /\ cGametype' = cGametype
    BY <1>4 DEF Versioned
  <2>4. \A v \in gWatch : v.rv \in Nat
    BY RvsAreNumbers DEF KnownGametypes
  <2>5. gametype'.rv \in Nat
    BY <1>4, RvsAreNumbers DEF Versioned
  <2>6. ASSUME NEW v \in gWatch', NEW w \in gWatch', Doomed(v), v.rv <= w.rv PROVE Doomed(w)
    <3>1. CASE w = gametype'
      BY <2>1, <2>3, <2>6, <3>1 DEF DoomIsFinal
    <3>2. CASE w # gametype' /\ v = gametype'
      <4>1. w \in gWatch
        BY <2>3, <2>6, <3>2
      <4>2. QED
        BY <2>2, <2>4, <2>5, <2>6, <3>2, <4>1
    <3>3. CASE w # gametype' /\ v # gametype'
      BY <2>3, <2>6, <3>3 DEF DoomIsFinal
    <3>4. QED
      BY <3>1, <3>2, <3>3
  <2>7. Doomed(cGametype) => Doomed(gametype') /\ \A v \in gWatch' : Doomed(v)
    BY <2>1, <2>3 DEF DoomIsFinal
  <2>8. \A v \in gWatch' : Doomed(v) => Doomed(gametype')
    BY <2>1, <2>3 DEF DoomIsFinal
  <2>9. Doomed(gametype)' = Doomed(gametype') /\ Doomed(cGametype)' = Doomed(cGametype)
    BY <2>3 DEF Doomed
  <2>10. QED
    BY <2>6, <2>7, <2>8, <2>9 DEF DoomIsFinal
<1>5. QED
  BY <1>1, <1>2, <1>3, <1>4, GametypeSteps

LEMMA CacheKeepsDoom ==
    ASSUME TypeOK, Versions, WorkerKnows, DoomIsFinal, [Next]_vars, Doomed(cGametype)
    PROVE  Doomed(cGametype')
<1>1. Doomed(gametype) /\ \A v \in gWatch : Doomed(v)
  BY DEF DoomIsFinal
<1>2. QED
  BY <1>1, GametypeSteps DEF DeliverGametype, Crash, Versioned

\* Reconcile turns to the fleets or to the deletion by what the cache shows.
LEMMA WhereReconcileTurns ==
    ASSUME [Next]_vars
    PROVE  /\ pc' \in DeletionSteps => pc \in DeletionSteps \/ cGametype.del
           /\ pc' \in UpdatingSteps =>
                 pc \in UpdatingSteps \/ (cGametype.ex /\ ~cGametype.del)
           /\ pc' = "deleteOldest" =>
                 (pc = "deleteOldest" /\ todo' = todo) \/ HandleUpdating
  BY DEF Next, Worker, Environment, vars, workerVars, Return, Goto, Reconcile,
         AddFinalizer, HandleGametypeStatus, UpdateFleetStatus, GetFleet, UpdateStatus,
         HandleUpdating, UpdateCurrent, CreateFleet, UpdateFleet, UpdateReplicas,
         DeleteOldest, ListForDeletion, DeleteFleets, RelistForDeletion, RemoveFinalizer,
         CallFails, Crash, DeliverGametype, DeliverFleet, CreateGametype, EditGametype,
         DeleteGametype, UserDeletesFleet, FleetReports, FleetFinalised, CollectGarbage,
         UpdatingSteps, DeletionSteps

LEMMA DeletionWasSeenStep ==
    ASSUME TypeOK, CopyIsListed, Versions, WorkerKnows, FleetsComeAfterFinalizer,
           DoomIsFinal, DeletionWasSeen, [Next]_vars
    PROVE  DeletionWasSeen'
<1>1. pc' \in DeletionSteps => Doomed(cGametype)
  BY WhereReconcileTurns DEF DeletionWasSeen, Doomed
<1>2. ASSUME NEW i \in Ids, Born(i)', gametype'.rv > 0, ~gametype'.ex
      PROVE  Doomed(cGametype)
  <2>1. pc # "createFleet"
    <3>1. SUFFICES ASSUME pc = "createFleet" PROVE FALSE
      OBVIOUS
    <3>2. gametype.ex /\ gametype.fin /\ gametype.rv > 0
      BY <3>1, CreatedForHeldGametype DEF UpdatingSteps
    <3>3. QED
      BY <1>2, <3>1, <3>2, GametypeSteps
  <2>2. Born(i)
    BY <1>2, <2>1, NoFleetComesBack
  <2>3. gametype.rv > 0 /\ (gametype.ex => gametype.fin) /\ gametype.rv \in Nat
    BY <2>2, RvsAreNumbers DEF FleetsComeAfterFinalizer
  <2>4. QED
    BY <1>2, <2>2, <2>3, GametypeSteps DEF DeletionWasSeen, DeletionSteps
<1>3. Doomed(cGametype) => Doomed(cGametype')
  BY CacheKeepsDoom
<1>4. Doomed(cGametype') => Doomed(cGametype)'
  BY DEF Doomed
<1>5. QED
  BY <1>1, <1>2, <1>3, <1>4 DEF DeletionWasSeen

\* Of two fleets that the cache lists, an oldest is not younger than the other.
LEMMA DeletesAnOlderOneStep ==
    ASSUME TypeOK, CopyIsListed, KnownAreBorn, DeletesAnOlderOne, [Next]_vars
    PROVE  DeletesAnOlderOne'
<1>1. SUFFICES ASSUME pc' = "deleteOldest", NEW i \in todo'
               PROVE  \E j \in Ids : j # i /\ Born(j) /\ ts[i] <= ts[j]
  <2>1. \A j \in Ids : Born(j) => Born(j)'
    BY BornForever
  <2>2. pc' = "deleteOldest" => ts' = ts
    BY FleetSteps DEF DeliverFleet, Crash
  <2>3. QED
    BY <1>1, <2>1, <2>2 DEF DeletesAnOlderOne
<1>2. CASE pc = "deleteOldest" /\ todo' = todo
  BY <1>1, <1>2 DEF DeletesAnOlderOne
<1>3. CASE HandleUpdating
  <2>1. Surplus(GetFleetsForType) /\ i \in Oldest(GetFleetsForType)
    BY <1>1, <1>3 DEF HandleUpdating, Goto, Return
  <2>2. PICK j \in GetFleetsForType : j # i
    <3>1. Cardinality({i}) = 1
      BY FS_Singleton
    <3>2. i \in GetFleetsForType /\ Cardinality(GetFleetsForType) > 1
      BY <2>1 DEF Oldest, Surplus
    <3>3. GetFleetsForType # {i}
      BY <3>1, <3>2
    <3>4. QED
      BY <3>2, <3>3
  <2>3. i \in Ids /\ j \in Ids /\ ts[i] <= ts[j] /\ ts[i] \in Nat /\ ts[j] \in Nat
    BY <2>1, <2>2 DEF Oldest, GetFleetsForType, TypeOK
  <2>4. ASSUME NEW k \in GetFleetsForType PROVE Born(k)
    <3>1. Copy(k) \in Copies /\ Copy(k).id = k /\ Copy(k).fleet.life # "none" /\ k \in Ids
      BY CopyType DEF Copies, Exists
    <3>2. QED
      BY <3>1 DEF KnownAreBorn
  <2>5. Born(i) /\ Born(j)
    BY <2>1, <2>2, <2>4 DEF Oldest
  <2>6. QED
    BY <2>2, <2>3, <2>5
<1>4. QED
  BY <1>1, <1>2, <1>3, WhereReconcileTurns

\* Nothing but a user deletes the youngest fleet before the deletion of the game
\* type was seen.
LEMMA YoungestStays ==
    ASSUME UpgradeInv, [Next]_vars, userDeletes' = 0,
           pc \in UpdatingSteps \/ ~Doomed(cGametype),
           NEW j \in Ids, fleets[j].life = "live", SoleYoungest(j)
    PROVE  fleets'[j].life = "live"
<1> USE DEF fleetVars
<1>1. /\ TypeOK /\ CopyIsListed /\ Versions /\ WorkerKnows /\ FleetVersionsAreUnique
      /\ DeletionWasSeen /\ DeletesAnOlderOne
  BY DEF UpgradeInv, GametypeInv
<1>2. ASSUME NEW i \in Ids, i # j, RequestDeletion(i) PROVE fleets'[j] = fleets[j]
  BY <1>1, <1>2 DEF RequestDeletion, WriteFleet, StoreFleet, TypeOK
<1>3. CASE StoreNewFleet
  <2>1. PICK k \in Ids, new \in Fleets : ~Born(k) /\ StoreFleet(k, new)
    BY <1>1, <1>3, NewFleet
  <2>2. QED
    BY <1>1, <2>1, StoreEffect DEF Born
<1>4. CASE UpdateFleet /\ FleetCurrent
  <2> DEFINE new == [f.fleet EXCEPT !.replicas = NewReplicas]
  <2>1. /\ f.id \in Ids /\ new \in Fleets /\ new.life = f.fleet.life /\ Exists(f.fleet)
        /\ Exists(fleets[f.id]) /\ fleets[f.id].rv = f.fleet.rv
    BY <1>1, <1>4 DEF UpdateFleet, FleetCurrent, CopyIsListed, CopySteps, TypeOK, Fleets,
                      NewReplicas, GameTypes
  <2>2. f.fleet = fleets[f.id]
    BY <1>1, <2>1 DEF FleetVersionsAreUnique, Copies, Fits
  <2>3. fleets' = fleets \/ StoreFleet(f.id, new)
    BY <1>4 DEF UpdateFleet, WriteFleet
  <2> HIDE DEF new
  <2>4. QED
    BY <1>1, <2>1, <2>2, <2>3, StoreEffect
<1>5. CASE DeleteOldest
  <2>1. PICK i \in todo : RequestDeletion(i) \/ fleets' = fleets
    BY <1>5 DEF DeleteOldest
  <2>2. i \in Ids
    BY <1>1 DEF TypeOK
  <2>3. PICK k \in Ids : k # i /\ Born(k) /\ ts[i] <= ts[k]
    BY <1>1, <1>5 DEF DeleteOldest, DeletesAnOlderOne
  <2>4. ts[i] \in Nat /\ ts[k] \in Nat
    BY <1>1, <2>2 DEF TypeOK
  <2>5. i # j
    BY <2>3, <2>4 DEF SoleYoungest
  <2>6. QED
    BY <1>2, <2>1, <2>2, <2>5
<1>6. CASE DeleteFleets
  BY <1>1, <1>6 DEF DeleteFleets, DeletionWasSeen, DeletionSteps, UpdatingSteps
<1>7. CASE UserDeletesFleet
  BY <1>1, <1>7 DEF UserDeletesFleet, TypeOK
<1>8. CASE CollectGarbage
  <2>1. Doomed(cGametype)
    BY <1>1, <1>8 DEF CollectGarbage, DeletionWasSeen, Born
  <2>2. QED
    BY <1>1, <1>8, <2>1, CreatedForHeldGametype DEF CollectGarbage
<1>9. CASE FleetReports
  <2>1. PICK i \in Ids : fleets[i].life = "live" /\ StoreFleet(i, fleets[i])
    BY <1>9 DEF FleetReports, LiveFleets
  <2>2. fleets[i] \in Fleets
    BY <1>1 DEF TypeOK
  <2>3. QED
    BY <1>1, <2>1, <2>2, StoreEffect
<1>10. CASE FleetFinalised
  BY <1>1, <1>10 DEF FleetFinalised, WriteFleet, StoreFleet, TypeOK
<1>11. QED
  BY <1>3, <1>4, <1>5, <1>6, <1>7, <1>8, <1>9, <1>10
     DEF Next, Worker, Environment, vars, Reconcile, AddFinalizer, HandleGametypeStatus,
         UpdateFleetStatus, GetFleet, UpdateStatus, HandleUpdating, UpdateCurrent, CreateFleet,
         UpdateFleet, UpdateReplicas, ListForDeletion, RelistForDeletion, RemoveFinalizer,
         CallFails, Crash, DeliverGametype, DeliverFleet, CreateGametype, EditGametype,
         DeleteGametype

\* Users' deletions are not forgotten.
LEMMA UserDeletesAreCounted ==
    ASSUME TypeOK, [Next]_vars, userDeletes' = 0 PROVE userDeletes = 0
<1>1. userDeletes \in Nat
  BY GameTypeAssumption DEF TypeOK
<1>2. userDeletes' = userDeletes \/ userDeletes' = userDeletes + 1
  BY DEF Next, Worker, Environment, vars, budgetVars, Disturb, Reconcile,
         AddFinalizer, HandleGametypeStatus, UpdateFleetStatus, GetFleet, UpdateStatus,
         HandleUpdating, UpdateCurrent, CreateFleet, UpdateFleet, UpdateReplicas,
         DeleteOldest, ListForDeletion, DeleteFleets, RelistForDeletion, RemoveFinalizer,
         CallFails, Crash, DeliverGametype, DeliverFleet, CreateGametype, EditGametype,
         DeleteGametype, UserDeletesFleet, FleetReports, FleetFinalised, CollectGarbage
<1>3. QED
  BY <1>1, <1>2

LEMMA YoungestIsLiveStep == ASSUME UpgradeInv, [Next]_vars, BornInOrder', TypeOK'
                            PROVE  YoungestIsLive'
<1>1. /\ TypeOK /\ CopyIsListed /\ Versions /\ WorkerKnows /\ DoomIsFinal
      /\ BornInOrder /\ YoungestIsLive
  BY DEF UpgradeInv, GametypeInv
<1>2. SUFFICES ASSUME userDeletes' = 0, pc' \in UpdatingSteps \/ ~Doomed(cGametype'),
                      NEW j \in Ids, SoleYoungest(j)'
               PROVE  fleets'[j].life = "live"
  <2>1. Doomed(cGametype)' = Doomed(cGametype')
    BY DEF Doomed
  <2>2. QED
    BY <1>2, <2>1 DEF YoungestIsLive
<1>3. CASE pc = "createFleet" /\ StoreNewFleet
  <2>1. PICK k \in Ids : /\ fleets'[k].life = "live"
                         /\ \A i \in Ids : i # k => Born(i)' = Born(i)
                         /\ \A i \in Ids : Born(i) => i < k
    BY <1>1, <1>3, NewIsLast
  <2>2. CASE j # k
    <3>1. Born(k)' /\ Born(j) /\ j < k
      BY <1>2, <2>1, <2>2 DEF SoleYoungest, Born
    <3>2. ts'[j] <= ts'[k] /\ ts'[k] < ts'[j]
      BY <1>2, <2>2, <3>1 DEF BornInOrder, SoleYoungest
    <3>3. ts'[j] \in Nat /\ ts'[k] \in Nat
      BY DEF TypeOK
    <3>4. QED
      BY <3>2, <3>3
  <2>3. QED
    BY <2>1, <2>2
<1>4. CASE ~(pc = "createFleet" /\ StoreNewFleet)
  <2>1. ts' = ts /\ \A i \in Ids : Born(i)' = Born(i)
    BY <1>1, <1>4, FleetSteps, NoFleetComesBack DEF DeliverFleet, Crash
  <2>2. pc \in UpdatingSteps \/ ~Doomed(cGametype)
    BY <1>1, <1>2, CacheKeepsDoom, WhereReconcileTurns DEF Doomed
  <2>3. SoleYoungest(j)
    BY <1>2, <2>1 DEF SoleYoungest
  <2>4. fleets[j].life = "live"
    BY <1>1, <1>2, <2>2, <2>3, UserDeletesAreCounted DEF YoungestIsLive
  <2>5. QED
    BY <1>2, <2>2, <2>3, <2>4, YoungestStays
<1>5. QED
  BY <1>3, <1>4

LEMMA UpgradeInvInit == Init => UpgradeInv
<1> SUFFICES ASSUME Init PROVE UpgradeInv
  OBVIOUS
<1>1. /\ fleets = [i \in Ids |-> NoFleet] /\ known = fleets /\ Len(fEvents) = 0
      /\ f = NoCopy /\ pc = "idle" /\ gametype = NoGameType /\ cGametype = NoGameType
      /\ gWatch = {}
  BY EmptySeq DEF Init
<1>2. \A i \in Ids : ~Born(i)
  BY <1>1 DEF Born, NoFleet
<1>3. \A c \in Copies : c.fleet = NoFleet
  BY <1>1 DEF Copies, Copy, NoCopy
<1>4. NoFleet.life = "none"
  BY DEF NoFleet
<1>5. FleetVersionsAreUnique /\ KnownAreBorn
  BY <1>3, <1>4 DEF FleetVersionsAreUnique, KnownAreBorn, Fits, Exists
<1>6. BornInOrder /\ OneIsTheLast /\ DeletesAnOlderOne /\ YoungestIsLive /\ DeletionWasSeen
  BY <1>1, <1>2 DEF BornInOrder, OneIsTheLast, DeletesAnOlderOne, YoungestIsLive,
                    SoleYoungest, DeletionWasSeen, DeletionSteps
<1>7. DoomIsFinal
  BY <1>1, NothingStored DEF DoomIsFinal, Doomed
<1>8. QED
  BY <1>5, <1>6, <1>7, GametypeInvInit DEF UpgradeInv

LEMMA UpgradeInvStep == UpgradeInv /\ [Next]_vars => UpgradeInv'
<1> SUFFICES ASSUME UpgradeInv, [Next]_vars PROVE UpgradeInv'
  OBVIOUS
<1>1. GametypeInv'
  BY GametypeInvStep DEF UpgradeInv
<1>2. TypeOK'
  BY <1>1 DEF GametypeInv
<1>3. KnownAreBorn' /\ FleetVersionsAreUnique'
  BY <1>2, FleetVersionsStep DEF UpgradeInv, GametypeInv
<1>4. BornInOrder' /\ OneIsTheLast' /\ DoomIsFinal' /\ DeletionWasSeen' /\ DeletesAnOlderOne'
  BY BornInOrderStep, OneIsTheLastStep, DoomIsFinalStep, DeletionWasSeenStep,
     DeletesAnOlderOneStep DEF UpgradeInv, GametypeInv
<1>5. YoungestIsLive'
  BY <1>2, <1>4, YoungestIsLiveStep
<1>6. QED
  BY <1>1, <1>3, <1>4, <1>5 DEF UpgradeInv

\* If no other fleet is as young as the youngest, it is younger than all others.
LEMMA UntiedYoungest ==
    ASSUME TypeOK, BornInOrder, OneIsTheLast, ~YoungestTied, NEW i \in Ids, Born(i)
    PROVE  \E j \in Ids : SoleYoungest(j)
<1>1. PICK j \in Ids : Born(j) /\ \A k \in Ids : Born(k) => k <= j
  BY DEF OneIsTheLast
<1>2. ASSUME NEW k \in Ids, Born(k) PROVE ts[k] <= ts[j]
  <2>1. k < j \/ k = j
    BY <1>1, <1>2 DEF Ids
  <2>2. CASE k < j
    BY <1>1, <2>2 DEF BornInOrder
  <2>3. CASE k = j
    BY <2>3 DEF TypeOK
  <2>4. QED
    BY <2>1, <2>2, <2>3
<1>3. \A k \in Ids : k \in Ids \ Unborn <=> Born(k)
  BY DEF Unborn, Born
<1>4. j \in Youngest(Ids \ Unborn)
  BY <1>1, <1>2, <1>3 DEF Youngest
<1>5. ASSUME NEW k \in Ids, Born(k), k # j PROVE ts[k] < ts[j]
  <2>1. ts[k] \in Nat /\ ts[j] \in Nat
    BY DEF TypeOK
  <2>2. CASE ts[k] = ts[j]
    <3>1. k \in Youngest(Ids \ Unborn)
      BY <1>2, <1>3, <1>5, <2>2 DEF Youngest
    <3>2. QED
      BY <1>4, <1>5, <3>1 DEF YoungestTied
  <2>3. QED
    BY <1>2, <1>5, <2>1, <2>2
<1>6. QED
  BY <1>1, <1>5 DEF SoleYoungest

\* However stale the list that handleUpdating took the oldest fleet from, and
\* however many fleets, edits, faults and crashes there are: it deletes the last
\* live fleet only if the youngest fleets share a timestamp, or users have
\* deleted fleets themselves.
THEOREM UpgradeKeepsAFleetCorrect == Spec => UpgradeKeepsAFleet
<1>1. UpgradeInv /\ [Next]_vars => [TakesLastFleet => YoungestTied]_vars
  <2>1. SUFFICES ASSUME UpgradeInv, [Next]_vars, TakesLastFleet, ~YoungestTied
                 PROVE  FALSE
    OBVIOUS
  <2>2. TypeOK /\ BornInOrder /\ OneIsTheLast /\ YoungestIsLive
    BY <2>1 DEF UpgradeInv, GametypeInv
  <2>3. PICK i \in Ids : Born(i)
    BY <2>1 DEF TakesLastFleet, LiveFleets, Born
  <2>4. PICK j \in Ids : SoleYoungest(j)
    BY <2>1, <2>2, <2>3, UntiedYoungest
  <2>5. userDeletes' = 0 /\ userDeletes = 0 /\ pc \in UpdatingSteps
    BY <2>1, <2>2, UserDeletesAreCounted DEF TakesLastFleet, UpdatingSteps
  <2>6. fleets[j].life = "live"
    BY <2>2, <2>4, <2>5 DEF YoungestIsLive
  <2>7. fleets'[j].life = "live"
    BY <2>1, <2>4, <2>5, <2>6, YoungestStays
  <2>8. QED
    BY <2>1, <2>7 DEF TakesLastFleet, LiveFleets
<1>2. UpgradeInv /\ [Next]_vars => UpgradeInv'
  BY UpgradeInvStep
<1>3. QED
  BY <1>1, <1>2, UpgradeInvInit, PTL DEF Spec, UpgradeKeepsAFleet

=============================================================================
