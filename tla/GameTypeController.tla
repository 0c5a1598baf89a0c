------------------------- MODULE GameTypeController -------------------------
(***************************************************************************)
(* The GameType controller of the operator: one GameType and its fleets.   *)
(*                                                                         *)
(* As in ServerController and FleetController: informer caches that lag,   *)
(* optimistic concurrency, one call per step.  A fleet is seen through its *)
(* life ("none", "live", "terminating", "gone"), and the pod template and  *)
(* replica count it was given.                                             *)
(***************************************************************************)
EXTENDS Integers, FiniteSets, Sequences

CONSTANTS
    MaxFleets,       \* bound on the fleets ever created; then Create fails
    Templates,       \* values of Spec.FleetSpec.ServerSpec.Pod
    Replicas,        \* values of Spec.FleetSpec.Scaling.Replicas
    MaxEdits,        \* bound on edits of the GameType's spec
    MaxDisturbances  \* bound on failed calls, crashes, fleets users delete,
                     \* writes of the fleet controller, fleets made in the
                     \* same second and their mix-ups together

ASSUME GameTypeAssumption ==
    /\ MaxFleets \in Nat /\ MaxEdits \in Nat /\ MaxDisturbances \in Nat
    /\ Templates # {}
    /\ Replicas \subseteq Int /\ Replicas # {}

Ids == 1..MaxFleets

VARIABLES
    gametype, cGametype, gWatch,  \* API copy, cached copy, undelivered versions
    fleets, ts,                   \* the fleets in the API, CreationTimestamps
    known, fEvents,               \* the cached fleets, the undelivered events
    queued,                       \* the game type's key is in the work queue
    pc, g, f, todo,               \* the running Reconcile: next call, locals
    edits, userDeletes, disturbances,
    unseen  \* history: the fleets the cache had not shown when handleDeletion
            \* last listed the fleets and found none

gametypeVars == <<gametype, gWatch>>
fleetVars == <<fleets, ts, fEvents>>
cacheVars == <<cGametype, known>>
workerVars == <<queued, pc, g, f, todo>>
budgetVars == <<edits, userDeletes, disturbances>>
vars == <<gametypeVars, fleetVars, cacheVars, workerVars, budgetVars, unseen>>

-----------------------------------------------------------------------------
(* Objects and calls of the API server *)

AnyTemplate == CHOOSE t \in Templates : TRUE
AnyReplicas == CHOOSE n \in Replicas : TRUE

\* current and currentReplicas: Status.CurrentFleetName (0 for "") and
\* Status.CurrentFleetReplicas.
GameTypes == [ex : BOOLEAN, fin : BOOLEAN, del : BOOLEAN, template : Templates,
              replicas : Replicas, current : 0..MaxFleets,
              currentReplicas : Int, rv : Nat]

NoGameType == [ex |-> FALSE, fin |-> FALSE, del |-> FALSE,
               template |-> AnyTemplate, replicas |-> AnyReplicas,
               current |-> 0, currentReplicas |-> 0, rv |-> 0]

Fleets == [life : {"none", "live", "terminating", "gone"}, template : Templates,
           replicas : Replicas, rv : Nat]

NoFleet == [life |-> "none", template |-> AnyTemplate, replicas |-> AnyReplicas,
            rv |-> 0]

SettleGametype(t) ==
    IF t.del /\ ~t.fin THEN [NoGameType EXCEPT !.rv = t.rv] ELSE t

\* Nothing is left of a fleet that is gone; its name is not used again.
SettleFleet(fleet) ==
    IF fleet.life = "gone" THEN [NoFleet EXCEPT !.life = "gone"] ELSE fleet

\* A write that changes nothing creates no version and no watch event.
WriteGametype(t) ==
    IF t = gametype THEN UNCHANGED gametypeVars
    ELSE /\ gametype' = SettleGametype([t EXCEPT !.rv = gametype.rv + 1])
         /\ gWatch' = gWatch \cup {gametype'}

StoreFleet(i, fleet) ==
    /\ fleets' = [fleets EXCEPT ![i] = SettleFleet([fleet EXCEPT !.rv = fleets[i].rv + 1])]
    /\ fEvents' = Append(fEvents, [id |-> i, fleet |-> fleets'[i]])

WriteFleet(i, fleet) ==
    IF fleet = fleets[i] THEN UNCHANGED <<fleets, fEvents>> ELSE StoreFleet(i, fleet)

Exists(fleet) == fleet.life \in {"live", "terminating"}

\* Update is refused unless it is based on the stored version.
GametypeCurrent == gametype.ex /\ gametype.rv = g.rv
FleetCurrent == Exists(fleets[f.id]) /\ fleets[f.id].rv = f.fleet.rv

\* Delete by name: a fleet with FLEET_FINALIZER starts to terminate, one that
\* has none yet is gone at once, a second request changes nothing.
RequestDeletion(i) ==
    \/ /\ fleets[i].life = "live"
       /\ \E l \in {"terminating", "gone"} : WriteFleet(i, [fleets[i] EXCEPT !.life = l])
    \/ fleets[i].life = "terminating" /\ UNCHANGED <<fleets, fEvents>>

Unborn == {i \in Ids : fleets[i].life = "none"}
LiveFleets == {i \in Ids : fleets[i].life = "live"}

\* A CreationTimestamp is in whole seconds: a fleet may share that of the one
\* made before it.
NextTimes(i) == IF i = 1 THEN {1} ELSE {ts[i - 1], ts[i - 1] + 1}

\* GetFleetObjectForType and Create: the fleet gets the game type's FleetSpec.
StoreNewFleet ==
    \E i \in Unborn :
        /\ \A u \in Unborn : i <= u
        /\ WriteFleet(i, [NoFleet EXCEPT !.life = "live", !.template = g.template,
                                         !.replicas = g.replicas])
        /\ \E t \in NextTimes(i) : ts' = [ts EXCEPT ![i] = t]

-----------------------------------------------------------------------------
(* The worker: one Reconcile, call by call *)

Steps == {"idle", "addFinalizer", "handleGametypeStatus", "updateFleetStatus",
          "getFleet", "updateStatus", "handleUpdating", "createFleet",
          "updateCurrent", "updateFleet", "updateReplicas", "deleteOldest",
          "listForDeletion", "deleteFleets", "relistForDeletion",
          "removeFinalizer"}

\* GetFleetsForType: what the cache lists for this game type, in no order.
GetFleetsForType == {i \in Ids : Exists(known[i])}

\* The loops over the list keep a fleet unless another one beats it strictly.
Youngest(list) == {i \in list : \A j \in list : ts[j] <= ts[i]}
Oldest(list) == {i \in list : \A j \in list : ts[i] <= ts[j]}

\* The youngest of the fleets ever created are several, of the same second.
YoungestTied == \E i, j \in Youngest(Ids \ Unborn) : i # j

\* The Go local fleet, a copy of a cached one; id 0 when there is none.
Copy(i) == [id |-> i, fleet |-> known[i]]
NoCopy == [id |-> 0, fleet |-> NoFleet]

Return(again) ==
    /\ pc' = "idle"
    /\ g' = NoGameType
    /\ f' = NoCopy
    /\ todo' = {}
    /\ queued' = (queued \/ again)

Goto(step) == pc' = step

Disturb ==
    /\ userDeletes + disturbances < MaxDisturbances
    /\ disturbances' = disturbances + 1
    /\ UNCHANGED <<edits, userDeletes>>

\* A game type that is not found is an error here, and is tried again for ever.
Reconcile ==
    /\ pc = "idle"
    /\ queued
    /\ \/ ~cGametype.ex /\ Return(TRUE)
       \/ /\ cGametype.ex
          /\ queued' = FALSE
          /\ g' = cGametype
          /\ Goto(IF cGametype.del THEN "listForDeletion"
                  ELSE IF ~cGametype.fin THEN "addFinalizer" ELSE "handleGametypeStatus")
          /\ UNCHANGED <<f, todo>>
    /\ UNCHANGED <<gametypeVars, fleetVars, cacheVars, budgetVars, unseen>>

AddFinalizer ==
    /\ pc = "addFinalizer"
    /\ \/ GametypeCurrent /\ WriteGametype([g EXCEPT !.fin = TRUE])
       \/ ~GametypeCurrent /\ UNCHANGED gametypeVars
    /\ Return(TRUE)
    /\ UNCHANGED <<fleetVars, cacheVars, budgetVars, unseen>>

\* The youngest listed fleet becomes the current one, in the local copy only.
\* Of several that share a timestamp it is the first in the list: that it is
\* not the one the status names already can happen in every Reconcile, each
\* time with a new version of the game type, and counts as a disturbance.
HandleGametypeStatus ==
    /\ pc = "handleGametypeStatus"
    /\ \/ /\ GetFleetsForType = {}
          /\ Goto(IF g.current = 0 THEN "handleUpdating" ELSE "getFleet")
          /\ UNCHANGED <<g, f, budgetVars>>
       \/ \E i \in Youngest(GetFleetsForType) :
             /\ IF g.current \in Youngest(GetFleetsForType) \ {i} THEN Disturb
                ELSE UNCHANGED budgetVars
             /\ g' = [g EXCEPT !.current = i]
             /\ f' = Copy(i)
             /\ Goto("updateFleetStatus")
    /\ UNCHANGED <<gametypeVars, fleetVars, cacheVars, queued, todo, unseen>>

\* The status that is then written is the fleet's, and it has not changed: an
\* old copy of the fleet is a conflict, a current one a write without effect.
UpdateFleetStatus ==
    /\ pc = "updateFleetStatus"
    /\ \/ /\ FleetCurrent
          /\ Goto("getFleet")
          /\ f' = NoCopy
          /\ UNCHANGED <<queued, g, todo>>
       \/ ~FleetCurrent /\ Return(TRUE)
    /\ UNCHANGED <<gametypeVars, fleetVars, cacheVars, budgetVars, unseen>>

\* updateReplicaCount reads the current fleet by name.
GetFleet ==
    /\ pc = "getFleet"
    /\ \/ /\ g.current \in GetFleetsForType
          /\ g' = [g EXCEPT !.currentReplicas = known[g.current].replicas]
          /\ Goto("updateStatus")
          /\ UNCHANGED <<queued, f, todo>>
       \/ g.current \notin GetFleetsForType /\ Return(TRUE)
    /\ UNCHANGED <<gametypeVars, fleetVars, cacheVars, budgetVars, unseen>>

\* Status().Update(gametype); the answer refreshes the local copy.
WriteStatus ==
    /\ GametypeCurrent
    /\ WriteGametype([gametype EXCEPT !.current = g.current,
                                      !.currentReplicas = g.currentReplicas])

UpdateStatus ==
    /\ pc = "updateStatus"
    /\ \/ /\ WriteStatus
          /\ g' = gametype'
          /\ Goto("handleUpdating")
          /\ UNCHANGED <<queued, f, todo>>
       \/ ~GametypeCurrent /\ UNCHANGED gametypeVars /\ Return(TRUE)
    /\ UNCHANGED <<fleetVars, cacheVars, budgetVars, unseen>>

\* Mutant: a single fleet is already one too many.
Surplus_FromOne(list) == Cardinality(list) > 0

Surplus(list) == Cardinality(list) > 1

\* None listed: create the first.  One: see whether it fits.  More: an oldest
\* one has to go, and nothing else is looked at until it is gone.
HandleUpdating ==
    /\ pc = "handleUpdating"
    /\ LET list == GetFleetsForType IN
       \/ /\ list = {}
          /\ Goto("createFleet")
          /\ UNCHANGED <<queued, g, f, todo>>
       \/ /\ Cardinality(list) = 1
          /\ \E i \in list : f' = Copy(i) /\ g' = [g EXCEPT !.current = i]
          /\ Goto("updateCurrent")
          /\ UNCHANGED <<queued, todo>>
       \/ /\ Surplus(list)
          /\ \E i \in Oldest(list) :
                \/ /\ known[i].life = "live"
                   /\ todo' = {i}
                   /\ Goto("deleteOldest")
                   /\ UNCHANGED <<queued, g, f>>
                \/ known[i].life = "terminating" /\ Return(TRUE)
    /\ UNCHANGED <<gametypeVars, fleetVars, cacheVars, budgetVars, unseen>>

\* Mutant: only the pod template is looked at.
ReplicasDiffer_Never == FALSE

ReplicasDiffer == g.replicas # g.currentReplicas

\* AreFleetsPodsEqual compares the pod templates; replicas are looked at only
\* when these are equal.
UpdateCurrent ==
    /\ pc = "updateCurrent"
    /\ \/ /\ WriteStatus
          /\ \/ /\ f.fleet.template # g.template
                /\ Goto("createFleet")
                /\ g' = gametype'
                /\ UNCHANGED <<queued, f, todo>>
             \/ /\ f.fleet.template = g.template /\ ReplicasDiffer
                /\ Goto("updateFleet")
                /\ g' = [gametype' EXCEPT !.currentReplicas = g.replicas]
                /\ UNCHANGED <<queued, f, todo>>
             \/ f.fleet.template = g.template /\ ~ReplicasDiffer /\ Return(TRUE)
       \/ ~GametypeCurrent /\ UNCHANGED gametypeVars /\ Return(TRUE)
    /\ UNCHANGED <<fleetVars, cacheVars, budgetVars, unseen>>

\* handleCreation; after the first fleet the game type is queued again, after
\* the fleet of an upgrade it waits for the event of that fleet.  A fleet made
\* in the second of the one before counts as a disturbance.
CreateFleet ==
    /\ pc = "createFleet"
    /\ \/ /\ StoreNewFleet
          /\ IF YoungestTied' THEN Disturb ELSE UNCHANGED budgetVars
          /\ Return(f = NoCopy)
       \/ Unborn = {} /\ UNCHANGED <<fleetVars, budgetVars>> /\ Return(TRUE)
    /\ UNCHANGED <<gametypeVars, cacheVars, unseen>>

\* Mutant: the fleet is asked for one server more.
NewReplicas_OneMore == g.replicas + 1

NewReplicas == g.replicas

UpdateFleet ==
    /\ pc = "updateFleet"
    /\ \/ /\ FleetCurrent
          /\ WriteFleet(f.id, [f.fleet EXCEPT !.replicas = NewReplicas])
          /\ Goto("updateReplicas")
          /\ UNCHANGED <<queued, g, f, todo>>
       \/ ~FleetCurrent /\ UNCHANGED <<fleets, fEvents>> /\ Return(TRUE)
    /\ UNCHANGED <<gametypeVars, ts, cacheVars, budgetVars, unseen>>

UpdateReplicas ==
    /\ pc = "updateReplicas"
    /\ WriteStatus \/ (~GametypeCurrent /\ UNCHANGED gametypeVars)
    /\ Return(TRUE)
    /\ UNCHANGED <<fleetVars, cacheVars, budgetVars, unseen>>

DeleteOldest ==
    /\ pc = "deleteOldest"
    /\ \E i \in todo :
          RequestDeletion(i) \/ (~Exists(fleets[i]) /\ UNCHANGED <<fleets, fEvents>>)
    /\ Return(TRUE)
    /\ UNCHANGED <<gametypeVars, ts, cacheVars, budgetVars, unseen>>

\* Mutant: the loop starts with the second fleet of the list.
ToDelete_SkipsFirst == {i \in GetFleetsForType : \E j \in GetFleetsForType : j < i}

ToDelete == GetFleetsForType

\* handleDeletion: without the finalizer there is nothing to do; otherwise
\* list, delete every fleet of the list, list again.
ListForDeletion ==
    /\ pc = "listForDeletion"
    /\ \/ ~g.fin /\ Return(TRUE)
       \/ /\ g.fin
          /\ todo' = ToDelete
          /\ Goto(IF ToDelete = {} THEN "relistForDeletion" ELSE "deleteFleets")
          /\ UNCHANGED <<queued, g, f>>
    /\ UNCHANGED <<gametypeVars, fleetVars, cacheVars, budgetVars, unseen>>

DeleteFleets ==
    /\ pc = "deleteFleets"
    /\ \E i \in todo :
          \/ /\ RequestDeletion(i)
             /\ todo' = todo \ {i}
             /\ Goto(IF todo = {i} THEN "relistForDeletion" ELSE "deleteFleets")
             /\ UNCHANGED <<queued, g, f>>
          \/ ~Exists(fleets[i]) /\ UNCHANGED <<fleets, fEvents>> /\ Return(TRUE)
    /\ UNCHANGED <<gametypeVars, ts, cacheVars, budgetVars, unseen>>

\* Mutant: the finalizer goes as soon as the fleets were told to go.
AllGone_NoWait == TRUE

AllGone == GetFleetsForType = {}

RelistForDeletion ==
    /\ pc = "relistForDeletion"
    /\ \/ /\ AllGone
          /\ Goto("removeFinalizer")
          /\ unseen' = {i \in Ids : known[i].life = "none"}
          /\ UNCHANGED <<queued, g, f, todo>>
       \/ ~AllGone /\ UNCHANGED unseen /\ Return(TRUE)
    /\ UNCHANGED <<gametypeVars, fleetVars, cacheVars, budgetVars>>

RemoveFinalizer ==
    /\ pc = "removeFinalizer"
    /\ \/ GametypeCurrent /\ WriteGametype([g EXCEPT !.fin = FALSE])
       \/ ~GametypeCurrent /\ UNCHANGED gametypeVars
    /\ Return(TRUE)
    /\ UNCHANGED <<fleetVars, cacheVars, budgetVars, unseen>>

Worker ==
    \/ Reconcile \/ AddFinalizer \/ HandleGametypeStatus \/ UpdateFleetStatus
    \/ GetFleet \/ UpdateStatus \/ HandleUpdating \/ UpdateCurrent \/ CreateFleet
    \/ UpdateFleet \/ UpdateReplicas \/ DeleteOldest \/ ListForDeletion
    \/ DeleteFleets \/ RelistForDeletion \/ RemoveFinalizer

\* A call fails, or its answer is lost: the call after a write "fails".
CallFails ==
    /\ Disturb
    /\ pc \notin {"idle", "handleGametypeStatus", "listForDeletion"}
    /\ UNCHANGED fleetVars \/ (pc = "createFleet" /\ StoreNewFleet)
    /\ Return(TRUE)
    /\ UNCHANGED <<gametypeVars, cacheVars, unseen>>

\* The operator restarts: it lists everything and reconciles what it finds.
Crash ==
    /\ Disturb
    /\ pc' = "idle" /\ g' = NoGameType /\ f' = NoCopy /\ todo' = {}
    /\ cGametype' = gametype
    /\ gWatch' = {}
    /\ known' = fleets
    /\ fEvents' = <<>>
    /\ queued' = (gametype.ex \/ \E i \in Ids : Exists(fleets[i]))
    /\ UNCHANGED <<gametype, fleets, ts, unseen>>

-----------------------------------------------------------------------------
(* The watches, the user, the fleet controller, the garbage collector *)

DeliverGametype ==
    /\ \E v \in gWatch :
          /\ cGametype' = v
          /\ gWatch' = {w \in gWatch : w.rv > v.rv}
    /\ queued' = TRUE
    /\ UNCHANGED <<gametype, fleetVars, known, pc, g, f, todo, budgetVars, unseen>>

DeliverFleet ==
    /\ fEvents # <<>>
    /\ known' = [known EXCEPT ![Head(fEvents).id] = Head(fEvents).fleet]
    /\ fEvents' = Tail(fEvents)
    /\ queued' = TRUE
    /\ UNCHANGED <<gametypeVars, fleets, ts, cGametype, pc, g, f, todo, budgetVars, unseen>>

\* Templates and replicas are only compared for equality, so that any one
\* will do to start with.
CreateGametype ==
    /\ gametype.rv = 0
    /\ WriteGametype([NoGameType EXCEPT !.ex = TRUE])
    /\ UNCHANGED <<fleetVars, cacheVars, workerVars, budgetVars, unseen>>

\* A user edits the pod template or the replicas, an autoscaler the replicas.
EditGametype ==
    /\ gametype.ex
    /\ edits < MaxEdits
    /\ edits' = edits + 1
    /\ \/ \E t \in Templates \ {gametype.template} :
             WriteGametype([gametype EXCEPT !.template = t])
       \/ \E n \in Replicas \ {gametype.replicas} :
             WriteGametype([gametype EXCEPT !.replicas = n])
    /\ UNCHANGED <<fleetVars, cacheVars, workerVars, userDeletes, disturbances, unseen>>

\* By a user or the service's handler.  A forced request goes on to delete
\* fleets under the name of the game type, which no fleet of it has.
DeleteGametype ==
    /\ gametype.ex /\ ~gametype.del
    /\ WriteGametype([gametype EXCEPT !.del = TRUE])
    /\ UNCHANGED <<fleetVars, cacheVars, workerVars, budgetVars, unseen>>

UserDeletesFleet ==
    /\ userDeletes + disturbances < MaxDisturbances
    /\ userDeletes' = userDeletes + 1
    /\ \E i \in LiveFleets : RequestDeletion(i)
    /\ UNCHANGED <<gametypeVars, ts, cacheVars, workerVars, edits, disturbances, unseen>>

\* The fleet controller writes the fleet's finalizer or status: a new version.
FleetReports ==
    /\ Disturb
    /\ \E i \in LiveFleets : StoreFleet(i, fleets[i])
    /\ UNCHANGED <<gametypeVars, ts, cacheVars, workerVars, unseen>>

\* The fleet controller takes its finalizer off, unless a stuck server holds
\* the fleet: see Fairness.
FleetFinalised ==
    /\ \E i \in Ids : /\ fleets[i].life = "terminating"
                      /\ WriteFleet(i, [fleets[i] EXCEPT !.life = "gone"])
    /\ UNCHANGED <<gametypeVars, ts, cacheVars, workerVars, budgetVars, unseen>>

\* The garbage collector deletes fleets whose owner is gone.
CollectGarbage ==
    /\ gametype.rv > 0 /\ ~gametype.ex
    /\ \E i \in LiveFleets : RequestDeletion(i)
    /\ UNCHANGED <<gametypeVars, ts, cacheVars, workerVars, budgetVars, unseen>>

Environment ==
    \/ DeliverGametype \/ DeliverFleet \/ CreateGametype \/ EditGametype
    \/ DeleteGametype \/ UserDeletesFleet \/ FleetReports \/ FleetFinalised
    \/ CollectGarbage

-----------------------------------------------------------------------------

Init ==
    /\ gametype = NoGameType /\ cGametype = NoGameType /\ gWatch = {}
    /\ fleets = [i \in Ids |-> NoFleet] /\ known = fleets /\ fEvents = <<>>
    /\ ts = [i \in Ids |-> 0]
    /\ queued = FALSE
    /\ pc = "idle" /\ g = NoGameType /\ f = NoCopy /\ todo = {}
    /\ edits = 0 /\ userDeletes = 0 /\ disturbances = 0
    /\ unseen = {}

Next == Worker \/ CallFails \/ Crash \/ Environment

Spec == Init /\ [][Next]_vars

\* Workers and informers keep running.  Nothing is assumed of FleetFinalised: a
\* fleet is not finalised while one of its servers is stuck (see
\* FleetDeletionCompletes of FleetController), so the properties below name the
\* fleets that stay.
Fairness ==
    /\ WF_vars(Worker)
    /\ WF_vars(DeliverGametype)
    /\ WF_vars(DeliverFleet)

FairSpec == Spec /\ Fairness

-----------------------------------------------------------------------------
(* Properties *)

TypeOK ==
    /\ gametype \in GameTypes /\ cGametype \in GameTypes /\ gWatch \subseteq GameTypes
    /\ fleets \in [Ids -> Fleets] /\ known \in [Ids -> Fleets]
    /\ ts \in [Ids -> Nat]
    /\ fEvents \in Seq([id : Ids, fleet : Fleets])
    /\ queued \in BOOLEAN
    /\ pc \in Steps /\ g \in GameTypes
    /\ f \in [id : 0..MaxFleets, fleet : Fleets]
    /\ todo \subseteq Ids
    /\ edits \in 0..MaxEdits
    /\ userDeletes \in 0..MaxDisturbances /\ disturbances \in 0..MaxDisturbances
    /\ unseen \subseteq Ids

\* handleUpdating deletes the only live fleet, and no user has deleted any.
TakesLastFleet ==
    pc = "deleteOldest" /\ LiveFleets # {} /\ LiveFleets' = {} /\ userDeletes' = 0

\* An upgrade takes the last fleet only if the youngest fleets share a
\* timestamp: otherwise, when handleUpdating deletes the oldest fleet of a list
\* that may be stale, another live fleet remains.
UpgradeKeepsAFleet == [][TakesLastFleet => YoungestTied]_vars

\* When the game type goes, the only fleets it leaves behind are ones whose
\* creation the cache had not shown when handleDeletion listed for the last
\* time: all others were waited for.
OnlyUnseenLeftBehind ==
    pc = "removeFinalizer" \/ (gametype.rv > 0 /\ ~gametype.ex)
        => \A i \in Ids : Exists(fleets[i]) => i \in unseen

\* A fleet that is never finalised, because one of its servers is stuck.
FleetStaysTerminating == \E i \in Ids : <>[](fleets[i].life = "terminating")

\* A game type that is deleted is finalised in the end, unless one of its
\* fleets never is: handleDeletion requeues until its fleets are gone.
GametypeDeletionCompletes == FleetStaysTerminating \/ <>[](~gametype.del)

\* What a game type that is not edited any more settles in: one fleet, with
\* the template and the replicas of the spec, which the status names.
Settled ==
    \E i \in Ids :
        /\ {j \in Ids : Exists(fleets[j])} = {i}
        /\ fleets[i].template = gametype.template
        /\ fleets[i].replicas = gametype.replicas
        /\ gametype.current = i
        /\ gametype.currentReplicas = gametype.replicas

\* However stale the lists that handleUpdating and handleGametypeStatus act
\* on, and whatever surplus fleets they create, edits of template and replicas
\* take effect in the end.  The exceptions: Creates are refused for ever, an old
\* fleet is never finalised, users delete fleets themselves, or the youngest
\* fleets share a timestamp, so that either of them may be taken for the oldest.
UpgradeSettles ==
    \/ []<>(pc = "createFleet" /\ Unborn = {})
    \/ FleetStaysTerminating
    \/ <>[](gametype.ex /\ ~gametype.del /\ userDeletes = 0 /\ ~YoungestTied
            => Settled)

-----------------------------------------------------------------------------
(* What documentation/docs/ says and the code does not do *)

\* gametype.md: "Once the new fleet is running and stable, the old fleet is
\* triggered for deletion": an upgrade never takes the last fleet.
UpgradeLeavesAFleet == [][~TakesLastFleet]_vars

\* architecture.md: a game type "manages one or two fleets": one that lost its
\* fleet gets a new one, once the old one has been finalised.
FleetIsReplaced ==
    \/ FleetStaysTerminating
    \/ gametype.ex /\ ~gametype.del /\ LiveFleets = {}
           ~> LiveFleets # {} \/ gametype.del \/ ~gametype.ex \/ Unborn = {}

=============================================================================
