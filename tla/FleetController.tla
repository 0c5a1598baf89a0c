-------------------------- MODULE FleetController --------------------------
(***************************************************************************)
(* The Fleet controller of the operator, one Fleet and its servers.        *)
(*                                                                         *)
(* The objects live in the API server; the controller reads informer       *)
(* caches that lag behind, writes the fleet with optimistic concurrency    *)
(* and makes one call per step, as in ServerController.  A server is seen  *)
(* through its life of module ServerLife: the fleet creates it and asks    *)
(* for its deletion, the server controller gives it a pod and finalises    *)
(* it, but only while it finds that pod (server_controller.go:184): a      *)
(* server that terminates without one is stuck.  The watch of the servers  *)
(* is one ordered stream (sEvents).                                        *)
(***************************************************************************)
EXTENDS Integers, FiniteSets, FleetSelection

CONSTANTS
    MaxServers,        \* bound on the servers ever created; then Create fails
    Replicas,          \* the values of Spec.Scaling.Replicas that users write
    PrioritizeAllowed, \* Spec.Scaling.PrioritizeAllowed
    AgePriority,       \* Spec.Scaling.AgePriority
    MaxEdits,          \* bound on edits of Replicas
    MaxDisturbances    \* bound on failed calls, crashes, lost pods and
                       \* servers users delete

ASSUME FleetAssumption ==
    /\ MaxServers \in Nat /\ MaxEdits \in Nat /\ MaxDisturbances \in Nat
    /\ Replicas \subseteq Int /\ Replicas # {}
    /\ PrioritizeAllowed \in BOOLEAN

Ids == 1..MaxServers

VARIABLES
    fleet, cFleet, fWatch,   \* API copy, cached copy, undelivered versions
    life,                    \* the servers in the API
    pods,                    \* the servers whose pod the operator's cache shows
    known, sEvents,          \* the cached lives and the undelivered events
    queued,                  \* the fleet's key is in the work queue
    pc, fl, need, todo,      \* the running Reconcile: next call and locals
    edits, disturbances,
    unseen  \* history: the servers the cache had not shown when handleDeletion
            \* last listed the fleet's servers and found none

fleetVars == <<fleet, fWatch>>
serverVars == <<life, sEvents, pods>>
cacheVars == <<cFleet, known>>
workerVars == <<queued, pc, fl, need, todo>>
budgetVars == <<edits, disturbances>>
vars == <<fleetVars, serverVars, cacheVars, workerVars, budgetVars, unseen>>

-----------------------------------------------------------------------------
(* Objects and calls of the API server *)

Fleets == [ex : BOOLEAN, fin : BOOLEAN, del : BOOLEAN, replicas : Int,
           current : Nat, rv : Nat]

\* current: Status.CurrentReplicas, replicas: Spec.Scaling.Replicas.
NoFleet == [ex |-> FALSE, fin |-> FALSE, del |-> FALSE, replicas |-> 0,
            current |-> 0, rv |-> 0]

Lives == {"none", "live", "terminating", "gone"}

SettleFleet(f) == IF f.del /\ ~f.fin THEN [NoFleet EXCEPT !.rv = f.rv] ELSE f

WriteFleet(f) ==
    IF f = fleet THEN UNCHANGED fleetVars
    ELSE /\ fleet' = SettleFleet([f EXCEPT !.rv = fleet.rv + 1])
         /\ fWatch' = fWatch \cup {fleet'}

FleetCurrent == fleet.ex /\ fleet.rv = fl.rv

SetLife(s, l) ==
    /\ life' = [life EXCEPT ![s] = l]
    /\ sEvents' = Append(sEvents, [server |-> s, life |-> l])
    /\ pods' = IF l = "gone" THEN pods \ {s} ELSE pods

\* Delete of a server by name: one that the server controller has given its
\* finalizer starts to terminate, one that has none yet, and so no pod, is
\* gone at once, and a second request changes nothing.
RequestDeletion(s) ==
    \/ life[s] = "live" /\ SetLife(s, "terminating")
    \/ life[s] = "live" /\ s \notin pods /\ SetLife(s, "gone")
    \/ life[s] = "terminating" /\ UNCHANGED serverVars

Exists(s) == life[s] \in {"live", "terminating"}
Live == {s \in Ids : life[s] = "live"}

\* handleDeletion of the server controller fails for these, every time.
Stuck == {s \in Ids : life[s] = "terminating" /\ s \notin pods}
Unborn == {s \in Ids : life[s] = "none"}

\* CreateServerForFleet and Create; the servers are numbered as they come.
StoreNewServer == \E s \in Unborn : (\A u \in Unborn : s <= u) /\ SetLife(s, "live")

CreationTimestamp == [s \in Ids |-> s]

-----------------------------------------------------------------------------
(* The worker: one Reconcile, call by call *)

Steps == {"idle", "addFinalizer", "getServers", "createServer",
          "findDeleteServer", "deleteServer", "relist", "statusUpdate",
          "listForDeletion", "deleteServers", "relistForDeletion",
          "removeFinalizer"}

\* getServers: what the cache lists for this fleet.
getServers == {s \in Ids : known[s] \in {"live", "terminating"}}

Return(again) ==
    /\ pc' = "idle"
    /\ fl' = NoFleet
    /\ need' = 0
    /\ todo' = {}
    /\ queued' = (queued \/ again)

Goto(step) == pc' = step

\* Mutant: servers are created before the finalizer is there.
FirstStep_NoFinalizer == IF cFleet.del THEN "listForDeletion" ELSE "getServers"

FirstStep ==
    IF cFleet.del THEN "listForDeletion"
    ELSE IF ~cFleet.fin THEN "addFinalizer" ELSE "getServers"

\* A fleet that is not found is an error here, and is tried again for ever.
Reconcile ==
    /\ pc = "idle"
    /\ queued
    /\ \/ ~cFleet.ex /\ Return(TRUE)
       \/ /\ cFleet.ex
          /\ queued' = FALSE
          /\ fl' = cFleet
          /\ Goto(FirstStep)
          /\ UNCHANGED <<need, todo>>
    /\ UNCHANGED <<fleetVars, serverVars, cacheVars, budgetVars, unseen>>

AddFinalizer ==
    /\ pc = "addFinalizer"
    /\ \/ FleetCurrent /\ WriteFleet([fl EXCEPT !.fin = TRUE])
       \/ ~FleetCurrent /\ UNCHANGED fleetVars
    /\ Return(TRUE)
    /\ UNCHANGED <<serverVars, cacheVars, budgetVars, unseen>>

\* Mutant: the comparison is off by one.
TooFew_OffByOne(n) == n < fl.replicas - 1

TooFew(n) == n < fl.replicas

\* The first list decides between scaling up, scaling down and neither.
CountServers ==
    /\ pc = "getServers"
    /\ LET n == Cardinality(getServers) IN
          /\ fl' = [fl EXCEPT !.current = n]
          /\ Goto(IF TooFew(n) THEN "createServer"
                  ELSE IF n > fl.replicas THEN "findDeleteServer" ELSE "statusUpdate")
          /\ need' = IF TooFew(n) THEN fl.replicas - n ELSE 0
    /\ UNCHANGED <<fleetVars, serverVars, cacheVars, queued, todo, budgetVars, unseen>>

\* Mutant: the loop makes one round too many.
LastRound_OneMore == need = 0

LastRound == need = 1

\* One round of the loop that scales up.
CreateServer ==
    /\ pc = "createServer"
    /\ \/ /\ StoreNewServer
          /\ need' = need - 1
          /\ Goto(IF LastRound THEN "relist" ELSE "createServer")
          /\ UNCHANGED <<queued, fl, todo>>
       \/ /\ Unborn = {}
          /\ UNCHANGED serverVars
          /\ Return(TRUE)
    /\ UNCHANGED <<fleetVars, cacheVars, budgetVars, unseen>>

\* What the pod cache and the sidecars say at that moment, if they are asked.
\* The pod of a server that is being finalised or is gone may be there or not.
AnswersNow ==
    IF ~PrioritizeAllowed THEN [getServers -> {"no"}]
    ELSE {answer \in [getServers -> Answers] : \A s \in getServers :
             /\ s \in Live \cap pods => answer[s] # "noPod"
             /\ Exists(s) /\ s \notin pods => answer[s] = "noPod"}

\* Scaling down lists the servers again and picks one.
PickServer ==
    /\ pc = "findDeleteServer"
    /\ \E answer \in AnswersNow :
          /\ ~ChoiceFails(AgePriority, PrioritizeAllowed, getServers, answer)
          /\ \E s \in Eligible(AgePriority, PrioritizeAllowed, getServers,
                               CreationTimestamp, answer) :
                todo' = {s}
    /\ Goto("deleteServer")
    /\ UNCHANGED <<queued, fl, need>>
    /\ UNCHANGED <<fleetVars, serverVars, cacheVars, budgetVars, unseen>>

PickFails ==
    /\ pc = "findDeleteServer"
    /\ \E answer \in AnswersNow :
          ChoiceFails(AgePriority, PrioritizeAllowed, getServers, answer)
    /\ Return(TRUE)
    /\ UNCHANGED <<fleetVars, serverVars, cacheVars, budgetVars, unseen>>

DeleteServer ==
    /\ pc = "deleteServer"
    /\ \E s \in todo :
          \/ /\ RequestDeletion(s)
             /\ Goto("relist")
             /\ todo' = {}
             /\ UNCHANGED <<queued, fl, need>>
          \/ ~Exists(s) /\ UNCHANGED serverVars /\ Return(TRUE)
    /\ UNCHANGED <<fleetVars, cacheVars, budgetVars, unseen>>

Relist ==
    /\ pc = "relist"
    /\ fl' = [fl EXCEPT !.current = Cardinality(getServers)]
    /\ Goto("statusUpdate")
    /\ UNCHANGED <<fleetVars, serverVars, cacheVars, queued, need, todo, budgetVars, unseen>>

StatusUpdate ==
    /\ pc = "statusUpdate"
    /\ \/ FleetCurrent /\ WriteFleet([fleet EXCEPT !.current = fl.current])
       \/ ~FleetCurrent /\ UNCHANGED fleetVars
    /\ Return(TRUE)
    /\ UNCHANGED <<serverVars, cacheVars, budgetVars, unseen>>

\* Mutant: the loop starts with the second server of the list.
ToDelete_SkipsFirst == {s \in getServers : \E t \in getServers : t < s}

ToDelete == getServers

\* handleDeletion: list, delete every server of the list, list again.
ListForDeletion ==
    /\ pc = "listForDeletion"
    /\ todo' = ToDelete
    /\ Goto(IF ToDelete = {} THEN "relistForDeletion" ELSE "deleteServers")
    /\ UNCHANGED <<fleetVars, serverVars, cacheVars, queued, fl, need, budgetVars, unseen>>

DeleteServers ==
    /\ pc = "deleteServers"
    /\ \E s \in todo :
          \/ /\ RequestDeletion(s)
             /\ todo' = todo \ {s}
             /\ Goto(IF todo = {s} THEN "relistForDeletion" ELSE "deleteServers")
             /\ UNCHANGED <<queued, fl, need>>
          \/ ~Exists(s) /\ UNCHANGED serverVars /\ Return(TRUE)
    /\ UNCHANGED <<fleetVars, cacheVars, budgetVars, unseen>>

\* Mutant: the finalizer goes as soon as the servers were told to go.
AllGone_NoWait == TRUE

AllGone == getServers = {}

RelistForDeletion ==
    /\ pc = "relistForDeletion"
    /\ \/ /\ AllGone
          /\ Goto("removeFinalizer")
          /\ unseen' = {s \in Ids : known[s] = "none"}
          /\ UNCHANGED <<queued, fl, need, todo>>
       \/ ~AllGone /\ UNCHANGED unseen /\ Return(TRUE)
    /\ UNCHANGED <<fleetVars, serverVars, cacheVars, budgetVars>>

RemoveFinalizer ==
    /\ pc = "removeFinalizer"
    /\ \/ FleetCurrent /\ WriteFleet([fl EXCEPT !.fin = FALSE])
       \/ ~FleetCurrent /\ UNCHANGED fleetVars
    /\ Return(TRUE)
    /\ UNCHANGED <<serverVars, cacheVars, budgetVars, unseen>>

Worker ==
    \/ Reconcile \/ AddFinalizer \/ CountServers \/ CreateServer \/ PickServer
    \/ PickFails \/ DeleteServer \/ Relist \/ StatusUpdate \/ ListForDeletion
    \/ DeleteServers \/ RelistForDeletion \/ RemoveFinalizer

Disturb ==
    /\ disturbances < MaxDisturbances
    /\ disturbances' = disturbances + 1
    /\ UNCHANGED edits

\* A call fails, or its answer is lost: the call after a write "fails".
CallFails ==
    /\ Disturb
    /\ pc \notin {"idle", "getServers", "listForDeletion"}
    /\ Return(TRUE)
    /\ UNCHANGED <<fleetVars, serverVars, cacheVars, unseen>>

Crash ==
    /\ Disturb
    /\ pc' = "idle"
    /\ fl' = NoFleet
    /\ need' = 0
    /\ todo' = {}
    /\ cFleet' = fleet
    /\ fWatch' = {}
    /\ known' = life
    /\ sEvents' = <<>>
    /\ queued' = (fleet.ex \/ \E s \in Ids : Exists(s))
    /\ UNCHANGED <<fleet, life, pods, unseen>>

-----------------------------------------------------------------------------
(* The watches, the user, the server controller, the garbage collector *)

DeliverFleet ==
    /\ \E v \in fWatch :
          /\ cFleet' = v
          /\ fWatch' = {w \in fWatch : w.rv > v.rv}
    /\ queued' = TRUE
    /\ UNCHANGED <<fleet, serverVars, known, pc, fl, need, todo, budgetVars, unseen>>

DeliverServer ==
    /\ sEvents # <<>>
    /\ known' = [known EXCEPT ![Head(sEvents).server] = Head(sEvents).life]
    /\ sEvents' = Tail(sEvents)
    /\ queued' = TRUE
    /\ UNCHANGED <<fleetVars, life, pods, cFleet, pc, fl, need, todo, budgetVars, unseen>>

CreateFleet ==
    /\ fleet.rv = 0
    /\ \E n \in Replicas : WriteFleet([NoFleet EXCEPT !.ex = TRUE, !.replicas = n])
    /\ UNCHANGED <<serverVars, cacheVars, workerVars, budgetVars, unseen>>

EditReplicas ==
    /\ fleet.ex
    /\ edits < MaxEdits
    /\ edits' = edits + 1
    /\ \E n \in Replicas \ {fleet.replicas} : WriteFleet([fleet EXCEPT !.replicas = n])
    /\ UNCHANGED <<serverVars, cacheVars, workerVars, disturbances, unseen>>

\* By the game type controller, a user or the service's handler.  A forced
\* request lists fleets where it should list servers, and finds none to tell.
DeleteFleet ==
    /\ fleet.ex /\ ~fleet.del
    /\ WriteFleet([fleet EXCEPT !.del = TRUE])
    /\ UNCHANGED <<serverVars, cacheVars, workerVars, budgetVars, unseen>>

UserDeletesServer ==
    /\ Disturb
    /\ \E s \in Live : RequestDeletion(s)
    /\ UNCHANGED <<fleetVars, cacheVars, workerVars, unseen>>

\* The server controller creates the server's pod and its cache shows it
\* (ServerLife's StartPod), even when the server terminates, if that
\* Reconcile had read it before.
ServerGetsPod(s) ==
    /\ Exists(s) /\ s \notin pods
    /\ pods' = pods \cup {s}
    /\ UNCHANGED <<fleetVars, life, sEvents, cacheVars, workerVars, budgetVars, unseen>>

\* The pod is evicted, or the server controller has deleted it and then fails
\* to write the server.
PodLost ==
    /\ Disturb
    /\ \E s \in pods : pods' = pods \ {s}
    /\ UNCHANGED <<fleetVars, life, sEvents, cacheVars, workerVars, unseen>>

\* The server controller finds the pod of a terminating server and in the end
\* takes the finalizers off (ServerLife's Finalise).
ServerFinalised ==
    /\ \E s \in pods : life[s] = "terminating" /\ SetLife(s, "gone")
    /\ UNCHANGED <<fleetVars, cacheVars, workerVars, budgetVars, unseen>>

\* The garbage collector deletes servers whose owner, the fleet, is gone.
CollectGarbage ==
    /\ fleet.rv > 0 /\ ~fleet.ex
    /\ \E s \in Live : RequestDeletion(s)
    /\ UNCHANGED <<fleetVars, cacheVars, workerVars, budgetVars, unseen>>

Environment ==
    \/ DeliverFleet \/ DeliverServer \/ CreateFleet \/ EditReplicas \/ DeleteFleet
    \/ UserDeletesServer \/ (\E s \in Ids : ServerGetsPod(s)) \/ PodLost
    \/ ServerFinalised \/ CollectGarbage

-----------------------------------------------------------------------------

Init ==
    /\ fleet = NoFleet /\ cFleet = NoFleet /\ fWatch = {}
    /\ life = [s \in Ids |-> "none"] /\ known = life /\ sEvents = <<>> /\ pods = {}
    /\ queued = FALSE
    /\ pc = "idle" /\ fl = NoFleet /\ need = 0 /\ todo = {}
    /\ edits = 0 /\ disturbances = 0
    /\ unseen = {}

Next == Worker \/ CallFails \/ Crash \/ Environment

Spec == Init /\ [][Next]_vars

\* Workers and informers keep running, a server that stays wanted gets its pod
\* (PodEventuallyProtected of ServerController), and one that terminates while
\* its pod is there is finalised, unless a disturbance takes the pod away
\* (DeletionCompletes of ServerController).  Nothing is assumed of a server
\* that terminates without a pod: the code never finalises it.
Fairness ==
    /\ WF_vars(Worker)
    /\ WF_vars(DeliverFleet)
    /\ WF_vars(DeliverServer)
    /\ WF_vars(\E s \in Live : ServerGetsPod(s))
    /\ WF_vars(ServerFinalised)

FairSpec == Spec /\ Fairness

-----------------------------------------------------------------------------
(* Properties *)

TypeOK ==
    /\ fleet \in Fleets /\ cFleet \in Fleets /\ fWatch \subseteq Fleets
    /\ life \in [Ids -> Lives] /\ known \in [Ids -> Lives]
    /\ sEvents \in Seq([server : Ids, life : Lives])
    /\ pods \subseteq Ids
    /\ queued \in BOOLEAN
    /\ pc \in Steps /\ fl \in Fleets /\ need \in Nat /\ todo \subseteq Ids
    /\ edits \in 0..MaxEdits /\ disturbances \in 0..MaxDisturbances
    /\ unseen \subseteq Ids

\* A server is created only for a fleet that still exists and is held by
\* FLEET_FINALIZER, even when the fleet the loop of scaleServerCount works
\* from is old: no server is born an orphan.
NewServersAreOwned ==
    [][Unborn' # Unborn => fleet.ex /\ fleet.fin]_vars

\* When the fleet goes, the only servers it leaves behind are ones whose
\* creation the cache had not shown when handleDeletion listed for the last
\* time: all others were waited for.
OnlyUnseenLeftBehind ==
    pc = "removeFinalizer" \/ (fleet.rv > 0 /\ ~fleet.ex)
        => \A s \in Ids : Exists(s) => s \in unseen

\* A fleet that is deleted is finalised in the end, unless one of its servers
\* is stuck: handleDeletion requeues until its servers are gone, and only a
\* terminating server that has no pod keeps a fleet marked for deletion.
FleetDeletionCompletes == <>[](fleet.del => Stuck # {})

\* When edits and faults have ended, a fleet that is not deleted and has no
\* stuck server comes to have the servers it wants, none if it wants a negative
\* number, and a status that tells how many, and both stay so: no lost update,
\* conflict, stale list or failed call ends scaleServerCount or leaves an old
\* count.  A stuck server is counted and, when sidecars are asked first, makes
\* every later choice fail.  Two more exceptions: Create may fail (Unborn is
\* empty here), and with negative replicas FindDeleteServer fails on the empty
\* list before the status is written.
FleetSettles ==
    LET n == Cardinality({s \in Ids : Exists(s)}) IN
    <>[](fleet.ex /\ ~fleet.del /\ Stuck = {} =>
            \/ n = fleet.replicas /\ fleet.current = n
            \/ n < fleet.replicas /\ Unborn = {}
            \/ n = 0 /\ fleet.replicas < 0)

-----------------------------------------------------------------------------
(* What documentation/docs/ says and the code does not do *)

\* fleet.md: replicas "ensures that the fleet always maintains the desired
\* number of servers": scaling down takes a server only while more are live
\* than the fleet wants.
ScaleDownKeepsReplicas ==
    [][pc = "deleteServer" /\ Live' # Live => Cardinality(Live) > fl.replicas]_vars

=============================================================================
