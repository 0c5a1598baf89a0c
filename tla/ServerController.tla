-------------------------- MODULE ServerController --------------------------
(***************************************************************************)
(* The Server controller of the operator, one Server and its pod.          *)
(*                                                                         *)
(* The API server holds the objects (server, pod), each write giving the   *)
(* object a new resource version rv.  The controller reads its informer    *)
(* caches (cServer, cPod); versions it has not been told of yet wait in    *)
(* sWatch and pWatch.  It writes with optimistic concurrency, so a write   *)
(* based on an old version is refused.  One Reconcile of a key runs at a   *)
(* time and makes one API or HTTP call per step; pc names the next call,   *)
(* srv and pd are the Go locals server and pod.  Between two calls         *)
(* anything else may happen: the user, the kubelet, the game, the watch.   *)
(***************************************************************************)
EXTENDS Naturals

CONSTANTS
    MaxEdits,      \* bound on the user's edits of the server's spec
    MaxEvictions,  \* bound on pod deletions that are not the controller's
    MaxFaults      \* bound on failed calls and on crashes of the operator

ASSUME BoundsAssumption ==
    MaxEdits \in Nat /\ MaxEvictions \in Nat /\ MaxFaults \in Nat

VARIABLES
    server, cServer, sWatch,   \* API copy, cached copy, undelivered versions
    pod, cPod, pWatch,
    sidecar,                   \* flags of the pod's sidecar container
    queued,                    \* the server's key is in the work queue
    pc, srv, pd,               \* the running Reconcile: next call, locals
    expired,                   \* DeletionTimestamp + TimeOut has passed
    edits, evictions, faults,  \* uses of the bounds
    everAllowed,  \* history: the game allowed deletion of the current pod
    seenUp        \* history: deletion was requested when the controller had
                  \* already been told that the current pod is running

apiVars == <<server, sWatch, pod, pWatch>>
cacheVars == <<cServer, cPod>>
workerVars == <<queued, pc, srv, pd>>
budgetVars == <<edits, evictions, faults>>
historyVars == <<everAllowed, seenUp>>
vars == <<apiVars, cacheVars, sidecar, workerVars, expired, budgetVars, historyVars>>

Sidecar == INSTANCE Sidecar

-----------------------------------------------------------------------------
(* Objects *)

Servers == [ex : BOOLEAN, fin : BOOLEAN, del : BOOLEAN, force : BOOLEAN,
            labelled : BOOLEAN, rv : Nat]

\* ex: exists, fin: has SERVER_FINALIZER, del: has a DeletionTimestamp,
\* force: Spec.AllowForceDelete, labelled: writing the pod's labels (the same
\* Go map) back to the server changes nothing, because the label "server" is
\* already there or the server has no label map to share.
NoServer == [ex |-> FALSE, fin |-> FALSE, del |-> FALSE, force |-> FALSE,
             labelled |-> FALSE, rv |-> 0]

Phases == {"Pending", "Running", "Done"}

\* del "yes": DeletionTimestamp set, the containers have their grace period;
\* "now": nothing but finalizers keeps the object.  uid: which pod it is.
Pods == [ex : BOOLEAN, fin : BOOLEAN, del : {"no", "yes", "now"},
         phase : Phases, uid : Nat, rv : Nat]

NoPod == [ex |-> FALSE, fin |-> FALSE, del |-> "no", phase |-> "Pending",
          uid |-> 0, rv |-> 0]

(* Calls of the API server *)

\* An object marked for deletion goes when no finalizer is left.
SettleServer(s) ==
    IF s.del /\ ~s.fin THEN [NoServer EXCEPT !.rv = s.rv] ELSE s

SettlePod(p) ==
    IF p.del = "now" /\ ~p.fin
    THEN [NoPod EXCEPT !.rv = p.rv, !.uid = p.uid] ELSE p

\* A write that changes nothing creates no version and no watch event.
WriteServer(s) ==
    IF s = server THEN UNCHANGED <<server, sWatch>>
    ELSE /\ server' = SettleServer([s EXCEPT !.rv = server.rv + 1])
         /\ sWatch' = sWatch \cup {server'}

WritePod(p) ==
    IF p = pod THEN UNCHANGED <<pod, pWatch>>
    ELSE /\ pod' = SettlePod([p EXCEPT !.rv = pod.rv + 1])
         /\ pWatch' = pWatch \cup {pod'}

\* Update is refused unless it is based on the stored version.
ServerCurrent == server.ex /\ server.rv = srv.rv
PodCurrent == pod.ex /\ pod.rv = pd.rv

\* What a delete request makes of the pod: a pod that runs gets its grace
\* period, one that was never scheduled or has ended gets none.
DeletionMarks(p) ==
    IF p.del # "no" THEN {p.del}
    ELSE IF p.phase = "Running" THEN {"yes"} ELSE {"yes", "now"}

\* The sidecar answers at the address of the pod the controller knows.
SidecarReachable == pod.ex /\ pod.phase = "Running" /\ pod.uid = pd.uid

-----------------------------------------------------------------------------
(* The worker: one Reconcile, call by call *)

Steps == {"idle", "addFinalizer", "ensurePodExists", "createPod",
          "updateAfterError", "ensurePodFinalizer", "addPodFinalizer",
          "statusUpdate", "handleDeletion", "requestShutdown",
          "isDeleteAllowed", "removePodFinalizer", "regetPod", "deletePod",
          "removeFinalizer"}

\* The next call of the running Reconcile.
Goto(step) == pc' = step

\* The calls that are given a pod, to write, to delete or to find its sidecar.
PodCalls == {"addPodFinalizer", "requestShutdown", "isDeleteAllowed",
             "removePodFinalizer", "deletePod"}

\* Mutant: errors and Requeue are not passed to the work queue.
Return_NoRequeue(again) ==
    /\ pc' = "idle"
    /\ srv' = NoServer
    /\ pd' = NoPod
    /\ queued' = queued

\* Reconcile returns; an error or Result{Requeue: true} queues the key again.
Return(again) ==
    /\ pc' = "idle"
    /\ srv' = NoServer
    /\ pd' = NoPod
    /\ queued' = (queued \/ again)

\* Mutant: the check for a missing finalizer is dropped.
Reconcile_NoFinalizer ==
    /\ pc = "idle"
    /\ queued
    /\ queued' = FALSE
    /\ \/ ~cServer.ex /\ UNCHANGED <<pc, srv>>
       \/ /\ cServer.ex
          /\ srv' = cServer
          /\ Goto(IF cServer.del THEN "handleDeletion" ELSE "ensurePodExists")
    /\ UNCHANGED <<apiVars, cacheVars, sidecar, pd, expired, budgetVars, historyVars>>

\* The reconcile starts from the cached server.  A server that is not found
\* ends it without an error.
Reconcile ==
    /\ pc = "idle"
    /\ queued
    /\ queued' = FALSE
    /\ \/ /\ ~cServer.ex
          /\ UNCHANGED <<pc, srv>>
       \/ /\ cServer.ex
          /\ srv' = cServer
          /\ Goto(CASE cServer.del                  -> "handleDeletion"
                    [] ~cServer.del /\ ~cServer.fin -> "addFinalizer"
                    [] OTHER                        -> "ensurePodExists")
    /\ UNCHANGED <<apiVars, cacheVars, sidecar, pd, expired, budgetVars, historyVars>>

AddFinalizer ==
    /\ pc = "addFinalizer"
    /\ \/ ServerCurrent /\ WriteServer([srv EXCEPT !.fin = TRUE]) /\ Return(FALSE)
       \/ ~ServerCurrent /\ UNCHANGED <<server, sWatch>> /\ Return(TRUE)
    /\ UNCHANGED <<pod, pWatch, cacheVars, sidecar, expired, budgetVars, historyVars>>

\* Mutant: a pod that is going is released at once, to get a new one sooner.
EnsurePodExists_Releases ==
    /\ pc = "ensurePodExists"
    /\ Goto(IF ~cPod.ex THEN "createPod"
            ELSE IF cPod.del # "no" THEN "removePodFinalizer" ELSE "ensurePodFinalizer")
    /\ pd' = cPod
    /\ UNCHANGED <<apiVars, cacheVars, sidecar, queued, srv, expired,
                   budgetVars, historyVars>>

EnsurePodExists ==
    /\ pc = "ensurePodExists"
    /\ Goto(IF cPod.ex THEN "ensurePodFinalizer" ELSE "createPod")
    /\ UNCHANGED <<apiVars, cacheVars, sidecar, queued, srv, pd, expired,
                   budgetVars, historyVars>>

\* GetNewPod: no finalizer yet, owned by the server, a fresh sidecar in it.
NewPod == [ex |-> TRUE, fin |-> FALSE, del |-> "no", phase |-> "Pending",
           uid |-> pod.uid + 1, rv |-> pod.rv]

StoreNewPod ==
    /\ ~pod.ex
    /\ WritePod(NewPod)
    /\ Sidecar!Restart
    /\ everAllowed' = FALSE
    /\ seenUp' = FALSE

\* Create; a pod of that name that the cache did not show makes it fail.
CreatePod ==
    /\ pc = "createPod"
    /\ \/ StoreNewPod /\ Return(TRUE)
       \/ /\ pod.ex
          /\ Goto("updateAfterError")
          /\ UNCHANGED <<pod, pWatch, sidecar, historyVars, queued, srv, pd>>
    /\ UNCHANGED <<server, sWatch, cacheVars, expired, budgetVars>>

\* After a failed Create the server is written back, with the label that
\* GetNewPod put into the label map the server shares with the pod.
UpdateAfterError ==
    /\ pc = "updateAfterError"
    /\ \/ ServerCurrent /\ WriteServer([srv EXCEPT !.labelled = TRUE])
       \/ ~ServerCurrent /\ UNCHANGED <<server, sWatch>>
    /\ Return(TRUE)
    /\ UNCHANGED <<pod, pWatch, cacheVars, sidecar, expired, budgetVars, historyVars>>

EnsurePodFinalizer ==
    /\ pc = "ensurePodFinalizer"
    /\ \/ ~cPod.ex /\ Return(TRUE)
       \/ /\ cPod.ex /\ cPod.fin
          /\ Goto("statusUpdate")
          /\ UNCHANGED <<queued, srv, pd>>
       \/ /\ cPod.ex /\ ~cPod.fin
          /\ Goto("addPodFinalizer")
          /\ pd' = cPod
          /\ UNCHANGED <<queued, srv>>
    /\ UNCHANGED <<apiVars, cacheVars, sidecar, expired, budgetVars, historyVars>>

\* The API server also refuses a new finalizer on a pod that is going.
AddPodFinalizer ==
    /\ pc = "addPodFinalizer"
    /\ \/ /\ PodCurrent /\ pod.del = "no"
          /\ WritePod([pd EXCEPT !.fin = TRUE])
          /\ Return(FALSE)
       \/ /\ ~(PodCurrent /\ pod.del = "no")
          /\ UNCHANGED <<pod, pWatch>>
          /\ Return(TRUE)
    /\ UNCHANGED <<server, sWatch, cacheVars, sidecar, expired, budgetVars, historyVars>>

\* Status().Update of an unchanged status: no new version, or a conflict.
StatusUpdate ==
    /\ pc = "statusUpdate"
    /\ Return(~ServerCurrent)
    /\ UNCHANGED <<apiVars, cacheVars, sidecar, expired, budgetVars, historyVars>>

\* Mutant: the server is released first, its pod is left to the garbage collector.
AfterAllowed_KeepsPod(p) == "removeFinalizer"

AfterAllowed(p) == IF p.fin THEN "removePodFinalizer" ELSE "deletePod"

\* Mutant: the timeout is not looked at.
HandleDeletion_NoTimeout ==
    /\ pc = "handleDeletion"
    /\ \/ ~cPod.ex /\ Return(TRUE)
       \/ /\ cPod.ex
          /\ pd' = cPod
          /\ Goto(IF cPod.phase # "Running" \/ srv.force
                  THEN AfterAllowed(cPod) ELSE "requestShutdown")
          /\ UNCHANGED <<queued, srv>>
    /\ UNCHANGED <<apiVars, cacheVars, sidecar, expired, budgetVars, historyVars>>

\* handleDeletion reads the cached pod and asks IsDeletionAllowed: what needs
\* no call is decided here, otherwise the sidecar is asked.
HandleDeletion ==
    /\ pc = "handleDeletion"
    /\ \/ ~cPod.ex /\ Return(TRUE)
       \/ /\ cPod.ex
          /\ pd' = cPod
          /\ Goto(IF cPod.phase # "Running" \/ srv.force \/ expired
                  THEN AfterAllowed(cPod) ELSE "requestShutdown")
          /\ UNCHANGED <<queued, srv>>
    /\ UNCHANGED <<apiVars, cacheVars, sidecar, expired, budgetVars, historyVars>>

RequestShutdown ==
    /\ pc = "requestShutdown"
    /\ \/ /\ SidecarReachable
          /\ Sidecar!SetShutdownRequested(TRUE)
          /\ Goto("isDeleteAllowed")
          /\ UNCHANGED <<queued, srv, pd>>
       \/ /\ ~SidecarReachable
          /\ UNCHANGED sidecar
          /\ Return(TRUE)
    /\ UNCHANGED <<apiVars, cacheVars, expired, budgetVars, historyVars>>

\* Mutant: any answer of the sidecar is taken for permission.
IsDeleteAllowed_AnyAnswer ==
    /\ pc = "isDeleteAllowed"
    /\ \/ /\ SidecarReachable
          /\ Goto(AfterAllowed(pd))
          /\ UNCHANGED <<queued, srv, pd>>
       \/ ~SidecarReachable /\ Return(TRUE)
    /\ UNCHANGED <<apiVars, cacheVars, sidecar, expired, budgetVars, historyVars>>

\* "server deletion not allowed" and an unreachable sidecar both try again.
IsDeleteAllowed ==
    /\ pc = "isDeleteAllowed"
    /\ \/ /\ SidecarReachable /\ Sidecar!IsDeleteAllowed
          /\ Goto(AfterAllowed(pd))
          /\ UNCHANGED <<queued, srv, pd>>
       \/ /\ ~(SidecarReachable /\ Sidecar!IsDeleteAllowed)
          /\ Return(TRUE)
    /\ UNCHANGED <<apiVars, cacheVars, sidecar, expired, budgetVars, historyVars>>

RemovePodFinalizer ==
    /\ pc = "removePodFinalizer"
    /\ \/ /\ PodCurrent
          /\ WritePod([pd EXCEPT !.fin = FALSE])
          /\ Goto("regetPod")
          /\ UNCHANGED <<queued, srv, pd>>
       \/ ~PodCurrent /\ UNCHANGED <<pod, pWatch>> /\ Return(TRUE)
    /\ UNCHANGED <<server, sWatch, cacheVars, sidecar, expired, budgetVars, historyVars>>

\* Mutant: the error of the second Get is dropped.
RegetPod_ErrorDropped ==
    /\ pc = "regetPod"
    /\ pd' = cPod
    /\ Goto("deletePod")
    /\ UNCHANGED <<queued, srv>>
    /\ UNCHANGED <<apiVars, cacheVars, sidecar, expired, budgetVars, historyVars>>

RegetPod ==
    /\ pc = "regetPod"
    /\ \/ ~cPod.ex /\ Return(TRUE)
       \/ /\ cPod.ex
          /\ pd' = cPod
          /\ Goto("deletePod")
          /\ UNCHANGED <<queued, srv>>
    /\ UNCHANGED <<apiVars, cacheVars, sidecar, expired, budgetVars, historyVars>>

\* Delete goes by name, whatever version of the pod the controller knows.
DeletePod ==
    /\ pc = "deletePod"
    /\ \/ /\ pod.ex
          /\ \E mark \in DeletionMarks(pod) : WritePod([pod EXCEPT !.del = mark])
          /\ Goto("removeFinalizer")
          /\ UNCHANGED <<queued, srv, pd>>
       \/ ~pod.ex /\ UNCHANGED <<pod, pWatch>> /\ Return(TRUE)
    /\ UNCHANGED <<server, sWatch, cacheVars, sidecar, expired, budgetVars, historyVars>>

RemoveFinalizer ==
    /\ pc = "removeFinalizer"
    /\ \/ ServerCurrent /\ WriteServer([srv EXCEPT !.fin = FALSE])
       \/ ~ServerCurrent /\ UNCHANGED <<server, sWatch>>
    /\ Return(TRUE)
    /\ UNCHANGED <<pod, pWatch, cacheVars, sidecar, expired, budgetVars, historyVars>>

Worker ==
    \/ Reconcile \/ AddFinalizer \/ EnsurePodExists \/ CreatePod
    \/ UpdateAfterError \/ EnsurePodFinalizer \/ AddPodFinalizer
    \/ StatusUpdate \/ HandleDeletion \/ RequestShutdown \/ IsDeleteAllowed
    \/ RemovePodFinalizer \/ RegetPod \/ DeletePod \/ RemoveFinalizer

-----------------------------------------------------------------------------
(* Faults of the operator *)

\* A call fails or its answer is lost: Reconcile returns the error.  After a
\* write whose answer is lost the next call is the one that "fails".
CallFails ==
    /\ faults < MaxFaults
    /\ faults' = faults + 1
    /\ \/ /\ pc \in Steps \ {"idle", "createPod", "ensurePodExists",
                             "ensurePodFinalizer", "handleDeletion"}
          /\ Return(TRUE)
          /\ UNCHANGED <<pod, pWatch, sidecar, historyVars>>
       \/ /\ pc = "createPod"
          /\ Goto("updateAfterError")
          /\ \/ StoreNewPod
             \/ UNCHANGED <<pod, pWatch, sidecar, historyVars>>
          /\ UNCHANGED <<queued, srv, pd>>
    /\ UNCHANGED <<server, sWatch, cacheVars, expired, edits, evictions>>

\* The operator restarts: it lists everything and reconciles what it finds.
Crash ==
    /\ faults < MaxFaults
    /\ faults' = faults + 1
    /\ pc' = "idle"
    /\ srv' = NoServer
    /\ pd' = NoPod
    /\ cServer' = server
    /\ cPod' = pod
    /\ sWatch' = {}
    /\ pWatch' = {}
    /\ queued' = (server.ex \/ pod.ex)
    /\ UNCHANGED <<server, pod, sidecar, expired, edits, evictions, historyVars>>

-----------------------------------------------------------------------------
(* The watch, the user, the kubelet and the game *)

\* The informers hand versions to the cache in order, possibly several at a
\* time, and queue the server (For) or the owner of the pod (Owns).
DeliverServer ==
    /\ \E v \in sWatch :
          /\ cServer' = v
          /\ sWatch' = {w \in sWatch : w.rv > v.rv}
    /\ queued' = TRUE
    /\ UNCHANGED <<server, pod, pWatch, cPod, sidecar, pc, srv, pd, expired,
                   budgetVars, historyVars>>

DeliverPod ==
    /\ \E v \in pWatch :
          /\ cPod' = v
          /\ pWatch' = {w \in pWatch : w.rv > v.rv}
    /\ queued' = TRUE
    /\ UNCHANGED <<server, pod, sWatch, cServer, sidecar, pc, srv, pd, expired,
                   budgetVars, historyVars>>

CreateServer ==
    /\ server.rv = 0
    /\ \E force, labelled \in BOOLEAN :
          WriteServer([NoServer EXCEPT !.ex = TRUE, !.force = force,
                                       !.labelled = labelled])
    /\ UNCHANGED <<pod, pWatch, cacheVars, sidecar, workerVars, expired,
                   budgetVars, historyVars>>

\* A delete request, by the fleet controller, a user or the service's handler.
\* What the handler adds when it is forced, an allowed deletion, is one of the
\* GameSetsAllowed steps; a body that does not decode changes nothing.
DeleteServer ==
    /\ server.ex /\ ~server.del
    /\ WriteServer([server EXCEPT !.del = TRUE])
    /\ seenUp' = (cPod.ex /\ cPod.phase = "Running" /\ cPod.uid = pod.uid)
    /\ UNCHANGED <<pod, pWatch, cacheVars, sidecar, workerVars, expired,
                   budgetVars, everAllowed>>

EditServer ==
    /\ server.ex
    /\ edits < MaxEdits
    /\ edits' = edits + 1
    /\ WriteServer([server EXCEPT !.force = ~@])
    /\ UNCHANGED <<pod, pWatch, cacheVars, sidecar, workerVars, expired,
                   evictions, faults, historyVars>>

\* The timeout counts from the DeletionTimestamp.
Expire ==
    /\ server.ex /\ server.del /\ ~expired
    /\ expired' = TRUE
    /\ UNCHANGED <<apiVars, cacheVars, sidecar, workerVars, budgetVars, historyVars>>

PodStarts ==
    /\ pod.ex /\ pod.phase = "Pending" /\ pod.del = "no"
    /\ WritePod([pod EXCEPT !.phase = "Running"])
    /\ UNCHANGED <<server, sWatch, cacheVars, sidecar, workerVars, expired,
                   budgetVars, historyVars>>

\* The containers end, by themselves or because the grace period is used.
PodEnds ==
    /\ pod.ex /\ pod.phase = "Running"
    /\ WritePod([pod EXCEPT !.phase = "Done"])
    /\ UNCHANGED <<server, sWatch, cacheVars, sidecar, workerVars, expired,
                   budgetVars, historyVars>>

EvictPod ==
    /\ pod.ex /\ pod.del = "no"
    /\ evictions < MaxEvictions
    /\ evictions' = evictions + 1
    /\ \E mark \in DeletionMarks(pod) : WritePod([pod EXCEPT !.del = mark])
    /\ UNCHANGED <<server, sWatch, cacheVars, sidecar, workerVars, expired,
                   edits, faults, historyVars>>

\* The kubelet confirms that a terminating pod has no container left.
ReapPod ==
    /\ pod.ex /\ pod.del = "yes" /\ pod.phase # "Running"
    /\ WritePod([pod EXCEPT !.del = "now"])
    /\ UNCHANGED <<server, sWatch, cacheVars, sidecar, workerVars, expired,
                   budgetVars, historyVars>>

SidecarRestarts ==
    /\ pod.ex /\ pod.phase = "Running"
    /\ Sidecar!Restart
    /\ UNCHANGED <<apiVars, cacheVars, workerVars, expired, budgetVars, historyVars>>

\* The game grants or takes back its permission, or sendDeleteAllowed of the
\* service grants it.
GameSetsAllowed ==
    /\ pod.ex /\ pod.phase = "Running"
    /\ \E allowed \in BOOLEAN :
          /\ Sidecar!SetDeleteAllowed(allowed)
          /\ everAllowed' = (everAllowed \/ allowed)
    /\ UNCHANGED <<apiVars, cacheVars, workerVars, expired, budgetVars, seenUp>>

Environment ==
    \/ DeliverServer \/ DeliverPod \/ CreateServer \/ DeleteServer \/ EditServer
    \/ Expire \/ PodStarts \/ PodEnds \/ EvictPod \/ ReapPod
    \/ SidecarRestarts \/ GameSetsAllowed

-----------------------------------------------------------------------------

Init ==
    /\ server = NoServer /\ cServer = NoServer /\ sWatch = {}
    /\ pod = NoPod /\ cPod = NoPod /\ pWatch = {}
    /\ Sidecar!Init
    /\ queued = FALSE
    /\ pc = "idle" /\ srv = NoServer /\ pd = NoPod
    /\ expired = FALSE
    /\ edits = 0 /\ evictions = 0 /\ faults = 0
    /\ everAllowed = FALSE /\ seenUp = FALSE

Next == Worker \/ CallFails \/ Crash \/ Environment

Spec == Init /\ [][Next]_vars

\* The worker goroutines keep taking keys from the queue, the informers keep
\* delivering, the clock passes the timeout (Server.Default makes sure there
\* is one) and the kubelet ends and removes a pod that was told to terminate.
\* Nothing is assumed of the user, of the game, of pods starting or failing.
Fairness ==
    /\ WF_vars(Worker)
    /\ WF_vars(DeliverServer)
    /\ WF_vars(DeliverPod)
    /\ WF_vars(Expire)
    /\ WF_vars(pod.del = "yes" /\ PodEnds)
    /\ WF_vars(ReapPod)

FairSpec == Spec /\ Fairness

-----------------------------------------------------------------------------
(* Properties *)

\* Besides the types: no call is given a pod that no Get has found.
TypeOK ==
    /\ server \in Servers /\ cServer \in Servers /\ sWatch \subseteq Servers
    /\ pod \in Pods /\ cPod \in Pods /\ pWatch \subseteq Pods
    /\ sidecar \in Sidecar!Type
    /\ queued \in BOOLEAN
    /\ pc \in Steps
    /\ srv \in Servers /\ pd \in Pods /\ (pc \in PodCalls => pd.ex)
    /\ expired \in BOOLEAN
    /\ edits \in 0..MaxEdits /\ evictions \in 0..MaxEvictions
    /\ faults \in 0..MaxFaults
    /\ everAllowed \in BOOLEAN /\ seenUp \in BOOLEAN

\* Where the server is in its life, as ServerLife sees it.
Life ==
    IF server.rv = 0 THEN "none"
    ELSE IF ~server.ex THEN "gone"
    ELSE IF server.del THEN "terminating" ELSE "live"

\* A pod that nobody asked to go belongs to a server that still exists and is
\* protected by SERVER_FINALIZER: no order of stale reads, lost answers and
\* restarts lets the controller create a pod for a server that is gone, or
\* lets a server go from under a pod that still serves players.
LivePodIsOwned == pod.ex /\ pod.del = "no" => server.ex /\ server.fin

\* Once past the permission check of handleDeletion, a pod that is running and
\* that the controller had been told was running when the deletion was
\* requested is given up only because the game agreed at some time, the
\* timeout passed, or the server allowed force deletion.
DeletionIsJustified ==
    /\ pc \in {"removePodFinalizer", "regetPod", "deletePod"}
    /\ seenUp
    /\ pod.ex /\ pod.phase = "Running"
    => everAllowed \/ expired \/ srv.force

\* A pod loses SERVER_FINALIZER only when the deletion of its server has been
\* requested: neither an eviction nor a stale cached pod releases the pod of a
\* server that is still wanted (ensurePodFinalizer, handleDeletion).
PodReleasedInOrder == [][pod.fin /\ ~pod'.fin => Life \in {"terminating", "gone"}]_vars

\* A server that has been finalised left no pod that still had to be told to
\* go, and one that was not asked to go never disappears: the life cycle
\* promised by ServerLife.
Promise == INSTANCE ServerLife WITH
    life <- Life,
    podUp <- pod.ex /\ pod.del = "no"

ImplementsServerLife == Promise!Spec

\* A server that stays wanted gets a pod with the finalizer (ensurePodExists,
\* ensurePodFinalizer), whatever conflicts and stale reads come in between.
PodEventuallyProtected ==
    server.ex /\ ~server.del ~> (pod.ex /\ pod.fin) \/ server.del \/ ~server.ex

\* A server that is deleted while it has a pod is finalised, with or without
\* the game's permission, because the timeout passes (handleDeletion).  Only an
\* edit, an eviction, a failed call or a restart can end it half way, with the
\* pod gone and the server still there.
DeletionCompletes ==
    server.del /\ pod.ex ~> ~server.ex \/ (~pod.ex /\ edits + evictions + faults > 0)

-----------------------------------------------------------------------------
(* What documentation/docs/ says and the code does not do *)

\* server.md: the timeout is the "time the controller waits before allowing a
\* forced deletion of the server": every deleted server goes in the end.
EveryDeletionCompletes == server.del ~> ~server.ex

\* server.md: a server "has a 1-to-1 relationship with a pod": with the server
\* gone its pod does not stay behind for ever.
NoPodLeftBehind == ~server.ex /\ pod.ex ~> ~pod.ex

=============================================================================
