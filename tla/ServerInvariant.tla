--------------------------- MODULE ServerInvariant ---------------------------
(***************************************************************************)
(* The inductive invariant behind the safety properties of                 *)
(* ServerController: what the controller may rely on although everything   *)
(* it reads may be old.                                                    *)
(***************************************************************************)
EXTENDS ServerController

\* The versions of the server and of the pod that the controller knows, in
\* its locals or its caches, or will still be told of.
KnownServers == sWatch \cup {cServer, srv}
KnownPods == pWatch \cup {cPod, pd}

\* A resource version names one state of the object, and no copy is ahead.
ServerVersionsAreUnique ==
    /\ server.rv = 0 => server = NoServer
    /\ \A v \in KnownServers : v.rv <= server.rv /\ (v.rv = server.rv => v = server)

PodVersionsAreUnique ==
    /\ pod.rv = 0 => pod = NoPod
    /\ \A v \in KnownPods : v.rv <= pod.rv /\ (v.rv = pod.rv => v = pod)

\* The cache moves forward: what Reconcile read is not newer than the cache,
\* the cache not newer than what the watch has yet to deliver.
CachesMoveForward ==
    /\ srv.rv <= cServer.rv
    /\ \A v \in sWatch : cServer.rv <= v.rv

\* An object without finalizers does not survive its deletion.
Settled == server.del => server.fin

\* A copy of the server that shows it protected and wanted may be old, but the
\* stored server is still protected: only this controller takes the finalizer
\* away, and only after it has seen the deletion.
OldCopiesAreProtected ==
    \A v \in KnownServers :
        v.ex /\ v.fin /\ ~v.del => server.ex /\ server.fin

\* What the position in Reconcile says about the server it started from.
WorkerKnows ==
    /\ pc = "idle" => srv = NoServer
    /\ pc = "addFinalizer" => srv.ex /\ ~srv.del
    /\ pc \in {"ensurePodExists", "createPod", "updateAfterError",
               "ensurePodFinalizer", "addPodFinalizer", "statusUpdate"}
          => srv.ex /\ srv.fin /\ ~srv.del
    /\ pc \in {"handleDeletion", "requestShutdown", "isDeleteAllowed",
               "removePodFinalizer", "regetPod", "deletePod", "removeFinalizer"}
          => srv.ex /\ srv.del
    /\ pc = "removeFinalizer" => ~(pod.ex /\ pod.del = "no")

\* The inductive invariant: from it follow LivePodIsOwned, one of its parts,
\* and the step simulation of ServerLife.
ServerInv ==
    /\ TypeOK
    /\ ServerVersionsAreUnique
    /\ PodVersionsAreUnique
    /\ CachesMoveForward
    /\ Settled
    /\ OldCopiesAreProtected
    /\ WorkerKnows
    /\ LivePodIsOwned

=============================================================================
