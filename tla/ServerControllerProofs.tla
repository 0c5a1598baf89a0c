----------------------- MODULE ServerControllerProofs -----------------------
(***************************************************************************)
(* Proofs about ServerController, for every value of the bounds.           *)
(***************************************************************************)
EXTENDS ServerInvariant, TLAPS

-----------------------------------------------------------------------------
(* Types *)

\* A write stores an object of the right type, whatever the write is.
LEMMA WriteServerType ==
    ASSUME TypeOK, NEW s \in Servers, WriteServer(s)
    PROVE  server' \in Servers /\ sWatch' \subseteq Servers
<1>1. CASE s = server
  BY <1>1 DEF WriteServer, TypeOK
<1>2. CASE s # server
  <2>1. [s EXCEPT !.rv = server.rv + 1] \in Servers
    BY DEF TypeOK, Servers
  <2>2. SettleServer([s EXCEPT !.rv = server.rv + 1]) \in Servers
    BY <2>1 DEF SettleServer, Servers, NoServer
  <2>3. QED
    BY <1>2, <2>2 DEF WriteServer, TypeOK
<1>3. QED
  BY <1>1, <1>2

LEMMA WritePodType ==
    ASSUME TypeOK, NEW p \in Pods, WritePod(p)
    PROVE  pod' \in Pods /\ pWatch' \subseteq Pods
<1>1. CASE p = pod
  BY <1>1 DEF WritePod, TypeOK
<1>2. CASE p # pod
  <2>1. [p EXCEPT !.rv = pod.rv + 1] \in Pods
    BY DEF TypeOK, Pods
  <2>2. SettlePod([p EXCEPT !.rv = pod.rv + 1]) \in Pods
    BY <2>1 DEF SettlePod, Pods, NoPod, Phases
  <2>3. QED
    BY <1>2, <2>2 DEF WritePod, TypeOK
<1>3. QED
  BY <1>1, <1>2

LEMMA NoObjectsType == NoServer \in Servers /\ NoPod \in Pods
  BY DEF NoServer, Servers, NoPod, Pods, Phases

LEMMA ReturnType ==
    ASSUME TypeOK, NEW again \in BOOLEAN, Return(again)
    PROVE  /\ pc' \in Steps /\ srv' \in Servers /\ pd' \in Pods /\ queued' \in BOOLEAN
           /\ pc' \in PodCalls => pd'.ex
  BY NoObjectsType DEF Return, TypeOK, Steps, PodCalls

LEMMA NewPodType == TypeOK => NewPod \in Pods
<1> SUFFICES ASSUME TypeOK PROVE NewPod \in Pods
  OBVIOUS
<1>1. pod.uid + 1 \in Nat /\ pod.rv \in Nat
  BY DEF TypeOK, Pods
<1>2. QED
  BY <1>1 DEF NewPod, Pods, Phases

LEMMA StoreNewPodType ==
    ASSUME TypeOK, StoreNewPod
    PROVE  /\ pod' \in Pods /\ pWatch' \subseteq Pods
           /\ sidecar' \in Sidecar!Type
           /\ everAllowed' \in BOOLEAN /\ seenUp' \in BOOLEAN
  BY NewPodType, WritePodType
     DEF StoreNewPod, Sidecar!Restart, Sidecar!Fresh, Sidecar!Type

LEMMA TypeStep == TypeOK /\ [Next]_vars => TypeOK'
<1> SUFFICES ASSUME TypeOK, [Next]_vars PROVE TypeOK'
  OBVIOUS
<1> USE DEF TypeOK, PodCalls, apiVars, cacheVars, workerVars, budgetVars, historyVars
<1>1. CASE Reconcile
  BY <1>1, NoObjectsType DEF Reconcile, Goto, Steps
<1>2. CASE AddFinalizer
  <2>1. [srv EXCEPT !.fin = TRUE] \in Servers
    BY DEF Servers
  <2>2. QED
    BY <1>2, <2>1, WriteServerType, ReturnType DEF AddFinalizer
<1>3. CASE EnsurePodExists
  BY <1>3 DEF EnsurePodExists, Goto, Steps
<1>4. CASE CreatePod
  BY <1>4, StoreNewPodType, ReturnType DEF CreatePod, Goto, Steps
<1>5. CASE UpdateAfterError
  <2>1. [srv EXCEPT !.labelled = TRUE] \in Servers
    BY DEF Servers
  <2>2. QED
    BY <1>5, <2>1, WriteServerType, ReturnType DEF UpdateAfterError
<1>6. CASE EnsurePodFinalizer
  BY <1>6, ReturnType DEF EnsurePodFinalizer, Goto, Steps
<1>7. CASE AddPodFinalizer
  <2>1. [pd EXCEPT !.fin = TRUE] \in Pods
    BY DEF Pods
  <2>2. QED
    BY <1>7, <2>1, WritePodType, ReturnType DEF AddPodFinalizer
<1>8. CASE StatusUpdate
  <2>1. (~ServerCurrent) \in BOOLEAN
    OBVIOUS
  <2>2. QED
    BY <1>8, <2>1, ReturnType DEF StatusUpdate
<1>9. CASE HandleDeletion
  BY <1>9, ReturnType DEF HandleDeletion, Goto, AfterAllowed, Steps
<1>10. CASE RequestShutdown
  <2>1. Sidecar!SetShutdownRequested(TRUE) => sidecar' \in Sidecar!Type
    BY DEF Sidecar!SetShutdownRequested, Sidecar!Type
  <2>2. QED
    BY <1>10, <2>1, ReturnType DEF RequestShutdown, Goto, Steps
<1>11. CASE IsDeleteAllowed
  BY <1>11, ReturnType DEF IsDeleteAllowed, Goto, AfterAllowed, Steps
<1>12. CASE RemovePodFinalizer
  <2>1. [pd EXCEPT !.fin = FALSE] \in Pods
    BY DEF Pods
  <2>2. QED
    BY <1>12, <2>1, WritePodType, ReturnType DEF RemovePodFinalizer, Goto, Steps
<1>13. CASE RegetPod
  BY <1>13, ReturnType DEF RegetPod, Goto, Steps
<1>14. CASE DeletePod
  <2>1. \A mark \in DeletionMarks(pod) : [pod EXCEPT !.del = mark] \in Pods
    BY DEF DeletionMarks, Pods
  <2>2. QED
    BY <1>14, <2>1, WritePodType, ReturnType DEF DeletePod, Goto, Steps
<1>15. CASE RemoveFinalizer
  <2>1. [srv EXCEPT !.fin = FALSE] \in Servers
    BY DEF Servers
  <2>2. QED
    BY <1>15, <2>1, WriteServerType, ReturnType DEF RemoveFinalizer
<1>16. CASE CallFails
  <2>1. faults' \in 0..MaxFaults
    BY <1>16, BoundsAssumption DEF CallFails
  <2>2. QED
    BY <1>16, <2>1, StoreNewPodType, ReturnType DEF CallFails, Goto, Steps
<1>17. CASE Crash
  <2>1. faults' \in 0..MaxFaults
    BY <1>17, BoundsAssumption DEF Crash
  <2>2. (server.ex \/ pod.ex) \in BOOLEAN
    OBVIOUS
  <2>3. QED
    BY <1>17, <2>1, <2>2, NoObjectsType DEF Crash, Steps
<1>18. CASE DeliverServer
  BY <1>18 DEF DeliverServer
<1>19. CASE DeliverPod
  BY <1>19 DEF DeliverPod
<1>20. CASE CreateServer
  <2>1. \A force, labelled \in BOOLEAN :
            [NoServer EXCEPT !.ex = TRUE, !.force = force, !.labelled = labelled] \in Servers
    BY DEF NoServer, Servers
  <2>2. QED
    BY <1>20, <2>1, WriteServerType DEF CreateServer
<1>21. CASE DeleteServer
  <2>1. [server EXCEPT !.del = TRUE] \in Servers
    BY DEF Servers
  <2>2. seenUp' \in BOOLEAN
    BY <1>21 DEF DeleteServer
  <2>3. QED
    BY <1>21, <2>1, <2>2, WriteServerType DEF DeleteServer
<1>22. CASE EditServer
  <2>1. [server EXCEPT !.force = ~@] \in Servers
    BY DEF Servers
  <2>2. edits' \in 0..MaxEdits
    BY <1>22, BoundsAssumption DEF EditServer
  <2>3. QED
    BY <1>22, <2>1, <2>2, WriteServerType DEF EditServer
<1>23. CASE Expire
  BY <1>23 DEF Expire
<1>24. CASE PodStarts
  <2>1. [pod EXCEPT !.phase = "Running"] \in Pods
    BY DEF Pods, Phases
  <2>2. QED
    BY <1>24, <2>1, WritePodType DEF PodStarts
<1>25. CASE PodEnds
  <2>1. [pod EXCEPT !.phase = "Done"] \in Pods
    BY DEF Pods, Phases
  <2>2. QED
    BY <1>25, <2>1, WritePodType DEF PodEnds
<1>26. CASE EvictPod
  <2>1. \A mark \in DeletionMarks(pod) : [pod EXCEPT !.del = mark] \in Pods
    BY DEF DeletionMarks, Pods
  <2>2. evictions' \in 0..MaxEvictions
    BY <1>26, BoundsAssumption DEF EvictPod
  <2>3. QED
    BY <1>26, <2>1, <2>2, WritePodType DEF EvictPod
<1>27. CASE ReapPod
  <2>1. [pod EXCEPT !.del = "now"] \in Pods
    BY DEF Pods
  <2>2. QED
    BY <1>27, <2>1, WritePodType DEF ReapPod
<1>28. CASE SidecarRestarts
  BY <1>28 DEF SidecarRestarts, Sidecar!Restart, Sidecar!Fresh, Sidecar!Type
<1>29. CASE GameSetsAllowed
  <2>1. PICK allowed \in BOOLEAN : /\ Sidecar!SetDeleteAllowed(allowed)
                                 /\ everAllowed' = (everAllowed \/ allowed)
    BY <1>29 DEF GameSetsAllowed
  <2>2. sidecar' \in Sidecar!Type
    BY <2>1 DEF Sidecar!SetDeleteAllowed, Sidecar!Type
  <2>3. everAllowed' \in BOOLEAN
    BY <2>1
  <2>4. QED
    BY <1>29, <2>2, <2>3 DEF GameSetsAllowed
<1>30. CASE UNCHANGED vars
  BY <1>30 DEF vars
<1>31. QED
  BY <1>1, <1>2, <1>3, <1>4, <1>5, <1>6, <1>7, <1>8, <1>9, <1>10, <1>11, <1>12, <1>13, <1>14, <1>15, <1>16, <1>17, <1>18, <1>19, <1>20, <1>21, <1>22, <1>23, <1>24, <1>25, <1>26, <1>27, <1>28, <1>29, <1>30 DEF Next, Worker, Environment

LEMMA InitType == Init => TypeOK
<1>1. 0 \in 0..MaxEdits /\ 0 \in 0..MaxEvictions /\ 0 \in 0..MaxFaults
  BY BoundsAssumption
<1>2. Init => sidecar \in Sidecar!Type
  BY DEF Init, Sidecar!Init, Sidecar!Fresh, Sidecar!Type
<1>3. Init => pc \in Steps /\ pc \notin PodCalls
  BY DEF Init, Steps, PodCalls
<1>4. QED
  BY <1>1, <1>2, <1>3, NoObjectsType DEF Init, TypeOK

\* Every reachable state of the server controller has its type, for every
\* bound on edits, evictions and faults (Reconcile and all it calls).
THEOREM TypeCorrect == Spec => []TypeOK
  BY InitType, TypeStep, PTL DEF Spec

-----------------------------------------------------------------------------
(* The server half of the invariant: versions, caches and the finalizer *)

ServerSide ==
    /\ ServerVersionsAreUnique
    /\ CachesMoveForward
    /\ Settled
    /\ OldCopiesAreProtected

\* Reading the cache, or forgetting what was read, keeps the server half.
LEMMA ServerRead ==
    ASSUME TypeOK, ServerSide, UNCHANGED <<server, sWatch, cServer>>,
           srv' \in {srv, NoServer, cServer}
    PROVE  ServerSide'
<1> USE DEF ServerSide
<1>1. KnownServers' \subseteq KnownServers \cup {NoServer}
  BY DEF KnownServers
<1>2. NoServer.rv = 0 /\ ~NoServer.ex
  BY DEF NoServer
<1>3. server.rv \in Nat /\ cServer.rv \in Nat
  BY DEF TypeOK, Servers
<1>4. ServerVersionsAreUnique'
  BY <1>1, <1>2, <1>3 DEF ServerVersionsAreUnique
<1>5. CachesMoveForward'
  BY <1>2, <1>3 DEF CachesMoveForward
<1>6. Settled' /\ OldCopiesAreProtected'
  BY <1>1, <1>2 DEF Settled, OldCopiesAreProtected
<1>7. QED
  BY <1>4, <1>5, <1>6

\* A write keeps it too, if it leaves the finalizer on or if no copy that is
\* still about shows the server protected and wanted.
LEMMA ServerWrite ==
    ASSUME TypeOK, ServerSide, NEW s \in Servers, WriteServer(s),
           s.ex, cServer' = cServer, srv' \in {srv, NoServer},
           s.fin \/ \A v \in KnownServers : ~(v.ex /\ v.fin /\ ~v.del)
    PROVE  ServerSide'
<1> USE DEF ServerSide
<1>1. CASE s = server
  BY <1>1, ServerRead DEF WriteServer
<1>2. CASE s # server
  <2>1. /\ server'.rv = server.rv + 1
        /\ s.fin => server'.ex /\ server'.fin
        /\ ~s.fin => ~server'.fin
        /\ server'.del => server'.fin
    BY <1>2 DEF WriteServer, SettleServer, Servers, NoServer
  <2>2. sWatch' = sWatch \cup {server'}
    BY <1>2 DEF WriteServer
  <2>3. KnownServers' \subseteq KnownServers \cup {NoServer, server'}
    BY <2>2 DEF KnownServers
  <2>4. NoServer.rv = 0 /\ ~NoServer.ex
    BY DEF NoServer
  <2>5. /\ server.rv \in Nat /\ cServer.rv \in Nat
        /\ \A v \in KnownServers : v.rv \in Nat
    BY DEF TypeOK, Servers, KnownServers
  <2>6. ServerVersionsAreUnique'
    BY <2>1, <2>3, <2>4, <2>5 DEF ServerVersionsAreUnique
  <2>7. CachesMoveForward'
    BY <2>1, <2>2, <2>4, <2>5 DEF CachesMoveForward, ServerVersionsAreUnique, KnownServers
  <2>8. OldCopiesAreProtected'
    BY <2>1, <2>3, <2>4 DEF OldCopiesAreProtected
  <2>9. QED
    BY <2>1, <2>6, <2>7, <2>8 DEF Settled
<1>3. QED
  BY <1>1, <1>2

\* The optimistic lock: a write that is not refused starts from what is stored.
LEMMA CurrentServer ==
    ASSUME ServerSide, ServerCurrent
    PROVE  srv = server
  BY DEF ServerSide, ServerCurrent, ServerVersionsAreUnique, KnownServers

-----------------------------------------------------------------------------
(* The pod half *)

LEMMA PodRead ==
    ASSUME TypeOK, PodVersionsAreUnique, UNCHANGED <<pod, pWatch, cPod>>,
           pd' \in {pd, NoPod, cPod}
    PROVE  PodVersionsAreUnique'
<1>1. KnownPods' \subseteq KnownPods \cup {NoPod}
  BY DEF KnownPods
<1>2. NoPod.rv = 0
  BY DEF NoPod
<1>3. pod.rv \in Nat
  BY DEF TypeOK, Pods
<1>4. QED
  BY <1>1, <1>2, <1>3 DEF PodVersionsAreUnique

LEMMA PodWrite ==
    ASSUME TypeOK, PodVersionsAreUnique, NEW p \in Pods, WritePod(p),
           cPod' = cPod, pd' \in {pd, NoPod}
    PROVE  PodVersionsAreUnique'
<1>1. CASE p = pod
  BY <1>1, PodRead DEF WritePod
<1>2. CASE p # pod
  <2>1. pod'.rv = pod.rv + 1 /\ pWatch' = pWatch \cup {pod'}
    BY <1>2 DEF WritePod, SettlePod, Pods, NoPod
  <2>2. KnownPods' \subseteq KnownPods \cup {NoPod, pod'}
    BY <2>1 DEF KnownPods
  <2>3. NoPod.rv = 0
    BY DEF NoPod
  <2>4. pod.rv \in Nat /\ \A v \in KnownPods : v.rv \in Nat
    BY DEF TypeOK, Pods, KnownPods
  <2>5. QED
    BY <2>1, <2>2, <2>3, <2>4 DEF PodVersionsAreUnique
<1>3. QED
  BY <1>1, <1>2

LEMMA CurrentPod ==
    ASSUME PodVersionsAreUnique, PodCurrent
    PROVE  pd = pod
  BY DEF PodCurrent, PodVersionsAreUnique, KnownPods

PodUp == pod.ex /\ pod.del = "no"

\* Only a write of a pod that is up makes the stored pod be up.
LEMMA PodUpWrite ==
    ASSUME TypeOK, NEW p \in Pods, WritePod(p), p.ex /\ p.del = "no" => PodUp
    PROVE  PodUp' => PodUp
<1>1. CASE p = pod
  BY <1>1 DEF WritePod, PodUp
<1>2. CASE p # pod
  <2>1. pod' = SettlePod([p EXCEPT !.rv = pod.rv + 1])
    BY <1>2 DEF WritePod
  <2>2. pod'.ex => p.ex /\ pod'.del = p.del
    BY <2>1 DEF SettlePod, Pods, NoPod
  <2>3. QED
    BY <2>2 DEF PodUp
<1>3. QED
  BY <1>1, <1>2

\* A pod stored with a deletion mark is not up.
LEMMA MarkedPodIsDown ==
    ASSUME TypeOK, NEW p \in Pods, WritePod(p), p.del # "no"
    PROVE  ~PodUp'
  BY DEF WritePod, SettlePod, Pods, NoPod, PodUp

-----------------------------------------------------------------------------
(* The invariant is inductive *)

\* ServerInv with the server half folded up.
LEMMA InvParts ==
    ServerInv <=> /\ TypeOK /\ ServerSide /\ PodVersionsAreUnique
                  /\ WorkerKnows /\ LivePodIsOwned
  BY DEF ServerInv, ServerSide

LEMMA InvPartsNext ==
    ServerInv' <=> /\ TypeOK' /\ ServerSide' /\ PodVersionsAreUnique'
                   /\ WorkerKnows' /\ LivePodIsOwned'
  BY DEF ServerInv, ServerSide

\* LivePodIsOwned survives a step that neither brings up a pod nor takes the
\* server or its finalizer away.
LEMMA OwnedStep ==
    ASSUME LivePodIsOwned, PodUp' => PodUp,
           server.ex /\ server.fin => server'.ex /\ server'.fin
    PROVE  LivePodIsOwned'
  BY DEF LivePodIsOwned, PodUp

\* A write of a server with its finalizer keeps the stored server protected.
LEMMA ProtectedWrite ==
    ASSUME TypeOK, NEW s \in Servers, WriteServer(s), s.ex, s.fin
    PROVE  server'.ex /\ server'.fin
  BY DEF WriteServer, SettleServer, Servers, TypeOK

LEMMA InvStep == ServerInv /\ [Next]_vars => ServerInv'
<1> SUFFICES ASSUME ServerInv, [Next]_vars PROVE ServerInv'
  OBVIOUS
<1>t. /\ TypeOK /\ ServerSide /\ PodVersionsAreUnique
      /\ WorkerKnows /\ LivePodIsOwned
  BY InvParts
<1>tt. TypeOK'
  BY <1>t, TypeStep
<1> SUFFICES ServerSide' /\ PodVersionsAreUnique' /\ WorkerKnows' /\ LivePodIsOwned'
  BY <1>tt, InvPartsNext
<1> USE DEF apiVars, cacheVars, workerVars, budgetVars, historyVars
<1>1. CASE Reconcile
  <2>1. /\ UNCHANGED <<server, sWatch, cServer, pod, pWatch, cPod, pd>>
        /\ srv' \in {srv, NoServer, cServer}
    BY <1>1 DEF Reconcile
  <2>2. ServerSide' /\ PodVersionsAreUnique'
    BY <1>t, <2>1, ServerRead, PodRead
  <2>3. ASSUME ~cServer.ex PROVE WorkerKnows'
    BY <1>t, <1>1, <2>1, <2>3 DEF Reconcile, WorkerKnows
  <2>4. ASSUME cServer.ex PROVE WorkerKnows'
    <3>1. srv' = cServer
      BY <1>1, <2>4 DEF Reconcile
    <3>2. /\ cServer.del => pc' = "handleDeletion"
          /\ ~cServer.del /\ ~cServer.fin => pc' = "addFinalizer"
          /\ ~cServer.del /\ cServer.fin => pc' = "ensurePodExists"
      BY <1>1, <2>4 DEF Reconcile, Goto
    <3>3. QED
      BY <2>4, <3>1, <3>2 DEF WorkerKnows
  <2>5. LivePodIsOwned'
    BY <1>t, <2>1 DEF LivePodIsOwned
  <2>6. WorkerKnows'
    BY <2>3, <2>4
  <2>7. QED
    BY <2>2, <2>5, <2>6
<1>2. CASE AddFinalizer
  <2>1. ASSUME ServerCurrent, WriteServer([srv EXCEPT !.fin = TRUE])
        PROVE  ServerSide' /\ server'.ex /\ server'.fin
    <3>1. [srv EXCEPT !.fin = TRUE] \in Servers /\ [srv EXCEPT !.fin = TRUE].fin
      BY <1>t DEF TypeOK, Servers
    <3>2. [srv EXCEPT !.fin = TRUE].ex
      BY <1>t, <1>2 DEF AddFinalizer, WorkerKnows, TypeOK, Servers
    <3>3. srv' \in {srv, NoServer} /\ cServer' = cServer
      BY <1>2 DEF AddFinalizer, Return
    <3>4. ServerSide'
      BY <1>t, <2>1, <3>1, <3>2, <3>3, ServerWrite
    <3>5. server'.ex /\ server'.fin
      BY <1>t, <2>1, <3>1, <3>2, ProtectedWrite
    <3>6. QED
      BY <3>4, <3>5
  <2>2. ASSUME ~ServerCurrent PROVE ServerSide' /\ server' = server
    BY <1>t, <1>2, <2>2, ServerRead DEF AddFinalizer, Return
  <2>3. ServerSide'
    BY <1>2, <2>1, <2>2 DEF AddFinalizer
  <2>4. LivePodIsOwned'
    BY <1>t, <1>2, <2>1, <2>2 DEF AddFinalizer, LivePodIsOwned
  <2>5. PodVersionsAreUnique' /\ WorkerKnows'
    BY <1>t, <1>2, PodRead DEF AddFinalizer, Return, WorkerKnows
  <2>6. QED
    BY <2>3, <2>4, <2>5
<1>3. CASE EnsurePodExists
  <2>1. /\ UNCHANGED <<server, sWatch, cServer, pod, pWatch, cPod>>
        /\ srv' \in {srv, NoServer, cServer} /\ pd' \in {pd, NoPod, cPod}
    BY <1>3 DEF EnsurePodExists, Return
  <2>2. ServerSide' /\ PodVersionsAreUnique'
    BY <1>t, <2>1, ServerRead, PodRead
  <2>3. WorkerKnows'
    BY <1>t, <1>3 DEF EnsurePodExists, WorkerKnows, Goto
  <2>4. LivePodIsOwned'
    BY <1>t, <2>1 DEF LivePodIsOwned
  <2>5. QED
    BY <2>2, <2>3, <2>4
<1>4. CASE CreatePod
  <2>1. CASE StoreNewPod /\ Return(TRUE)
    <3>1. server.ex /\ server.fin
      BY <1>t, <1>4 DEF CreatePod, WorkerKnows, ServerSide, OldCopiesAreProtected,
                        KnownServers
    <3>2. UNCHANGED <<server, sWatch, cServer, cPod>> /\ srv' = NoServer /\ pd' = NoPod
      BY <1>4, <2>1 DEF CreatePod, Return
    <3>3. NewPod \in Pods /\ WritePod(NewPod)
      BY <1>t, <2>1, NewPodType DEF StoreNewPod
    <3>4. ServerSide' /\ PodVersionsAreUnique'
      BY <1>t, <3>2, <3>3, ServerRead, PodWrite
    <3>5. WorkerKnows' /\ LivePodIsOwned'
      BY <2>1, <3>1, <3>2 DEF Return, WorkerKnows, LivePodIsOwned
    <3>6. QED
      BY <3>4, <3>5
  <2>2. CASE pod.ex /\ Goto("updateAfterError")
             /\ UNCHANGED <<pod, pWatch, sidecar, historyVars, queued, srv, pd>>
    <3>1. UNCHANGED <<server, sWatch, cServer, pod, pWatch, cPod, srv, pd>>
      BY <1>4, <2>2 DEF CreatePod
    <3>2. QED
      BY <1>t, <1>4, <2>2, <3>1, ServerRead, PodRead
         DEF CreatePod, Goto, WorkerKnows, LivePodIsOwned
  <2>3. QED
    BY <1>4, <2>1, <2>2 DEF CreatePod
<1>5. CASE UpdateAfterError
  <2>1. ASSUME ServerCurrent, WriteServer([srv EXCEPT !.labelled = TRUE])
        PROVE  ServerSide' /\ server'.ex /\ server'.fin
    <3>1. srv.ex /\ srv.fin
      BY <1>t, <1>5 DEF UpdateAfterError, WorkerKnows
    <3>2. /\ [srv EXCEPT !.labelled = TRUE] \in Servers
          /\ [srv EXCEPT !.labelled = TRUE].ex /\ [srv EXCEPT !.labelled = TRUE].fin
      BY <1>t, <3>1 DEF TypeOK, Servers
    <3>3. srv' \in {srv, NoServer} /\ cServer' = cServer
      BY <1>5 DEF UpdateAfterError, Return
    <3>4. QED
      BY <1>t, <2>1, <3>2, <3>3, ServerWrite, ProtectedWrite
  <2>2. ASSUME ~ServerCurrent PROVE ServerSide' /\ server' = server
    BY <1>t, <1>5, <2>2, ServerRead DEF UpdateAfterError, Return
  <2>3. ServerSide'
    BY <1>5, <2>1, <2>2 DEF UpdateAfterError
  <2>4. LivePodIsOwned'
    BY <1>t, <1>5, <2>1, <2>2 DEF UpdateAfterError, LivePodIsOwned
  <2>5. PodVersionsAreUnique' /\ WorkerKnows'
    BY <1>t, <1>5, PodRead DEF UpdateAfterError, Return, WorkerKnows
  <2>6. QED
    BY <2>3, <2>4, <2>5
<1>6. CASE EnsurePodFinalizer
  <2>1. /\ UNCHANGED <<server, sWatch, cServer, pod, pWatch, cPod>>
        /\ srv' \in {srv, NoServer, cServer} /\ pd' \in {pd, NoPod, cPod}
    BY <1>6 DEF EnsurePodFinalizer, Return
  <2>2. ServerSide' /\ PodVersionsAreUnique'
    BY <1>t, <2>1, ServerRead, PodRead
  <2>3. WorkerKnows'
    BY <1>t, <1>6 DEF EnsurePodFinalizer, WorkerKnows, Return, Goto
  <2>4. LivePodIsOwned'
    BY <1>t, <2>1 DEF LivePodIsOwned
  <2>5. QED
    BY <2>2, <2>3, <2>4
<1>7. CASE AddPodFinalizer
  <2>1. UNCHANGED <<server, sWatch, cServer>> /\ cPod' = cPod
        /\ srv' \in {srv, NoServer} /\ pd' \in {pd, NoPod}
    BY <1>7 DEF AddPodFinalizer, Return
  <2>2. ASSUME PodCurrent /\ WritePod([pd EXCEPT !.fin = TRUE])
        PROVE  PodVersionsAreUnique' /\ (PodUp' => PodUp)
    <3>1. pd = pod
      BY <1>t, <2>2, CurrentPod
    <3>2. /\ [pd EXCEPT !.fin = TRUE] \in Pods
          /\ [pd EXCEPT !.fin = TRUE].ex /\ [pd EXCEPT !.fin = TRUE].del = "no" => PodUp
      BY <1>t, <3>1 DEF TypeOK, Pods, PodUp
    <3>3. QED
      BY <1>t, <2>1, <2>2, <3>2, PodWrite, PodUpWrite
  <2>3. ASSUME UNCHANGED <<pod, pWatch>> PROVE PodVersionsAreUnique' /\ (PodUp' => PodUp)
    BY <1>t, <2>1, <2>3, PodRead DEF PodUp
  <2>4. PodVersionsAreUnique' /\ (PodUp' => PodUp)
    BY <1>7, <2>2, <2>3 DEF AddPodFinalizer
  <2>5. ServerSide' /\ LivePodIsOwned'
    BY <1>t, <2>1, <2>4, ServerRead, OwnedStep
  <2>6. WorkerKnows'
    BY <1>t, <1>7, <2>1 DEF AddPodFinalizer, Return, WorkerKnows
  <2>7. QED
    BY <2>4, <2>5, <2>6
<1>8. CASE StatusUpdate
  <2>1. /\ UNCHANGED <<server, sWatch, cServer, pod, pWatch, cPod>>
        /\ srv' \in {srv, NoServer, cServer} /\ pd' \in {pd, NoPod, cPod}
    BY <1>8 DEF StatusUpdate, Return
  <2>2. ServerSide' /\ PodVersionsAreUnique'
    BY <1>t, <2>1, ServerRead, PodRead
  <2>3. WorkerKnows'
    BY <1>t, <1>8 DEF StatusUpdate, WorkerKnows, Return, Goto
  <2>4. LivePodIsOwned'
    BY <1>t, <2>1 DEF LivePodIsOwned
  <2>5. QED
    BY <2>2, <2>3, <2>4
<1>9. CASE HandleDeletion
  <2>1. /\ UNCHANGED <<server, sWatch, cServer, pod, pWatch, cPod>>
        /\ srv' \in {srv, NoServer, cServer} /\ pd' \in {pd, NoPod, cPod}
    BY <1>9 DEF HandleDeletion, Return
  <2>2. ServerSide' /\ PodVersionsAreUnique'
    BY <1>t, <2>1, ServerRead, PodRead
  <2>3. WorkerKnows'
    BY <1>t, <1>9 DEF HandleDeletion, WorkerKnows, Return, Goto, AfterAllowed
  <2>4. LivePodIsOwned'
    BY <1>t, <2>1 DEF LivePodIsOwned
  <2>5. QED
    BY <2>2, <2>3, <2>4
<1>10. CASE RequestShutdown
  <2>1. /\ UNCHANGED <<server, sWatch, cServer, pod, pWatch, cPod>>
        /\ srv' \in {srv, NoServer, cServer} /\ pd' \in {pd, NoPod, cPod}
    BY <1>10 DEF RequestShutdown, Return
  <2>2. ServerSide' /\ PodVersionsAreUnique'
    BY <1>t, <2>1, ServerRead, PodRead
  <2>3. WorkerKnows'
    BY <1>t, <1>10 DEF RequestShutdown, WorkerKnows, Return, Goto
  <2>4. LivePodIsOwned'
    BY <1>t, <2>1 DEF LivePodIsOwned
  <2>5. QED
    BY <2>2, <2>3, <2>4
<1>11. CASE IsDeleteAllowed
  <2>1. /\ UNCHANGED <<server, sWatch, cServer, pod, pWatch, cPod>>
        /\ srv' \in {srv, NoServer, cServer} /\ pd' \in {pd, NoPod, cPod}
    BY <1>11 DEF IsDeleteAllowed, Return
  <2>2. ServerSide' /\ PodVersionsAreUnique'
    BY <1>t, <2>1, ServerRead, PodRead
  <2>3. WorkerKnows'
    BY <1>t, <1>11 DEF IsDeleteAllowed, WorkerKnows, Return, Goto, AfterAllowed
  <2>4. LivePodIsOwned'
    BY <1>t, <2>1 DEF LivePodIsOwned
  <2>5. QED
    BY <2>2, <2>3, <2>4
<1>12. CASE RemovePodFinalizer
  <2>1. UNCHANGED <<server, sWatch, cServer>> /\ cPod' = cPod
        /\ srv' \in {srv, NoServer} /\ pd' \in {pd, NoPod}
    BY <1>12 DEF RemovePodFinalizer, Return
  <2>2. ASSUME PodCurrent /\ WritePod([pd EXCEPT !.fin = FALSE])
        PROVE  PodVersionsAreUnique' /\ (PodUp' => PodUp)
    <3>1. pd = pod
      BY <1>t, <2>2, CurrentPod
    <3>2. /\ [pd EXCEPT !.fin = FALSE] \in Pods
          /\ [pd EXCEPT !.fin = FALSE].ex /\ [pd EXCEPT !.fin = FALSE].del = "no" => PodUp
      BY <1>t, <3>1 DEF TypeOK, Pods, PodUp
    <3>3. QED
      BY <1>t, <2>1, <2>2, <3>2, PodWrite, PodUpWrite
  <2>3. ASSUME UNCHANGED <<pod, pWatch>> PROVE PodVersionsAreUnique' /\ (PodUp' => PodUp)
    BY <1>t, <2>1, <2>3, PodRead DEF PodUp
  <2>4. PodVersionsAreUnique' /\ (PodUp' => PodUp)
    BY <1>12, <2>2, <2>3 DEF RemovePodFinalizer
  <2>5. ServerSide' /\ LivePodIsOwned'
    BY <1>t, <2>1, <2>4, ServerRead, OwnedStep
  <2>6. WorkerKnows'
    BY <1>t, <1>12, <2>1 DEF RemovePodFinalizer, Return, Goto, WorkerKnows
  <2>7. QED
    BY <2>4, <2>5, <2>6
<1>13. CASE RegetPod
  <2>1. /\ UNCHANGED <<server, sWatch, cServer, pod, pWatch, cPod>>
        /\ srv' \in {srv, NoServer, cServer} /\ pd' \in {pd, NoPod, cPod}
    BY <1>13 DEF RegetPod, Return
  <2>2. ServerSide' /\ PodVersionsAreUnique'
    BY <1>t, <2>1, ServerRead, PodRead
  <2>3. WorkerKnows'
    BY <1>t, <1>13 DEF RegetPod, WorkerKnows, Return, Goto
  <2>4. LivePodIsOwned'
    BY <1>t, <2>1 DEF LivePodIsOwned
  <2>5. QED
    BY <2>2, <2>3, <2>4
<1>14. CASE DeletePod
  <2>1. UNCHANGED <<server, sWatch, cServer>> /\ cPod' = cPod
        /\ srv' \in {srv, NoServer} /\ pd' \in {pd, NoPod}
    BY <1>14 DEF DeletePod, Return
  <2>2. ASSUME pod.ex, pc' = "removeFinalizer", srv' = srv,
               \E mark \in DeletionMarks(pod) : WritePod([pod EXCEPT !.del = mark])
        PROVE  PodVersionsAreUnique' /\ WorkerKnows' /\ (PodUp' => PodUp)
    <3>1. PICK mark \in DeletionMarks(pod) : WritePod([pod EXCEPT !.del = mark])
      BY <2>2
    <3>2. [pod EXCEPT !.del = mark] \in Pods /\ [pod EXCEPT !.del = mark].del # "no"
      BY <1>t, <3>1 DEF DeletionMarks, TypeOK, Pods
    <3>3. ~PodUp'
      BY <1>t, <3>1, <3>2, MarkedPodIsDown
    <3>4. PodVersionsAreUnique'
      BY <1>t, <2>1, <3>1, <3>2, PodWrite
    <3>5. WorkerKnows'
      BY <1>t, <1>14, <2>2, <3>3 DEF DeletePod, WorkerKnows, PodUp
    <3>6. QED
      BY <3>3, <3>4, <3>5
  <2>3. ASSUME UNCHANGED <<pod, pWatch>>, Return(TRUE)
        PROVE  PodVersionsAreUnique' /\ WorkerKnows' /\ (PodUp' => PodUp)
    BY <1>t, <2>1, <2>3, PodRead DEF PodUp, Return, WorkerKnows
  <2>4. PodVersionsAreUnique' /\ WorkerKnows' /\ (PodUp' => PodUp)
    BY <1>14, <2>2, <2>3 DEF DeletePod, Goto
  <2>5. ServerSide' /\ LivePodIsOwned'
    BY <1>t, <2>1, <2>4, ServerRead, OwnedStep
  <2>6. QED
    BY <2>4, <2>5
<1>15. CASE RemoveFinalizer
  <2>1. ASSUME ServerCurrent, WriteServer([srv EXCEPT !.fin = FALSE])
        PROVE  ServerSide'
    <3>1. srv = server
      BY <1>t, <2>1, CurrentServer
    <3>2. srv.ex /\ srv.del
      BY <1>t, <1>15 DEF RemoveFinalizer, WorkerKnows
    <3>3. \A v \in KnownServers : v.rv = server.rv
      BY <1>t, <3>1 DEF ServerSide, CachesMoveForward, ServerVersionsAreUnique,
                        KnownServers, TypeOK, Servers
    <3>4. \A v \in KnownServers : ~(v.ex /\ v.fin /\ ~v.del)
      BY <1>t, <3>1, <3>2, <3>3 DEF ServerSide, ServerVersionsAreUnique
    <3>5. [srv EXCEPT !.fin = FALSE] \in Servers /\ [srv EXCEPT !.fin = FALSE].ex
      BY <1>t, <3>2 DEF TypeOK, Servers
    <3>6. srv' \in {srv, NoServer} /\ cServer' = cServer
      BY <1>15 DEF RemoveFinalizer, Return
    <3>7. QED
      BY <1>t, <2>1, <3>4, <3>5, <3>6, ServerWrite
  <2>2. ASSUME ~ServerCurrent PROVE ServerSide' /\ server' = server
    BY <1>t, <1>15, <2>2, ServerRead DEF RemoveFinalizer, Return
  <2>3. ServerSide'
    BY <1>15, <2>1, <2>2 DEF RemoveFinalizer
  <2>4. LivePodIsOwned'
    BY <1>t, <1>15 DEF RemoveFinalizer, LivePodIsOwned, WorkerKnows
  <2>5. PodVersionsAreUnique' /\ WorkerKnows'
    BY <1>t, <1>15, PodRead DEF RemoveFinalizer, Return, WorkerKnows
  <2>6. QED
    BY <2>3, <2>4, <2>5
<1>16. CASE CallFails
  <2>1. /\ UNCHANGED <<server, sWatch, cServer>> /\ cPod' = cPod
        /\ srv' \in {srv, NoServer} /\ pd' \in {pd, NoPod}
    BY <1>16 DEF CallFails, Return
  <2>2. ServerSide'
    BY <1>t, <2>1, ServerRead
  <2>3. ASSUME StoreNewPod, pc = "createPod"
        PROVE  PodVersionsAreUnique' /\ LivePodIsOwned'
    <3>1. server.ex /\ server.fin
      BY <1>t, <2>3 DEF WorkerKnows, ServerSide, OldCopiesAreProtected, KnownServers
    <3>2. NewPod \in Pods /\ WritePod(NewPod)
      BY <1>t, <2>3, NewPodType DEF StoreNewPod
    <3>3. QED
      BY <1>t, <2>1, <3>1, <3>2, PodWrite DEF LivePodIsOwned
  <2>4. ASSUME UNCHANGED <<pod, pWatch>> PROVE PodVersionsAreUnique' /\ LivePodIsOwned'
    BY <1>t, <2>1, <2>4, PodRead DEF LivePodIsOwned
  <2>5. PodVersionsAreUnique' /\ LivePodIsOwned'
    BY <1>16, <2>3, <2>4 DEF CallFails
  <2>6. WorkerKnows'
    BY <1>t, <1>16 DEF CallFails, Return, Goto, WorkerKnows
  <2>7. QED
    BY <2>2, <2>5, <2>6
<1>17. CASE Crash
  <2>1. /\ UNCHANGED <<server, pod>> /\ cServer' = server /\ srv' = NoServer
        /\ sWatch' = {} /\ pWatch' = {} /\ cPod' = pod /\ pd' = NoPod /\ pc' = "idle"
    BY <1>17 DEF Crash
  <2>2. /\ KnownServers' = {server, NoServer} /\ KnownPods' = {pod, NoPod}
        /\ NoServer.rv = 0 /\ NoPod.rv = 0 /\ ~NoServer.ex
        /\ server.rv \in Nat /\ pod.rv \in Nat
    BY <1>t, <2>1 DEF KnownServers, KnownPods, NoServer, NoPod, TypeOK, Servers, Pods
  <2>3. ServerSide'
    BY <1>t, <2>1, <2>2 DEF ServerSide, ServerVersionsAreUnique, CachesMoveForward,
                            Settled, OldCopiesAreProtected
  <2>4. PodVersionsAreUnique'
    BY <1>t, <2>1, <2>2 DEF PodVersionsAreUnique
  <2>5. WorkerKnows' /\ LivePodIsOwned'
    BY <1>t, <2>1 DEF WorkerKnows, LivePodIsOwned
  <2>6. QED
    BY <2>3, <2>4, <2>5
<1>18. CASE DeliverServer
  <2>1. PICK v \in sWatch : cServer' = v /\ sWatch' = {w \in sWatch : w.rv > v.rv}
    BY <1>18 DEF DeliverServer
  <2>2. UNCHANGED <<server, pod, pWatch, cPod, pc, srv, pd>>
    BY <1>18 DEF DeliverServer
  <2>3. KnownServers' \subseteq KnownServers
    BY <2>1, <2>2 DEF KnownServers
  <2>4. srv.rv \in Nat /\ cServer.rv \in Nat /\ \A w \in sWatch : w.rv \in Nat
    BY <1>t DEF TypeOK, Servers
  <2>5. CachesMoveForward'
    BY <1>t, <2>1, <2>2, <2>4 DEF ServerSide, CachesMoveForward
  <2>6. ServerSide'
    BY <1>t, <2>2, <2>3, <2>5 DEF ServerSide, ServerVersionsAreUnique, Settled,
                                  OldCopiesAreProtected
  <2>7. PodVersionsAreUnique' /\ WorkerKnows' /\ LivePodIsOwned'
    BY <1>t, <2>2, PodRead DEF WorkerKnows, LivePodIsOwned
  <2>8. QED
    BY <2>6, <2>7
<1>19. CASE DeliverPod
  <2>1. PICK v \in pWatch : cPod' = v /\ pWatch' = {w \in pWatch : w.rv > v.rv}
    BY <1>19 DEF DeliverPod
  <2>2. UNCHANGED <<server, sWatch, cServer, pod, pc, srv, pd>>
    BY <1>19 DEF DeliverPod
  <2>3. KnownPods' \subseteq KnownPods
    BY <2>1, <2>2 DEF KnownPods
  <2>4. PodVersionsAreUnique'
    BY <1>t, <2>2, <2>3 DEF PodVersionsAreUnique
  <2>5. ServerSide' /\ WorkerKnows' /\ LivePodIsOwned'
    BY <1>t, <2>2, ServerRead DEF WorkerKnows, LivePodIsOwned
  <2>6. QED
    BY <2>4, <2>5
<1>20. CASE CreateServer
  <2>1. PICK force \in BOOLEAN, labelled \in BOOLEAN :
            WriteServer([NoServer EXCEPT !.ex = TRUE, !.force = force,
                                         !.labelled = labelled])
    BY <1>20 DEF CreateServer
  <2> DEFINE s == [NoServer EXCEPT !.ex = TRUE, !.force = force, !.labelled = labelled]
  <2>2. s \in Servers /\ s.ex
    BY DEF NoServer, Servers
  <2>3. server = NoServer /\ \A v \in KnownServers : ~v.ex
    BY <1>t, <1>20 DEF CreateServer, ServerSide, ServerVersionsAreUnique, KnownServers,
                      TypeOK, Servers, NoServer
  <2>4. UNCHANGED <<pod, pWatch, cServer, cPod, srv, pd, pc>>
    BY <1>20 DEF CreateServer
  <2>5. ServerSide'
    <3> HIDE DEF s
    <3>1. WriteServer(s)
      BY <2>1 DEF s
    <3>2. QED
      BY <1>t, <2>2, <2>3, <2>4, <3>1, ServerWrite
  <2>6. PodVersionsAreUnique' /\ WorkerKnows'
    BY <1>t, <2>4, PodRead DEF WorkerKnows
  <2>7. LivePodIsOwned'
    BY <1>t, <2>3, <2>4 DEF LivePodIsOwned, NoServer
  <2>8. QED
    BY <2>5, <2>6, <2>7
<1>21. CASE DeleteServer
  <2> DEFINE s == [server EXCEPT !.del = TRUE]
  <2>1. s \in Servers /\ s.ex /\ s.fin = server.fin
    BY <1>t, <1>21 DEF DeleteServer, TypeOK, Servers
  <2>2. WriteServer(s) /\ UNCHANGED <<pod, pWatch, cServer, cPod, srv, pd, pc>>
    BY <1>21 DEF DeleteServer
  <2> HIDE DEF s
  <2>3. ServerSide'
    <3>1. s.fin \/ \A v \in KnownServers : ~(v.ex /\ v.fin /\ ~v.del)
      BY <1>t, <2>1 DEF ServerSide, OldCopiesAreProtected
    <3>2. QED
      BY <1>t, <2>1, <2>2, <3>1, ServerWrite
  <2>4. PodVersionsAreUnique' /\ WorkerKnows'
    BY <1>t, <2>2, PodRead DEF WorkerKnows
  <2>5. server.ex /\ server.fin => server'.ex /\ server'.fin
    BY <1>t, <2>1, <2>2, ProtectedWrite
  <2>6. LivePodIsOwned'
    BY <1>t, <2>2, <2>5, OwnedStep DEF PodUp
  <2>7. QED
    BY <2>3, <2>4, <2>6
<1>22. CASE EditServer
  <2> DEFINE s == [server EXCEPT !.force = ~@]
  <2>1. s \in Servers /\ s.ex /\ s.fin = server.fin
    BY <1>t, <1>22 DEF EditServer, TypeOK, Servers
  <2>2. WriteServer(s) /\ UNCHANGED <<pod, pWatch, cServer, cPod, srv, pd, pc>>
    BY <1>22 DEF EditServer
  <2> HIDE DEF s
  <2>3. ServerSide'
    <3>1. s.fin \/ \A v \in KnownServers : ~(v.ex /\ v.fin /\ ~v.del)
      BY <1>t, <2>1 DEF ServerSide, OldCopiesAreProtected
    <3>2. QED
      BY <1>t, <2>1, <2>2, <3>1, ServerWrite
  <2>4. PodVersionsAreUnique' /\ WorkerKnows'
    BY <1>t, <2>2, PodRead DEF WorkerKnows
  <2>5. server.ex /\ server.fin => server'.ex /\ server'.fin
    BY <1>t, <2>1, <2>2, ProtectedWrite
  <2>6. LivePodIsOwned'
    BY <1>t, <2>2, <2>5, OwnedStep DEF PodUp
  <2>7. QED
    BY <2>3, <2>4, <2>6
<1>23. CASE Expire
  <2>1. UNCHANGED <<server, sWatch, cServer, pod, pWatch, cPod, pc, srv, pd>>
    BY <1>23 DEF Expire
  <2>2. QED
    BY <1>t, <2>1, ServerRead, PodRead DEF WorkerKnows, LivePodIsOwned
<1>24. CASE PodStarts
  <2> DEFINE p == [pod EXCEPT !.phase = "Running"]
  <2>1. p \in Pods /\ (p.ex /\ p.del = "no" => PodUp)
    BY <1>t DEF TypeOK, Pods, Phases, PodUp
  <2>2. WritePod(p) /\ UNCHANGED <<server, sWatch, cServer, cPod, srv, pd, pc>>
    BY <1>24 DEF PodStarts
  <2> HIDE DEF p
  <2>3. PodVersionsAreUnique' /\ (PodUp' => PodUp)
    BY <1>t, <2>1, <2>2, PodWrite, PodUpWrite
  <2>4. ServerSide' /\ LivePodIsOwned'
    BY <1>t, <2>2, <2>3, ServerRead, OwnedStep
  <2>5. WorkerKnows'
    BY <1>t, <2>2, <2>3 DEF WorkerKnows, PodUp
  <2>6. QED
    BY <2>3, <2>4, <2>5
<1>25. CASE PodEnds
  <2> DEFINE p == [pod EXCEPT !.phase = "Done"]
  <2>1. p \in Pods /\ (p.ex /\ p.del = "no" => PodUp)
    BY <1>t DEF TypeOK, Pods, Phases, PodUp
  <2>2. WritePod(p) /\ UNCHANGED <<server, sWatch, cServer, cPod, srv, pd, pc>>
    BY <1>25 DEF PodEnds
  <2> HIDE DEF p
  <2>3. PodVersionsAreUnique' /\ (PodUp' => PodUp)
    BY <1>t, <2>1, <2>2, PodWrite, PodUpWrite
  <2>4. ServerSide' /\ LivePodIsOwned'
    BY <1>t, <2>2, <2>3, ServerRead, OwnedStep
  <2>5. WorkerKnows'
    BY <1>t, <2>2, <2>3 DEF WorkerKnows, PodUp
  <2>6. QED
    BY <2>3, <2>4, <2>5
<1>26. CASE EvictPod
  <2>1. PICK mark \in DeletionMarks(pod) : WritePod([pod EXCEPT !.del = mark])
    BY <1>26 DEF EvictPod
  <2> DEFINE p == [pod EXCEPT !.del = mark]
  <2>2. p \in Pods /\ p.del # "no"
    BY <1>t, <2>1 DEF DeletionMarks, TypeOK, Pods
  <2>3. UNCHANGED <<server, sWatch, cServer, cPod, srv, pd, pc>> /\ WritePod(p)
    BY <1>26, <2>1 DEF EvictPod
  <2> HIDE DEF p
  <2>4. PodVersionsAreUnique' /\ (PodUp' => PodUp)
    BY <1>t, <2>2, <2>3, PodWrite, PodUpWrite
  <2>5. ServerSide' /\ LivePodIsOwned'
    BY <1>t, <2>3, <2>4, ServerRead, OwnedStep
  <2>6. WorkerKnows'
    BY <1>t, <2>3, <2>4 DEF WorkerKnows, PodUp
  <2>7. QED
    BY <2>4, <2>5, <2>6
<1>27. CASE ReapPod
  <2> DEFINE p == [pod EXCEPT !.del = "now"]
  <2>1. p \in Pods /\ (p.ex /\ p.del = "no" => PodUp)
    BY <1>t DEF TypeOK, Pods, Phases, PodUp
  <2>2. WritePod(p) /\ UNCHANGED <<server, sWatch, cServer, cPod, srv, pd, pc>>
    BY <1>27 DEF ReapPod
  <2> HIDE DEF p
  <2>3. PodVersionsAreUnique' /\ (PodUp' => PodUp)
    BY <1>t, <2>1, <2>2, PodWrite, PodUpWrite
  <2>4. ServerSide' /\ LivePodIsOwned'
    BY <1>t, <2>2, <2>3, ServerRead, OwnedStep
  <2>5. WorkerKnows'
    BY <1>t, <2>2, <2>3 DEF WorkerKnows, PodUp
  <2>6. QED
    BY <2>3, <2>4, <2>5
<1>28. CASE SidecarRestarts
  <2>1. UNCHANGED <<server, sWatch, cServer, pod, pWatch, cPod, pc, srv, pd>>
    BY <1>28 DEF SidecarRestarts
  <2>2. QED
    BY <1>t, <2>1, ServerRead, PodRead DEF WorkerKnows, LivePodIsOwned
<1>29. CASE GameSetsAllowed
  <2>1. UNCHANGED <<server, sWatch, cServer, pod, pWatch, cPod, pc, srv, pd>>
    BY <1>29 DEF GameSetsAllowed
  <2>2. QED
    BY <1>t, <2>1, ServerRead, PodRead DEF WorkerKnows, LivePodIsOwned
<1>30. CASE UNCHANGED vars
  <2>1. UNCHANGED <<server, sWatch, cServer, pod, pWatch, cPod, pc, srv, pd>>
    BY <1>30 DEF vars
  <2>2. QED
    BY <1>t, <2>1, ServerRead, PodRead DEF WorkerKnows, LivePodIsOwned
<1>31. QED
  BY <1>1, <1>2, <1>3, <1>4, <1>5, <1>6, <1>7, <1>8, <1>9, <1>10, <1>11, <1>12, <1>13, <1>14, <1>15, <1>16, <1>17, <1>18, <1>19, <1>20, <1>21, <1>22, <1>23, <1>24, <1>25, <1>26, <1>27, <1>28, <1>29, <1>30 DEF Next, Worker, Environment

LEMMA InvInit == Init => ServerInv
<1> SUFFICES ASSUME Init PROVE ServerInv
  OBVIOUS
<1>1. TypeOK
  BY InitType
<1>2. KnownServers = {NoServer} /\ KnownPods = {NoPod}
  BY DEF Init, KnownServers, KnownPods
<1>3. NoServer.rv = 0 /\ NoPod.rv = 0 /\ ~NoServer.ex /\ ~NoServer.del /\ ~NoPod.ex
  BY DEF NoServer, NoPod
<1>4. QED
  BY <1>1, <1>2, <1>3
     DEF Init, ServerInv, ServerVersionsAreUnique, PodVersionsAreUnique,
         CachesMoveForward, Settled, OldCopiesAreProtected, WorkerKnows, LivePodIsOwned

\* The inductive invariant holds in every reachable state: what Reconcile may
\* conclude, at each of its calls, from the old copies its caches gave it.
THEOREM InvCorrect == Spec => []ServerInv
  BY InvInit, InvStep, PTL DEF Spec

\* For every bound: a pod nobody asked to go has a server that exists and is
\* protected by its finalizer, whatever the caches showed ensurePodExists and
\* handleDeletion and wherever the operator was restarted.
THEOREM LivePodAlwaysOwned == Spec => []LivePodIsOwned
<1>1. ServerInv => LivePodIsOwned
  BY DEF ServerInv
<1>2. QED
  BY <1>1, InvCorrect, PTL

LEMMA NewPodIsUp ==
    ASSUME TypeOK, ~pod.ex, WritePod(NewPod)
    PROVE  PodUp'
<1>1. NewPod # pod /\ NewPod.del = "no" /\ NewPod.ex
  BY DEF NewPod
<1>2. pod' = [NewPod EXCEPT !.rv = pod.rv + 1]
  BY <1>1 DEF WritePod, SettlePod, NewPod
<1>3. QED
  BY <1>1, <1>2 DEF NewPod, PodUp

-----------------------------------------------------------------------------
(* The controller implements ServerLife *)

\* A step that leaves the stored server alone and brings up no pod is a
\* stuttering step or a StopPod of ServerLife.
LEMMA LifeQuiet ==
    ASSUME server' = server, PodUp' => PodUp
    PROVE  [Promise!Next]_(Promise!vars)
<1>1. Life' = Life
  BY DEF Life
<1>2. QED
  BY <1>1 DEF PodUp, Promise!Next, Promise!StopPod, Promise!vars

\* So is a write of the server that keeps it where it is in its life.
LEMMA LifeSame ==
    ASSUME Life' = Life, UNCHANGED pod
    PROVE  [Promise!Next]_(Promise!vars)
  BY DEF Promise!vars

\* A write keeps the life of a server that has its finalizer or is not going.
LEMMA LifeWrite ==
    ASSUME TypeOK, NEW s \in Servers, WriteServer(s), server.ex, server.rv # 0,
           s.ex, s.del = server.del, s.del => s.fin
    PROVE  Life' = Life
<1>1. CASE s = server
  BY <1>1 DEF WriteServer, Life
<1>2. CASE s # server
  <2>1. server' = [s EXCEPT !.rv = server.rv + 1]
    BY <1>2 DEF WriteServer, SettleServer, Servers
  <2>2. server'.rv # 0 /\ server'.ex /\ server'.del = server.del
    BY <2>1 DEF TypeOK, Servers
  <2>3. QED
    BY <2>2 DEF Life
<1>3. QED
  BY <1>1, <1>2

LEMMA LifeStep ==
    ASSUME ServerInv, [Next]_vars
    PROVE  [Promise!Next]_(Promise!vars)
<1>t. /\ TypeOK /\ ServerSide /\ PodVersionsAreUnique
      /\ WorkerKnows /\ LivePodIsOwned
  BY InvParts
<1>e. server.ex => server.rv # 0
  BY <1>t DEF ServerSide, ServerVersionsAreUnique, NoServer
<1> USE DEF apiVars, cacheVars, workerVars, budgetVars, historyVars
<1>1. CASE Reconcile
  BY <1>1, LifeQuiet DEF Reconcile, PodUp
<1>2. CASE AddFinalizer
  <2>1. UNCHANGED pod
    BY <1>2 DEF AddFinalizer
  <2>2. ASSUME ServerCurrent, WriteServer([srv EXCEPT !.fin = TRUE])
        PROVE  Life' = Life
    <3>1. srv = server /\ server.ex
      BY <1>t, <2>2, CurrentServer DEF ServerCurrent
    <3>2. ~srv.del
      BY <1>t, <1>2 DEF AddFinalizer, WorkerKnows
    <3>3. /\ [srv EXCEPT !.fin = TRUE] \in Servers
          /\ [srv EXCEPT !.fin = TRUE].ex
          /\ [srv EXCEPT !.fin = TRUE].del = server.del
          /\ ~[srv EXCEPT !.fin = TRUE].del
      BY <1>t, <3>1, <3>2 DEF TypeOK, Servers
    <3>4. QED
      BY <1>t, <1>e, <2>2, <3>1, <3>3, LifeWrite
  <2>3. ASSUME UNCHANGED server PROVE Life' = Life
    BY <2>3 DEF Life
  <2>4. QED
    BY <1>2, <2>1, <2>2, <2>3, LifeSame DEF AddFinalizer
<1>3. CASE EnsurePodExists
  BY <1>3, LifeQuiet DEF EnsurePodExists, PodUp
<1>4. CASE CreatePod
  <2>1. ASSUME StoreNewPod, pc = "createPod", server' = server
        PROVE  [Promise!Next]_(Promise!vars)
    <3>1. server.ex /\ server.fin
      BY <1>t, <2>1 DEF WorkerKnows, ServerSide, OldCopiesAreProtected, KnownServers
    <3>2. Life' = Life /\ Life \in {"live", "terminating"}
      BY <1>e, <2>1, <3>1 DEF Life
    <3>3. ~PodUp /\ PodUp'
      BY <1>t, <2>1, NewPodIsUp DEF PodUp, StoreNewPod
    <3>4. QED
      BY <3>2, <3>3 DEF Promise!Next, Promise!StartPod, PodUp
  <2>2. ASSUME UNCHANGED <<server, pod>> PROVE [Promise!Next]_(Promise!vars)
    BY <2>2, LifeQuiet DEF PodUp
  <2>3. QED
    BY <1>4, <2>1, <2>2 DEF CreatePod
<1>5. CASE UpdateAfterError
  <2>1. UNCHANGED pod
    BY <1>5 DEF UpdateAfterError
  <2>2. ASSUME ServerCurrent, WriteServer([srv EXCEPT !.labelled = TRUE])
        PROVE  Life' = Life
    <3>1. srv = server /\ server.ex
      BY <1>t, <2>2, CurrentServer DEF ServerCurrent
    <3>2. ~srv.del
      BY <1>t, <1>5 DEF UpdateAfterError, WorkerKnows
    <3>3. /\ [srv EXCEPT !.labelled = TRUE] \in Servers
          /\ [srv EXCEPT !.labelled = TRUE].ex
          /\ [srv EXCEPT !.labelled = TRUE].del = server.del
          /\ ~[srv EXCEPT !.labelled = TRUE].del
      BY <1>t, <3>1, <3>2 DEF TypeOK, Servers
    <3>4. QED
      BY <1>t, <1>e, <2>2, <3>1, <3>3, LifeWrite
  <2>3. ASSUME UNCHANGED server PROVE Life' = Life
    BY <2>3 DEF Life
  <2>4. QED
    BY <1>5, <2>1, <2>2, <2>3, LifeSame DEF UpdateAfterError
<1>6. CASE EnsurePodFinalizer
  BY <1>6, LifeQuiet DEF EnsurePodFinalizer, PodUp
<1>7. CASE AddPodFinalizer
  <2>1. server' = server
    BY <1>7 DEF AddPodFinalizer
  <2>2. ASSUME PodCurrent, WritePod([pd EXCEPT !.fin = TRUE]) PROVE PodUp' => PodUp
    <3>1. pd = pod
      BY <1>t, <2>2, CurrentPod
    <3>2. [pd EXCEPT !.fin = TRUE] \in Pods /\ ([pd EXCEPT !.fin = TRUE].ex /\ [pd EXCEPT !.fin = TRUE].del = "no" => PodUp)
      BY <1>t, <3>1 DEF TypeOK, Pods, PodUp
    <3>3. QED
      BY <1>t, <2>2, <3>2, PodUpWrite
  <2>3. ASSUME UNCHANGED pod PROVE PodUp' => PodUp
    BY <2>3 DEF PodUp
  <2>4. PodUp' => PodUp
    BY <1>7, <2>2, <2>3 DEF AddPodFinalizer
  <2>5. QED
    BY <2>1, <2>4, LifeQuiet
<1>8. CASE StatusUpdate
  BY <1>8, LifeQuiet DEF StatusUpdate, PodUp
<1>9. CASE HandleDeletion
  BY <1>9, LifeQuiet DEF HandleDeletion, PodUp
<1>10. CASE RequestShutdown
  BY <1>10, LifeQuiet DEF RequestShutdown, PodUp
<1>11. CASE IsDeleteAllowed
  BY <1>11, LifeQuiet DEF IsDeleteAllowed, PodUp
<1>12. CASE RemovePodFinalizer
  <2>1. server' = server
    BY <1>12 DEF RemovePodFinalizer
  <2>2. ASSUME PodCurrent, WritePod([pd EXCEPT !.fin = FALSE]) PROVE PodUp' => PodUp
    <3>1. pd = pod
      BY <1>t, <2>2, CurrentPod
    <3>2. [pd EXCEPT !.fin = FALSE] \in Pods /\ ([pd EXCEPT !.fin = FALSE].ex /\ [pd EXCEPT !.fin = FALSE].del = "no" => PodUp)
      BY <1>t, <3>1 DEF TypeOK, Pods, PodUp
    <3>3. QED
      BY <1>t, <2>2, <3>2, PodUpWrite
  <2>3. ASSUME UNCHANGED pod PROVE PodUp' => PodUp
    BY <2>3 DEF PodUp
  <2>4. PodUp' => PodUp
    BY <1>12, <2>2, <2>3 DEF RemovePodFinalizer
  <2>5. QED
    BY <2>1, <2>4, LifeQuiet
<1>13. CASE RegetPod
  BY <1>13, LifeQuiet DEF RegetPod, PodUp
<1>14. CASE DeletePod
  <2>1. server' = server
    BY <1>14 DEF DeletePod
  <2>2. ASSUME NEW mark \in DeletionMarks(pod), WritePod([pod EXCEPT !.del = mark])
        PROVE  PodUp' => PodUp
    <3>1. [pod EXCEPT !.del = mark] \in Pods /\ [pod EXCEPT !.del = mark].del # "no"
      BY <1>t DEF DeletionMarks, TypeOK, Pods
    <3>2. QED
      BY <1>t, <2>2, <3>1, MarkedPodIsDown
  <2>3. ASSUME UNCHANGED pod PROVE PodUp' => PodUp
    BY <2>3 DEF PodUp
  <2>4. PodUp' => PodUp
    BY <1>14, <2>2, <2>3 DEF DeletePod
  <2>5. QED
    BY <2>1, <2>4, LifeQuiet
<1>15. CASE RemoveFinalizer
  <2>1. UNCHANGED pod /\ srv.del /\ ~PodUp
    BY <1>t, <1>15 DEF RemoveFinalizer, WorkerKnows, PodUp
  <2>2. ASSUME ServerCurrent, WriteServer([srv EXCEPT !.fin = FALSE])
        PROVE  [Promise!Next]_(Promise!vars)
    <3>1. srv = server /\ server.ex
      BY <1>t, <2>2, CurrentServer DEF ServerCurrent
    <3>2. server.fin
      BY <1>t, <2>1, <3>1 DEF ServerSide, Settled
    <3>3. /\ [srv EXCEPT !.fin = FALSE] # server
          /\ [srv EXCEPT !.fin = FALSE].del /\ ~[srv EXCEPT !.fin = FALSE].fin
      BY <1>t, <2>1, <3>1, <3>2 DEF TypeOK, Servers
    <3>4. ~server'.ex /\ server'.rv = server.rv + 1
      BY <1>t, <2>2, <3>1, <3>3 DEF WriteServer, SettleServer, NoServer, TypeOK, Servers
    <3>5. Life = "terminating" /\ Life' = "gone"
      BY <1>t, <1>e, <2>1, <3>1, <3>4 DEF Life, TypeOK, Servers
    <3>6. QED
      BY <2>1, <3>5 DEF Promise!Next, Promise!Finalise, PodUp
  <2>3. ASSUME UNCHANGED server PROVE [Promise!Next]_(Promise!vars)
    BY <2>1, <2>3, LifeQuiet DEF PodUp
  <2>4. QED
    BY <1>15, <2>2, <2>3 DEF RemoveFinalizer
<1>16. CASE CallFails
  <2>1. ASSUME StoreNewPod, pc = "createPod", server' = server
        PROVE  [Promise!Next]_(Promise!vars)
    <3>1. server.ex /\ server.fin
      BY <1>t, <2>1 DEF WorkerKnows, ServerSide, OldCopiesAreProtected, KnownServers
    <3>2. Life' = Life /\ Life \in {"live", "terminating"}
      BY <1>e, <2>1, <3>1 DEF Life
    <3>3. ~PodUp /\ PodUp'
      BY <1>t, <2>1, NewPodIsUp DEF PodUp, StoreNewPod
    <3>4. QED
      BY <3>2, <3>3 DEF Promise!Next, Promise!StartPod, PodUp
  <2>2. ASSUME UNCHANGED <<server, pod>> PROVE [Promise!Next]_(Promise!vars)
    BY <2>2, LifeQuiet DEF PodUp
  <2>3. QED
    BY <1>16, <2>1, <2>2 DEF CallFails
<1>17. CASE Crash
  BY <1>17, LifeQuiet DEF Crash, PodUp
<1>18. CASE DeliverServer
  BY <1>18, LifeQuiet DEF DeliverServer, PodUp
<1>19. CASE DeliverPod
  BY <1>19, LifeQuiet DEF DeliverPod, PodUp
<1>20. CASE CreateServer
  <2>1. PICK force \in BOOLEAN, labelled \in BOOLEAN :
            WriteServer([NoServer EXCEPT !.ex = TRUE, !.force = force,
                                         !.labelled = labelled])
    BY <1>20 DEF CreateServer
  <2>2. server = NoServer /\ UNCHANGED pod
    BY <1>t, <1>20 DEF CreateServer, ServerSide, ServerVersionsAreUnique
  <2> DEFINE s == [NoServer EXCEPT !.ex = TRUE, !.force = force, !.labelled = labelled]
  <2>a. s \in Servers /\ s.ex /\ ~s.del /\ s # server
    BY <2>2 DEF NoServer, Servers
  <2>b. WriteServer(s)
    BY <2>1
  <2> HIDE DEF s
  <2>c. server' = [s EXCEPT !.rv = server.rv + 1] /\ server.rv = 0
    BY <2>2, <2>a, <2>b DEF WriteServer, SettleServer, NoServer, Servers
  <2>3. server'.ex /\ ~server'.del /\ server'.rv = 1
    BY <2>a, <2>c DEF Servers
  <2>4. Life = "none" /\ Life' = "live"
    BY <2>2, <2>3 DEF Life, NoServer
  <2>5. QED
    BY <2>2, <2>4 DEF Promise!Next, Promise!Create
<1>21. CASE DeleteServer
  <2>1. /\ server.ex /\ ~server.del /\ UNCHANGED pod
        /\ WriteServer([server EXCEPT !.del = TRUE])
    BY <1>21 DEF DeleteServer
  <2>2. [server EXCEPT !.del = TRUE].del /\ [server EXCEPT !.del = TRUE] # server
    BY <1>t, <2>1 DEF TypeOK, Servers
  <2>3. server'.rv = server.rv + 1 /\ server.rv \in Nat
    BY <1>t, <2>1, <2>2 DEF WriteServer, SettleServer, NoServer, TypeOK, Servers
  <2>4. Life = "live"
    BY <1>e, <2>1 DEF Life
  <2>5. CASE server.fin
    <3>1. server'.ex /\ server'.del
      BY <1>t, <2>1, <2>2, <2>5 DEF WriteServer, SettleServer, TypeOK, Servers
    <3>2. Life' = "terminating"
      BY <2>3, <3>1 DEF Life
    <3>3. QED
      BY <2>1, <2>4, <3>2 DEF Promise!Next, Promise!Delete
  <2>6. CASE ~server.fin
    <3>1. ~server'.ex
      BY <1>t, <2>1, <2>2, <2>6 DEF WriteServer, SettleServer, NoServer, TypeOK, Servers
    <3>2. Life' = "gone"
      BY <2>3, <3>1 DEF Life
    <3>3. ~PodUp
      BY <1>t, <2>6 DEF LivePodIsOwned, PodUp
    <3>4. QED
      BY <2>1, <2>4, <3>2, <3>3 DEF Promise!Next, Promise!Delete, PodUp
  <2>7. QED
    BY <2>5, <2>6
<1>22. CASE EditServer
  <2>1. /\ server.ex /\ UNCHANGED pod
        /\ WriteServer([server EXCEPT !.force = ~@])
    BY <1>22 DEF EditServer
  <2>2. server.del => server.fin
    BY <1>t DEF ServerSide, Settled
  <2>3. /\ [server EXCEPT !.force = ~@] \in Servers
        /\ [server EXCEPT !.force = ~@].ex
        /\ [server EXCEPT !.force = ~@].del = server.del
        /\ [server EXCEPT !.force = ~@].fin = server.fin
    BY <1>t, <2>1 DEF TypeOK, Servers
  <2>4. Life' = Life
    BY <1>t, <1>e, <2>1, <2>2, <2>3, LifeWrite
  <2>5. QED
    BY <2>1, <2>4, LifeSame
<1>23. CASE Expire
  BY <1>23, LifeQuiet DEF Expire, PodUp
<1>24. CASE PodStarts
  <2>1. server' = server /\ WritePod([pod EXCEPT !.phase = "Running"])
    BY <1>24 DEF PodStarts
  <2>2. [pod EXCEPT !.phase = "Running"] \in Pods /\ ([pod EXCEPT !.phase = "Running"].ex /\ [pod EXCEPT !.phase = "Running"].del = "no" => PodUp)
    BY <1>t DEF TypeOK, Pods, Phases, PodUp
  <2>3. QED
    BY <1>t, <2>1, <2>2, PodUpWrite, LifeQuiet
<1>25. CASE PodEnds
  <2>1. server' = server /\ WritePod([pod EXCEPT !.phase = "Done"])
    BY <1>25 DEF PodEnds
  <2>2. [pod EXCEPT !.phase = "Done"] \in Pods /\ ([pod EXCEPT !.phase = "Done"].ex /\ [pod EXCEPT !.phase = "Done"].del = "no" => PodUp)
    BY <1>t DEF TypeOK, Pods, Phases, PodUp
  <2>3. QED
    BY <1>t, <2>1, <2>2, PodUpWrite, LifeQuiet
<1>26. CASE EvictPod
  <2>1. server' = server
    BY <1>26 DEF EvictPod
  <2>2. ASSUME NEW mark \in DeletionMarks(pod), WritePod([pod EXCEPT !.del = mark])
        PROVE  PodUp' => PodUp
    <3>1. [pod EXCEPT !.del = mark] \in Pods /\ [pod EXCEPT !.del = mark].del # "no"
      BY <1>t DEF DeletionMarks, TypeOK, Pods
    <3>2. QED
      BY <1>t, <2>2, <3>1, MarkedPodIsDown
  <2>3. ASSUME UNCHANGED pod PROVE PodUp' => PodUp
    BY <2>3 DEF PodUp
  <2>4. PodUp' => PodUp
    BY <1>26, <2>2, <2>3 DEF EvictPod
  <2>5. QED
    BY <2>1, <2>4, LifeQuiet
<1>27. CASE ReapPod
  <2>1. server' = server /\ WritePod([pod EXCEPT !.del = "now"])
    BY <1>27 DEF ReapPod
  <2>2. [pod EXCEPT !.del = "now"] \in Pods /\ ([pod EXCEPT !.del = "now"].ex /\ [pod EXCEPT !.del = "now"].del = "no" => PodUp)
    BY <1>t DEF TypeOK, Pods, Phases, PodUp
  <2>3. QED
    BY <1>t, <2>1, <2>2, PodUpWrite, LifeQuiet
<1>28. CASE SidecarRestarts
  BY <1>28, LifeQuiet DEF SidecarRestarts, PodUp
<1>29. CASE GameSetsAllowed
  BY <1>29, LifeQuiet DEF GameSetsAllowed, PodUp
<1>30. CASE UNCHANGED vars
  BY <1>30, LifeQuiet DEF vars, PodUp
<1>31. QED
  BY <1>1, <1>2, <1>3, <1>4, <1>5, <1>6, <1>7, <1>8, <1>9, <1>10, <1>11, <1>12, <1>13, <1>14, <1>15, <1>16, <1>17, <1>18, <1>19, <1>20, <1>21, <1>22, <1>23, <1>24, <1>25, <1>26, <1>27, <1>28, <1>29, <1>30 DEF Next, Worker, Environment

\* The controller with its caches, faults and finalizers keeps the promise of
\* ServerLife: every step of Reconcile and of everybody else is a step of the
\* abstract life cycle or leaves it alone.
THEOREM Refinement == Spec => ImplementsServerLife
<1>1. Init => Promise!Init
  BY DEF Init, Promise!Init, Life, NoServer, NoPod
<1>2. ServerInv /\ [Next]_vars => [Promise!Next]_(Promise!vars)
  BY LifeStep
<1>3. QED
  BY <1>1, <1>2, InvCorrect, PTL DEF Spec, ImplementsServerLife, Promise!Spec

=============================================================================
