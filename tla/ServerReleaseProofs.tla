------------------------- MODULE ServerReleaseProofs -------------------------
(***************************************************************************)
(* How ServerController gives up a pod: only for a server that was told to *)
(* go, and a running one only with a reason.  Proved for every value of    *)
(* the bounds, from ServerInv and what is added to it here.                *)
(***************************************************************************)
EXTENDS ServerControllerProofs

-----------------------------------------------------------------------------
(* The inductive invariant *)

\* A server that was told to go, or has gone, will not be wanted again.
Doomed == Life \in {"terminating", "gone"}

DoomIsFinal == \A v \in KnownServers : v.ex /\ v.del => Doomed

\* The versions of the pod that the cache shows or will show, and the stored one.
PodVersions == pWatch \cup {cPod, pod}

\* A pod is pending, then runs, then ends, and at any time may go.
Stage(p) ==
    IF ~p.ex THEN 3
    ELSE IF p.phase = "Pending" THEN 0 ELSE IF p.phase = "Running" THEN 1 ELSE 2

Older(v, w) == v.uid < w.uid \/ (v.uid = w.uid /\ Stage(v) <= Stage(w))

\* The cache is not newer than what the watch has yet to deliver, and of two
\* versions the newer one is of a later pod, or of the same one later in its life.
PodsMoveForward ==
    /\ \A v \in pWatch : cPod.rv <= v.rv
    /\ \A v, w \in PodVersions : v.rv <= w.rv => Older(v, w)

\* A finalizer is on a pod that is there.
PodFinIsHeld == pod.fin => pod.ex

\* What the cache had shown running when the deletion was requested, it cannot
\* show as pending afterwards.
SeenUpStays == seenUp => \A v \in PodVersions : v.uid = pod.uid /\ Stage(v) >= 1

\* What the sidecar allows, the game or the service has allowed for this pod.
AllowedIsRemembered == sidecar.DeleteAllowed => everAllowed

ReleaseInv ==
    /\ ServerInv
    /\ DoomIsFinal
    /\ PodsMoveForward
    /\ PodFinIsHeld
    /\ SeenUpStays
    /\ AllowedIsRemembered
    /\ DeletionIsJustified

-----------------------------------------------------------------------------
(* What a step may do *)

\* What is known of the server after a step was known before, or is stored.
LEMMA ServerReads ==
    ASSUME [Next]_vars PROVE KnownServers' \subseteq KnownServers \cup {NoServer, server'}
<1>1. ASSUME NEW s, WriteServer(s) PROVE sWatch' \subseteq sWatch \cup {server'}
  BY <1>1 DEF WriteServer
<1>2. sWatch' \subseteq sWatch \cup {server'}
  BY <1>1 DEF Next, Worker, Environment, vars, apiVars, Reconcile, AddFinalizer,
         EnsurePodExists, CreatePod, UpdateAfterError, EnsurePodFinalizer, AddPodFinalizer,
         StatusUpdate, HandleDeletion, RequestShutdown, IsDeleteAllowed, RemovePodFinalizer,
         RegetPod, DeletePod, RemoveFinalizer, CallFails, Crash, DeliverServer, DeliverPod,
         CreateServer, DeleteServer, EditServer, Expire, PodStarts, PodEnds, EvictPod,
         ReapPod, SidecarRestarts, GameSetsAllowed
<1>3. cServer' = cServer \/ cServer' \in sWatch \/ cServer' = server'
  BY DEF Next, Worker, Environment, vars, cacheVars, Reconcile, AddFinalizer,
         EnsurePodExists, CreatePod, UpdateAfterError, EnsurePodFinalizer, AddPodFinalizer,
         StatusUpdate, HandleDeletion, RequestShutdown, IsDeleteAllowed, RemovePodFinalizer,
         RegetPod, DeletePod, RemoveFinalizer, CallFails, Crash, DeliverServer, DeliverPod,
         CreateServer, DeleteServer, EditServer, Expire, PodStarts, PodEnds, EvictPod,
         ReapPod, SidecarRestarts, GameSetsAllowed
<1>4. srv' \in {srv, cServer, NoServer}
  BY DEF Next, Worker, Environment, vars, workerVars, Return, Reconcile, AddFinalizer,
         EnsurePodExists, CreatePod, UpdateAfterError, EnsurePodFinalizer, AddPodFinalizer,
         StatusUpdate, HandleDeletion, RequestShutdown, IsDeleteAllowed, RemovePodFinalizer,
         RegetPod, DeletePod, RemoveFinalizer, CallFails, Crash, DeliverServer, DeliverPod,
         CreateServer, DeleteServer, EditServer, Expire, PodStarts, PodEnds, EvictPod,
         ReapPod, SidecarRestarts, GameSetsAllowed
<1>5. QED
  BY <1>2, <1>3, <1>4 DEF KnownServers

\* The life cycle that ServerLife promises has no way back.
LEMMA DoomStays == ASSUME ServerInv, [Next]_vars, Doomed PROVE Doomed'
  BY LifeStep
     DEF Doomed, Promise!Next, Promise!vars, Promise!Create, Promise!StartPod, Promise!StopPod,
         Promise!Delete, Promise!Finalise

LEMMA DoomIsFinalStep == ASSUME ServerInv, DoomIsFinal, [Next]_vars PROVE DoomIsFinal'
<1>1. ServerInv'
  BY InvStep
<1>2. server'.ex /\ server'.del => Doomed'
  BY <1>1 DEF ServerInv, ServerVersionsAreUnique, NoServer, Doomed, Life
<1>3. QED
  BY <1>2, ServerReads, DoomStays DEF DoomIsFinal, NoServer

\* A pod that is there changes to a new version, later in its life.
Ages ==
    /\ pod.ex /\ cPod' = cPod
    /\ pod'.rv = pod.rv + 1 /\ pWatch' = pWatch \cup {pod'}
    /\ pod'.uid = pod.uid /\ Stage(pod) <= Stage(pod')
    /\ pod'.fin => pod'.ex
    /\ pod.fin /\ ~pod'.fin => pc = "removePodFinalizer"

LEMMA PodWriteAges ==
    ASSUME TypeOK, NEW p \in Pods, WritePod(p), p # pod, cPod' = cPod, pod.ex, p.ex,
           p.uid = pod.uid, Stage(pod) <= Stage(p),
           pod.fin /\ ~p.fin => pc = "removePodFinalizer"
    PROVE  Ages
<1> DEFINE stored == [p EXCEPT !.rv = pod.rv + 1]
<1>1. /\ stored.rv = pod.rv + 1 /\ stored.uid = p.uid /\ stored.ex /\ stored.fin = p.fin
      /\ stored.phase = p.phase
  BY DEF Pods
<1>2. LET gone == [NoPod EXCEPT !.rv = stored.rv, !.uid = stored.uid]
      IN  gone.rv = stored.rv /\ gone.uid = stored.uid /\ ~gone.ex /\ ~gone.fin
  BY DEF NoPod
<1>3. pod' = SettlePod(stored) /\ pWatch' = pWatch \cup {pod'}
  BY DEF WritePod
<1> HIDE DEF stored
<1>4. \/ pod' = stored
      \/ pod'.rv = stored.rv /\ pod'.uid = stored.uid /\ ~pod'.ex /\ ~pod'.fin /\ ~stored.fin
  BY <1>2, <1>3 DEF SettlePod
<1>5. Stage(pod) <= Stage(pod')
  BY <1>1, <1>4 DEF Stage
<1>6. QED
  BY <1>1, <1>3, <1>4, <1>5 DEF Ages

\* What any step may do to the pod and to what is known of it.
LEMMA PodSteps ==
    ASSUME ServerInv, [Next]_vars
    PROVE  \/ UNCHANGED <<pod, pWatch, cPod>>
           \/ StoreNewPod /\ cPod' = cPod
           \/ Ages
           \/ DeliverPod
           \/ Crash
<1> USE DEF apiVars, cacheVars, workerVars, budgetVars, historyVars
<1>1. TypeOK /\ PodVersionsAreUnique
  BY DEF ServerInv
<1>2. ASSUME NEW p \in Pods, WritePod(p), cPod' = cPod, pod.ex, p.ex,
             p.uid = pod.uid, Stage(pod) <= Stage(p),
             pod.fin /\ ~p.fin => pc = "removePodFinalizer"
      PROVE  UNCHANGED <<pod, pWatch, cPod>> \/ Ages
  BY <1>1, <1>2, PodWriteAges DEF WritePod
<1>3. pod \in Pods /\ Stage(pod) \in Nat
  BY <1>1 DEF TypeOK, Stage
<1>4. CASE AddPodFinalizer
  <2> DEFINE p == [pod EXCEPT !.fin = TRUE]
  <2>1. p \in Pods /\ p.ex = pod.ex /\ p.uid = pod.uid /\ Stage(p) = Stage(pod) /\ p.fin
    BY <1>3 DEF Pods, Stage
  <2>2. UNCHANGED <<pod, pWatch, cPod>> \/ (pod.ex /\ WritePod(p) /\ cPod' = cPod)
    BY <1>1, <1>4, CurrentPod DEF AddPodFinalizer, PodCurrent
  <2> HIDE DEF p
  <2>3. QED
    BY <1>2, <1>3, <2>1, <2>2
<1>5. CASE RemovePodFinalizer
  <2> DEFINE p == [pod EXCEPT !.fin = FALSE]
  <2>1. p \in Pods /\ p.ex = pod.ex /\ p.uid = pod.uid /\ Stage(p) = Stage(pod)
    BY <1>3 DEF Pods, Stage
  <2>2. /\ UNCHANGED <<pod, pWatch, cPod>> \/ (pod.ex /\ WritePod(p) /\ cPod' = cPod)
        /\ pc = "removePodFinalizer"
    BY <1>1, <1>5, CurrentPod DEF RemovePodFinalizer, PodCurrent
  <2> HIDE DEF p
  <2>3. QED
    BY <1>2, <1>3, <2>1, <2>2
<1>6. CASE DeletePod \/ EvictPod \/ ReapPod
  <2>1. ASSUME NEW mark \in {"no", "yes", "now"}
        PROVE  LET p == [pod EXCEPT !.del = mark] IN
               p \in Pods /\ p.ex = pod.ex /\ p.uid = pod.uid /\ Stage(p) = Stage(pod) /\ p.fin = pod.fin
    BY <1>3 DEF Pods, Stage
  <2>2. \/ UNCHANGED <<pod, pWatch, cPod>>
        \/ /\ pod.ex /\ cPod' = cPod
           /\ \E mark \in {"no", "yes", "now"} : WritePod([pod EXCEPT !.del = mark])
    BY <1>3, <1>6 DEF DeletePod, EvictPod, ReapPod, DeletionMarks, Pods
  <2>3. ASSUME NEW mark \in {"no", "yes", "now"}, WritePod([pod EXCEPT !.del = mark]),
               pod.ex, cPod' = cPod
        PROVE  UNCHANGED <<pod, pWatch, cPod>> \/ Ages
    <3> DEFINE p == [pod EXCEPT !.del = mark]
    <3>1. p \in Pods /\ p.ex = pod.ex /\ p.uid = pod.uid /\ Stage(p) = Stage(pod) /\ p.fin = pod.fin
      BY <2>1
    <3>2. WritePod(p)
      BY <2>3
    <3> HIDE DEF p
    <3>3. p.ex /\ Stage(pod) <= Stage(p)
      BY <1>3, <2>3, <3>1
    <3>4. ~(pod.fin /\ ~p.fin)
      BY <3>1, Zenon
    <3>5. QED
      BY <1>2, <2>3, <3>1, <3>2, <3>3, <3>4, Zenon
  <2>4. QED
    BY <2>2, <2>3
<1>7. CASE PodStarts \/ PodEnds
  <2>1. ASSUME NEW phase \in {"Running", "Done"}
        PROVE  LET p == [pod EXCEPT !.phase = phase] IN
               /\ p \in Pods /\ p.ex = pod.ex /\ p.uid = pod.uid /\ p.fin = pod.fin
               /\ pod.ex => Stage(p) = IF phase = "Running" THEN 1 ELSE 2
    BY <1>3 DEF Pods, Phases, Stage
  <2>2. /\ pod.ex /\ cPod' = cPod
        /\ \/ WritePod([pod EXCEPT !.phase = "Running"]) /\ Stage(pod) = 0
           \/ WritePod([pod EXCEPT !.phase = "Done"]) /\ Stage(pod) = 1
    BY <1>7 DEF PodStarts, PodEnds, Stage
  <2>3. ASSUME NEW phase \in {"Running", "Done"}, WritePod([pod EXCEPT !.phase = phase]),
               Stage(pod) <= IF phase = "Running" THEN 1 ELSE 2
        PROVE  UNCHANGED <<pod, pWatch, cPod>> \/ Ages
    BY <1>2, <2>1, <2>2, <2>3
  <2>4. QED
    BY <2>2, <2>3
<1>8. QED
  BY <1>4, <1>5, <1>6, <1>7
     DEF Next, Worker, Environment, vars, Reconcile, AddFinalizer, EnsurePodExists,
         CreatePod, UpdateAfterError, EnsurePodFinalizer, StatusUpdate, HandleDeletion,
         RequestShutdown, IsDeleteAllowed, RegetPod, RemoveFinalizer, CallFails,
         DeliverServer, CreateServer, DeleteServer, EditServer, Expire, SidecarRestarts,
         GameSetsAllowed

-----------------------------------------------------------------------------
(* The invariant is kept *)

LEMMA PodNumbers ==
    TypeOK => \A v \in PodVersions : v.rv \in Nat /\ v.uid \in Nat /\ Stage(v) \in Nat
  BY DEF TypeOK, PodVersions, Pods, Stage

\* A new pod has a number of its own.
LEMMA NewPodEffect ==
    ASSUME TypeOK, StoreNewPod
    PROVE  /\ pod'.rv = pod.rv + 1 /\ pod'.uid = pod.uid + 1 /\ pod'.ex
           /\ pWatch' = pWatch \cup {pod'} /\ ~seenUp' /\ ~pod.ex
<1>1. NewPod \in Pods /\ NewPod # pod /\ NewPod.ex /\ NewPod.del = "no" /\ NewPod.uid = pod.uid + 1
  BY NewPodType DEF NewPod, StoreNewPod
<1>2. /\ pod' = SettlePod([NewPod EXCEPT !.rv = pod.rv + 1]) /\ pWatch' = pWatch \cup {pod'}
      /\ ~seenUp' /\ ~pod.ex
  BY <1>1 DEF StoreNewPod, WritePod
<1>3. pod' = [NewPod EXCEPT !.rv = pod.rv + 1]
  BY <1>1, <1>2 DEF SettlePod, Pods
<1>4. QED
  BY <1>1, <1>2, <1>3 DEF Pods

LEMMA PodsMoveForwardStep ==
    ASSUME ServerInv, PodsMoveForward, [Next]_vars PROVE PodsMoveForward'
<1>1. TypeOK /\ TypeOK' /\ \A v \in PodVersions : v.rv <= pod.rv
  <2>1. ServerInv'
    BY InvStep
  <2>2. pod.rv <= pod.rv
    BY DEF ServerInv, TypeOK, Pods
  <2>3. QED
    BY <2>1, <2>2 DEF ServerInv, PodVersionsAreUnique, KnownPods, PodVersions
<1>2. \A v \in PodVersions : v.rv \in Nat /\ v.uid \in Nat /\ Stage(v) \in Nat
  BY <1>1, PodNumbers
<1>3. ASSUME PodVersions' \subseteq PodVersions, \A v \in pWatch' : cPod'.rv <= v.rv
      PROVE  PodsMoveForward'
  BY <1>3 DEF PodsMoveForward
<1>4. ASSUME cPod' = cPod, pWatch' = pWatch \cup {pod'}, pod'.rv = pod.rv + 1, Older(pod, pod')
      PROVE  PodsMoveForward'
  <2>1. pod'.rv \in Nat /\ pod'.uid \in Nat /\ Stage(pod') \in Nat
    BY <1>1 DEF TypeOK, Pods, Stage
  <2>2. PodVersions' \subseteq PodVersions \cup {pod'} /\ pod \in PodVersions
    BY <1>4 DEF PodVersions
  <2>3. ASSUME NEW v \in PodVersions PROVE v.rv < pod'.rv /\ Older(v, pod')
    <3>1. Older(v, pod)
      BY <1>1, <2>2 DEF PodsMoveForward
    <3>2. QED
      BY <1>1, <1>2, <1>4, <2>1, <2>2, <3>1 DEF Older
  <2>4. Older(pod', pod')
    BY <2>1 DEF Older
  <2>5. ASSUME NEW v \in PodVersions', NEW w \in PodVersions', v.rv <= w.rv PROVE Older(v, w)
    <3>1. CASE v \in PodVersions /\ w \in PodVersions
      BY <2>5, <3>1 DEF PodsMoveForward
    <3>2. CASE w = pod'
      BY <2>2, <2>3, <2>4, <3>2
    <3>3. CASE v = pod' /\ w \in PodVersions
      BY <1>2, <2>1, <2>3, <2>5, <3>3
    <3>4. QED
      BY <2>2, <3>1, <3>2, <3>3
  <2>6. \A v \in pWatch' : cPod'.rv <= v.rv
    <3>1. cPod \in PodVersions /\ cPod.rv < pod'.rv
      BY <2>3 DEF PodVersions
    <3>2. QED
      BY <1>2, <1>4, <2>1, <3>1 DEF PodsMoveForward
  <2>7. QED
    BY <2>5, <2>6 DEF PodsMoveForward
<1>5. CASE UNCHANGED <<pod, pWatch, cPod>>
  BY <1>3, <1>5 DEF PodVersions, PodsMoveForward
<1>6. CASE StoreNewPod /\ cPod' = cPod
  <2>1. pod \in PodVersions
    BY DEF PodVersions
  <2>2. QED
    BY <1>1, <1>2, <1>4, <1>6, <2>1, NewPodEffect DEF Older
<1>7. CASE Ages
  BY <1>4, <1>7 DEF Ages, Older
<1>8. CASE DeliverPod
  <2>1. PICK v \in pWatch : cPod' = v /\ pWatch' = {w \in pWatch : w.rv > v.rv}
    BY <1>8 DEF DeliverPod
  <2>2. pod' = pod /\ \A w \in pWatch : w.rv \in Nat
    BY <1>2, <1>8 DEF DeliverPod, PodVersions
  <2>3. PodVersions' \subseteq PodVersions /\ \A w \in pWatch' : cPod'.rv <= w.rv
    BY <2>1, <2>2 DEF PodVersions
  <2>4. QED
    BY <1>3, <2>3
<1>9. CASE Crash
  BY <1>3, <1>9 DEF Crash, PodVersions
<1>10. QED
  BY <1>5, <1>6, <1>7, <1>8, <1>9, PodSteps

LEMMA PodFinIsHeldStep == ASSUME ServerInv, PodFinIsHeld, [Next]_vars PROVE PodFinIsHeld'
<1>1. TypeOK
  BY DEF ServerInv
<1>2. QED
  BY <1>1, PodSteps, NewPodEffect DEF PodFinIsHeld, Ages, DeliverPod, Crash

\* Only a new pod and a request for deletion change what is remembered.
LEMMA HistorySteps ==
    ASSUME [Next]_vars
    PROVE  \/ UNCHANGED seenUp /\ (everAllowed => everAllowed')
           \/ StoreNewPod
           \/ DeleteServer
  BY DEF Next, Worker, Environment, vars, historyVars, Reconcile, AddFinalizer,
         EnsurePodExists, CreatePod, UpdateAfterError, EnsurePodFinalizer, AddPodFinalizer,
         StatusUpdate, HandleDeletion, RequestShutdown, IsDeleteAllowed, RemovePodFinalizer,
         RegetPod, DeletePod, RemoveFinalizer, CallFails, Crash, DeliverServer, DeliverPod,
         CreateServer, EditServer, Expire, PodStarts, PodEnds, EvictPod,
         ReapPod, SidecarRestarts, GameSetsAllowed

LEMMA SeenUpStaysStep ==
    ASSUME ServerInv, PodsMoveForward, SeenUpStays, [Next]_vars PROVE SeenUpStays'
<1>1. TypeOK /\ TypeOK' /\ PodVersionsAreUnique
  BY InvStep DEF ServerInv
<1>2. \A v \in PodVersions : v.rv \in Nat /\ v.uid \in Nat /\ Stage(v) \in Nat
  BY <1>1, PodNumbers
<1>3. CASE DeleteServer
  <2>1. SUFFICES ASSUME cPod.ex, cPod.phase = "Running", cPod.uid = pod.uid, NEW v \in PodVersions
                 PROVE  v.uid = pod.uid /\ Stage(v) >= 1
    <3>1. UNCHANGED <<pod, cPod, pWatch>> /\ seenUp' = (cPod.ex /\ cPod.phase = "Running" /\ cPod.uid = pod.uid)
      BY <1>3 DEF DeleteServer, cacheVars
    <3>2. QED
      BY <2>1, <3>1 DEF SeenUpStays, PodVersions
  <2>2. v.rv <= pod.rv /\ cPod.rv <= v.rv /\ cPod \in PodVersions /\ pod \in PodVersions
    BY <1>1, <1>2 DEF PodVersionsAreUnique, KnownPods, PodVersions, PodsMoveForward
  <2>3. Older(cPod, v) /\ Older(v, pod)
    BY <2>2 DEF PodsMoveForward
  <2>4. Stage(cPod) = 1
    BY <2>1 DEF Stage
  <2>5. QED
    BY <1>2, <2>1, <2>2, <2>3, <2>4 DEF Older
<1>4. CASE StoreNewPod
  BY <1>1, <1>4, NewPodEffect DEF SeenUpStays
<1>5. CASE UNCHANGED seenUp /\ ~StoreNewPod
  <2>1. SUFFICES ASSUME seenUp, NEW v \in PodVersions' PROVE v.uid = pod'.uid /\ Stage(v) >= 1
    BY <1>5 DEF SeenUpStays
  <2>2. \A w \in PodVersions : w.uid = pod.uid /\ Stage(w) >= 1
    BY <2>1 DEF SeenUpStays
  <2>3. CASE Ages
    <3>1. pod'.uid = pod.uid /\ Stage(pod) <= Stage(pod') /\ v \in PodVersions \cup {pod'}
      BY <2>1, <2>3 DEF Ages, PodVersions
    <3>2. Stage(pod') \in Nat /\ pod \in PodVersions
      BY DEF Stage, PodVersions
    <3>3. QED
      BY <1>2, <2>2, <3>1, <3>2
  <2>4. CASE ~Ages
    <3>1. pod' = pod /\ v \in PodVersions
      BY <1>5, <2>1, <2>4, PodSteps DEF DeliverPod, Crash, PodVersions
    <3>2. QED
      BY <2>2, <3>1
  <2>5. QED
    BY <2>3, <2>4
<1>6. QED
  BY <1>3, <1>4, <1>5, HistorySteps

LEMMA AllowedIsRememberedStep ==
    ASSUME TypeOK, AllowedIsRemembered, [Next]_vars PROVE AllowedIsRemembered'
<1>1. CASE StoreNewPod \/ SidecarRestarts
  BY <1>1 DEF StoreNewPod, SidecarRestarts, Sidecar!Restart, Sidecar!Fresh, AllowedIsRemembered
<1>2. CASE GameSetsAllowed
  <2>1. PICK allowed \in BOOLEAN :
           /\ sidecar' = [sidecar EXCEPT !.DeleteAllowed = allowed]
           /\ everAllowed' = (everAllowed \/ allowed)
    BY <1>2 DEF GameSetsAllowed, Sidecar!SetDeleteAllowed
  <2>2. sidecar'.DeleteAllowed = allowed
    BY <2>1 DEF TypeOK, Sidecar!Type
  <2>3. QED
    BY <2>1, <2>2 DEF AllowedIsRemembered
<1>3. CASE RequestShutdown
  <2>1. sidecar'.DeleteAllowed = sidecar.DeleteAllowed /\ everAllowed' = everAllowed
    BY <1>3 DEF RequestShutdown, historyVars, Sidecar!SetShutdownRequested, TypeOK, Sidecar!Type
  <2>2. QED
    BY <2>1 DEF AllowedIsRemembered
<1>4. CASE UNCHANGED <<sidecar, everAllowed>>
  BY <1>4 DEF AllowedIsRemembered
<1>5. QED
  BY <1>1, <1>2, <1>3, <1>4
     DEF Next, Worker, Environment, vars, historyVars, Reconcile, AddFinalizer,
         EnsurePodExists, CreatePod, UpdateAfterError, EnsurePodFinalizer, AddPodFinalizer,
         StatusUpdate, HandleDeletion, IsDeleteAllowed, RemovePodFinalizer,
         RegetPod, DeletePod, RemoveFinalizer, CallFails, Crash, DeliverServer, DeliverPod,
         CreateServer, DeleteServer, EditServer, Expire, PodStarts, PodEnds, EvictPod,
         ReapPod

\* The steps past the permission check.
GivingUp == {"removePodFinalizer", "regetPod", "deletePod"}

LEMMA PastTheCheck ==
    ASSUME [Next]_vars, pc' \in GivingUp
    PROVE  \/ pc \in GivingUp /\ srv' = srv
           \/ HandleDeletion /\ (cPod.phase # "Running" \/ srv'.force \/ expired)
           \/ IsDeleteAllowed /\ sidecar.DeleteAllowed
  BY DEF GivingUp, Next, Worker, Environment, vars, workerVars, Return, Goto, Reconcile,
         AddFinalizer, EnsurePodExists, CreatePod, UpdateAfterError, EnsurePodFinalizer,
         AddPodFinalizer, StatusUpdate, HandleDeletion, RequestShutdown, IsDeleteAllowed,
         Sidecar!IsDeleteAllowed, RemovePodFinalizer, RegetPod, DeletePod, RemoveFinalizer,
         CallFails, Crash, DeliverServer, DeliverPod, CreateServer, DeleteServer, EditServer,
         Expire, PodStarts, PodEnds, EvictPod, ReapPod, SidecarRestarts, GameSetsAllowed

LEMMA ExpiryIsFinal == ASSUME [Next]_vars, expired PROVE expired'
  BY DEF Next, Worker, Environment, vars, Reconcile, AddFinalizer,
         EnsurePodExists, CreatePod, UpdateAfterError, EnsurePodFinalizer, AddPodFinalizer,
         StatusUpdate, HandleDeletion, RequestShutdown, IsDeleteAllowed, RemovePodFinalizer,
         RegetPod, DeletePod, RemoveFinalizer, CallFails, Crash, DeliverServer, DeliverPod,
         CreateServer, DeleteServer, EditServer, Expire, PodStarts, PodEnds, EvictPod,
         ReapPod, SidecarRestarts, GameSetsAllowed

LEMMA DeletionIsJustifiedStep == ASSUME ReleaseInv, [Next]_vars PROVE DeletionIsJustified'
<1>1. SUFFICES ASSUME pc' \in GivingUp, seenUp', pod'.ex, pod'.phase = "Running"
               PROVE  everAllowed' \/ expired' \/ srv'.force
  BY DEF DeletionIsJustified, GivingUp
<1>2. /\ TypeOK /\ TypeOK' /\ WorkerKnows /\ PodVersionsAreUnique /\ DoomIsFinal
      /\ PodsMoveForward /\ SeenUpStays /\ AllowedIsRemembered /\ DeletionIsJustified
  BY InvStep DEF ReleaseInv, ServerInv
<1>3. ~StoreNewPod
  BY <1>1, <1>2, NewPodEffect
<1>4. ~DeleteServer
  <2>1. SUFFICES ASSUME DeleteServer PROVE FALSE
    OBVIOUS
  <2>2. pc' = pc /\ server.ex /\ ~server.del
    BY <2>1 DEF DeleteServer, workerVars
  <2>3. srv.ex /\ srv.del
    BY <1>1, <1>2, <2>2 DEF WorkerKnows, GivingUp
  <2>4. Doomed
    BY <1>2, <2>3 DEF DoomIsFinal, KnownServers
  <2>5. QED
    BY <2>2, <2>4 DEF Doomed, Life
<1>5. seenUp /\ (everAllowed => everAllowed') /\ (expired => expired')
  BY <1>1, <1>3, <1>4, HistorySteps, ExpiryIsFinal
<1>6. pod.ex /\ pod.phase = "Running"
  <2>1. Stage(pod) >= 1 /\ Stage(pod') = 1
    BY <1>1, <1>2, <1>5 DEF SeenUpStays, PodVersions, Stage
  <2>2. Ages => Stage(pod) = 1
    BY <2>1 DEF Ages, Stage
  <2>3. ~Ages => pod' = pod
    BY <1>3, PodSteps, <1>2 DEF ReleaseInv, DeliverPod, Crash
  <2>4. Stage(pod) = 1
    BY <2>1, <2>2, <2>3
  <2>5. QED
    BY <1>2, <2>4 DEF Stage
<1>7. CASE pc \in GivingUp /\ srv' = srv
  BY <1>2, <1>5, <1>6, <1>7 DEF DeletionIsJustified, GivingUp
<1>8. CASE HandleDeletion /\ (cPod.phase # "Running" \/ srv'.force \/ expired)
  <2>1. cPod \in PodVersions /\ pod \in PodVersions
    BY DEF PodVersions
  <2>2. cPod.rv <= pod.rv
    BY <1>2 DEF PodVersionsAreUnique, KnownPods
  <2>3. Older(cPod, pod) /\ cPod.uid = pod.uid /\ Stage(cPod) >= 1
    BY <1>2, <1>5, <2>1, <2>2 DEF PodsMoveForward, SeenUpStays
  <2>4. Stage(pod) = 1 /\ Stage(cPod) \in Nat /\ pod.uid \in Nat
    BY <1>2, <1>6 DEF Stage, TypeOK, Pods
  <2>5. Stage(cPod) = 1
    BY <2>3, <2>4 DEF Older
  <2>6. cPod.phase = "Running"
    BY <1>2, <2>5 DEF Stage
  <2>7. QED
    BY <1>5, <1>8, <2>6
<1>9. CASE IsDeleteAllowed /\ sidecar.DeleteAllowed
  BY <1>2, <1>5, <1>9 DEF AllowedIsRemembered
<1>10. QED
  BY <1>1, <1>7, <1>8, <1>9, PastTheCheck

-----------------------------------------------------------------------------
(* What follows *)

LEMMA ReleaseInvInit == Init => ReleaseInv
<1> SUFFICES ASSUME Init PROVE ReleaseInv
  OBVIOUS
<1>1. /\ PodVersions = {NoPod} /\ KnownServers = {NoServer} /\ pod = NoPod /\ pWatch = {}
      /\ ~seenUp /\ pc = "idle" /\ ~sidecar.DeleteAllowed
  BY DEF Init, PodVersions, KnownServers, Sidecar!Init, Sidecar!Fresh
<1>2. ~NoServer.ex /\ ~NoPod.fin /\ NoPod.uid = 0 /\ Stage(NoPod) = 3
  BY DEF NoServer, NoPod, Stage
<1>3. DoomIsFinal /\ PodFinIsHeld /\ SeenUpStays /\ AllowedIsRemembered /\ DeletionIsJustified
  BY <1>1, <1>2
     DEF DoomIsFinal, PodFinIsHeld, SeenUpStays, AllowedIsRemembered, DeletionIsJustified
<1>4. PodsMoveForward
  BY <1>1, <1>2 DEF PodsMoveForward, Older
<1>5. QED
  BY <1>3, <1>4, InvInit DEF ReleaseInv

LEMMA ReleaseInvStep == ReleaseInv /\ [Next]_vars => ReleaseInv'
<1> SUFFICES ASSUME ReleaseInv, [Next]_vars PROVE ReleaseInv'
  OBVIOUS
<1>1. ServerInv /\ ServerInv' /\ TypeOK
  BY InvStep DEF ReleaseInv, ServerInv
<1>2. QED
  BY <1>1, DoomIsFinalStep, PodsMoveForwardStep, PodFinIsHeldStep, SeenUpStaysStep,
     AllowedIsRememberedStep, DeletionIsJustifiedStep DEF ReleaseInv

LEMMA ReleaseInvCorrect == Spec => []ReleaseInv
  BY ReleaseInvInit, ReleaseInvStep, PTL DEF Spec

\* For every bound, and however late the caches of server and pod are: a pod
\* that runs, and that the controller knew to run when the deletion was
\* requested, is given up only with the game's permission, after the timeout
\* or because the server allowed force deletion.
THEOREM DeletionIsJustifiedCorrect == Spec => []DeletionIsJustified
<1>1. ReleaseInv => DeletionIsJustified
  BY DEF ReleaseInv
<1>2. QED
  BY <1>1, ReleaseInvCorrect, PTL

\* For every bound: SERVER_FINALIZER is taken from a pod only when the deletion
\* of its server was requested, however old the pod and the server that
\* ensurePodFinalizer and handleDeletion read are.
THEOREM PodReleasedInOrderCorrect == Spec => PodReleasedInOrder
<1>1. ReleaseInv /\ [Next]_vars
        => [pod.fin /\ ~pod'.fin => Life \in {"terminating", "gone"}]_vars
  <2>1. SUFFICES ASSUME ReleaseInv, [Next]_vars, pod.fin, ~pod'.fin PROVE Doomed
    BY DEF Doomed
  <2>2. TypeOK /\ WorkerKnows /\ PodFinIsHeld
    BY <2>1 DEF ReleaseInv, ServerInv
  <2>3. Ages
    BY <2>1, <2>2, PodSteps, NewPodEffect DEF ReleaseInv, PodFinIsHeld, DeliverPod, Crash
  <2>4. srv.ex /\ srv.del
    BY <2>1, <2>2, <2>3 DEF Ages, WorkerKnows
  <2>5. QED
    BY <2>1, <2>4 DEF ReleaseInv, DoomIsFinal, KnownServers
<1>2. QED
  BY <1>1, ReleaseInvCorrect, PTL DEF Spec, PodReleasedInOrder

=============================================================================
