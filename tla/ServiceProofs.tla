--------------------------- MODULE ServiceProofs ---------------------------
(***************************************************************************)
(* Proofs about Service, for every set of objects and requests, and any    *)
(* number of requests that are served at the same time.                    *)
(***************************************************************************)
EXTENDS Service, FiniteSetTheorems, TLAPS

-----------------------------------------------------------------------------
(* The inductive invariant *)

Names == {r.name : r \in Requests} \cup {"none"}
Resources == {"gametypes", "fleets", "servers", "none"}
Locals == [object : Resources \X Names, rounds : Nat, todo : SUBSET Names, pod : Pods,
           ran : SUBSET (Servers \X Nat)]

Types ==
    /\ TypeOK
    /\ uid \in [Objects -> Nat]
    /\ loc \in [Handlers -> Locals]
    /\ restarts <= faults

\* What is in the API was created, has its pod only while it is there, and
\* only what runs can be allowed to go.
PodsBelongToServers ==
    /\ \A o \in Objects : life[o] # "none" => uid[o] > 0
    /\ \A s \in Servers : /\ pod[s].state # "none" => life[s] # "none"
                          /\ pod[s].allowed => pod[s].state = "running"

\* A handler works on the one name of its request all along: no fleet has the
\* label that forceDeleteFleet looks for, so that the list of servers to tell
\* is never filled.  It comes to a pod only for a server.
HandlersWorkOnOneName ==
    \A h \in Handlers :
        /\ at[h] \in Calls =>
              /\ req[h] \in Requests
              /\ loc[h].todo = {req[h].name} /\ loc[h].object[2] = req[h].name
              /\ loc[h].object[1] # "none"
        /\ at[h] \in {"getPod", "post", "update"} => loc[h].object[1] = "servers"
        /\ at[h] \in {"post", "update"} => loc[h].object \in Servers
        /\ at[h] = "post" => req[h].path # "labels"

\* A forced Delete of the server, or of an earlier one with its name, was
\* accepted, and the one that it hit does not live on.
WasHit(s) ==
    \E n \in 1..uid[s] : <<s, n>> \in hit /\ (n = uid[s] => life[s] # "live")

\* Who goes on to tell a pod that it may go has had its server deleted.
TellsAfterDelete ==
    \A h \in Handlers :
        at[h] \in {"getPod", "post"} /\ req[h].path # "labels"
            => loc[h].object \in Servers /\ WasHit(loc[h].object)

\* A resource version names one state of the pod, up to what the sidecar says,
\* and no copy is ahead.
Current(p, stored) ==
    p.rv <= stored.rv /\ (p.rv = stored.rv => p.fin = stored.fin /\ p.labels = stored.labels)

PodVersionsAreUnique ==
    \A h \in Handlers : at[h] = "update" => Current(loc[h].pod, pod[loc[h].object])

ServiceInv ==
    /\ Types
    /\ PodsBelongToServers
    /\ HandlersWorkOnOneName
    /\ TellsAfterDelete
    /\ PodVersionsAreUnique
    /\ OnlyDoomedPodsAreTold

-----------------------------------------------------------------------------
(* The steps *)

\* The routes are made of these calls.
LEMMA NextSteps ==
    ASSUME [Next]_vars
    PROVE  \/ UNCHANGED vars
           \/ Crash
           \/ \E h \in Handlers :
                 \/ Arrive(h) \/ CallFails(h) \/ Create(h) \/ Delete(h) \/ ListFleets(h)
                 \/ ListServers(h) \/ GetPod(h) \/ PostAllowDelete(h) \/ UpdatePod(h)
           \/ \E o \in Objects : Apply(o) \/ CreateOwned(o) \/ DeleteOwned(o) \/ Finalise(o)
           \/ \E s \in Servers :
                 \/ StartPod(s) \/ AddPodFinalizer(s) \/ StopPod(s)
                 \/ PodRuns(s) \/ EvictPod(s) \/ SidecarRestarts(s)
  BY DEF Next, Handle, Operator, CreateServer, CreateFleet, CreateGame, CreateScaler,
         DeleteServer, DeleteFleet, DeleteGame, DeleteScaler, AddPodLabel, RemovePodLabel

LEMMA NoObjectsType ==
    NoPod \in Pods /\ ~NoPod.allowed /\ NoPod.state = "none" /\ NoLocals \in Locals
<1>1. NoPod \in Pods /\ ~NoPod.allowed /\ NoPod.state = "none"
  BY DEF NoPod, Pods, LabelValues, NoValue
<1>2. NoOwner \in Resources \X Names
  BY DEF NoOwner, Resources, Names
<1>3. QED
  BY <1>1, <1>2 DEF NoLocals, Locals

LEMMA PodFields ==
    Types => /\ \A s \in Servers : pod[s] \in Pods /\ pod[s].rv \in Nat /\ pod[s].born \in Nat
             /\ \A h \in Handlers : loc[h] \in Locals /\ loc[h].pod \in Pods /\ loc[h].pod.rv \in Nat
  BY DEF Types, TypeOK, Pods, Locals

\* What a write stores.
LEMMA WriteEffect ==
    ASSUME Types, NEW s \in Servers, NEW p \in Pods, WritePod(s, p)
    PROVE  /\ pod' \in [Servers -> Pods]
           /\ pod'[s] = [p EXCEPT !.rv = pod[s].rv + 1]
           /\ pod'[s].state = p.state /\ pod'[s].allowed = p.allowed
           /\ pod'[s].fin = p.fin /\ pod'[s].labels = p.labels
           /\ pod'[s].rv = pod[s].rv + 1
           /\ \A t \in Servers : t # s => pod'[t] = pod[t]
<1>1. pod[s].rv + 1 \in Nat
  BY PodFields
<1>2. \A n \in Nat : LET q == [p EXCEPT !.rv = n] IN
         /\ q \in Pods /\ q.state = p.state /\ q.allowed = p.allowed
         /\ q.fin = p.fin /\ q.labels = p.labels /\ q.rv = n
  BY DEF Pods
<1>3. pod' = [pod EXCEPT ![s] = [p EXCEPT !.rv = pod[s].rv + 1]] /\ pod \in [Servers -> Pods]
  BY DEF WritePod, Types, TypeOK
<1>4. pod'[s] = [p EXCEPT !.rv = pod[s].rv + 1] /\ \A t \in Servers : t # s => pod'[t] = pod[t]
  BY <1>3
<1>5. [p EXCEPT !.rv = pod[s].rv + 1] \in Pods
  BY <1>1, <1>2
<1>6. pod' \in [Servers -> Pods]
  BY <1>3, <1>5
<1>7. QED
  BY <1>1, <1>2, <1>4, <1>6

\* What the sidecar says is not part of the version.
LEMMA SayEffect ==
    ASSUME Types, NEW s \in Servers, NEW b \in BOOLEAN, pod' = [pod EXCEPT ![s].allowed = b]
    PROVE  /\ pod' \in [Servers -> Pods]
           /\ pod'[s].state = pod[s].state /\ pod'[s].allowed = b /\ pod'[s].fin = pod[s].fin
           /\ pod'[s].labels = pod[s].labels /\ pod'[s].rv = pod[s].rv
           /\ \A t \in Servers : t # s => pod'[t] = pod[t]
<1> DEFINE q == [pod[s] EXCEPT !.allowed = b]
<1>1. /\ q \in Pods /\ q.state = pod[s].state /\ q.allowed = b
      /\ q.fin = pod[s].fin /\ q.labels = pod[s].labels /\ q.rv = pod[s].rv
  BY PodFields DEF Pods
<1>2. pod' = [pod EXCEPT ![s] = q] /\ pod \in [Servers -> Pods]
  BY DEF Types, TypeOK
<1> HIDE DEF q
<1>3. QED
  BY <1>1, <1>2

\* What a step of a handler may do: it ends, begins, goes on to the next call.
Turns(h) ==
    /\ at[h] \in Calls /\ req'[h] = req[h] /\ loc'[h].todo = loc[h].todo
    /\ \/ at'[h] = "delete" /\ \E r \in Resources \ {"none"} : loc'[h].object = <<r, loc[h].object[2]>>
       \/ at'[h] \in {"listFleets", "listServers"} /\ loc'[h].object = loc[h].object
       \/ /\ at[h] = "delete" /\ at'[h] = "getPod"
          /\ loc'[h].object = loc[h].object /\ loc[h].object[1] = "servers"
          /\ Exists(loc[h].object) /\ RequestDeletion(loc[h].object) /\ uid' = uid
          /\ <<loc[h].object, uid[loc[h].object]>> \in hit'
       \/ /\ at[h] = "getPod" /\ at'[h] \in {"post", "update"}
          /\ at'[h] = "post" => req[h].path # "labels"
          /\ loc'[h].object = loc[h].object /\ loc[h].object \in Servers
          /\ loc'[h].pod = pod[loc[h].object] /\ pod' = pod

Begins(h) ==
    /\ at[h] = "idle" /\ req'[h] \in Requests
    /\ at'[h] \in {"create", "delete"} \/ (at'[h] = "getPod" /\ req'[h].path = "labels")
    /\ loc'[h].object = <<Resource(req'[h].path), req'[h].name>>
    /\ loc'[h].todo = {req'[h].name}

Stays(h) == at'[h] = at[h] /\ req'[h] = req[h] /\ loc'[h] = loc[h]

HandlerTypes ==
    /\ at \in [Handlers -> Calls \cup {"idle", "done"}]
    /\ req \in [Handlers -> Requests \cup {NoRequest}]
    /\ loc \in [Handlers -> Locals]
    /\ \A p \in promised : p[2] \in Servers /\ p[3] \in Nat

LEMMA AnswerEffect ==
    ASSUME Types, NEW h \in Handlers, NEW ok \in BOOLEAN, Answer(h, ok)
    PROVE  HandlerTypes' /\ \A k \in Handlers : Stays(k) \/ at'[k] = "done"
<1>1. loc[h].ran \subseteq Servers \X Nat
  BY PodFields DEF Locals
<1>2. \A p \in promised' : p[2] \in Servers /\ p[3] \in Nat
  BY <1>1 DEF Answer, Types, TypeOK
<1>3. QED
  BY <1>2, NoObjectsType DEF Answer, Types, TypeOK, HandlerTypes, Stays

LEMMA GoEffect ==
    ASSUME Types, NEW h \in Handlers, NEW step \in Calls, NEW locals \in Locals,
           Go(h, step, locals)
    PROVE  /\ HandlerTypes' /\ \A k \in Handlers : k # h => Stays(k)
           /\ at'[h] = step /\ loc'[h] = locals /\ req'[h] = req[h]
  BY DEF Go, Types, TypeOK, HandlerTypes, Stays

Moves == \A k \in Handlers : Stays(k) \/ at'[k] = "done" \/ Begins(k) \/ Turns(k)

LEMMA ArriveMoves ==
    ASSUME Types, NEW h \in Handlers, Arrive(h) PROVE HandlerTypes' /\ Moves
<1>1. PICK r \in Requests :
         LET o == <<Resource(r.path), r.name>> IN
         /\ req' = [req EXCEPT ![h] = r]
         /\ at' = [at EXCEPT ![h] = CASE r.path = "labels" -> "getPod"
                                      [] r.method = "POST" -> "create"
                                      [] OTHER -> "delete"]
         /\ loc' = [loc EXCEPT ![h].object = o, ![h].todo = {r.name},
                      ![h].ran = IF r.force THEN Running({o} \cup Below(o)) ELSE {}]
  BY DEF Arrive
<1> DEFINE o == <<Resource(r.path), r.name>>
           ran == IF r.force THEN Running({o} \cup Below(o)) ELSE {}
           l == [loc[h] EXCEPT !.object = o, !.todo = {r.name}, !.ran = ran]
<1>2. o \in Resources \X Names /\ {r.name} \subseteq Names
  BY <1>1, ServiceAssumption DEF Resource, Resources, Names
<1>3. ran \subseteq Servers \X Nat
  BY PodFields DEF Running
<1> HIDE DEF o, ran
<1>4. l \in Locals /\ l.object = o /\ l.todo = {r.name}
  BY <1>2, <1>3, PodFields DEF Locals
<1>5. loc' = [loc EXCEPT ![h] = l]
  BY <1>1 DEF o, ran
<1> HIDE DEF l
<1>6. loc' \in [Handlers -> Locals] /\ loc'[h] = l /\ \A k \in Handlers : k # h => loc'[k] = loc[k]
  BY <1>4, <1>5 DEF Types
<1>7. /\ at' \in [Handlers -> Calls \cup {"idle", "done"}]
      /\ at'[h] \in {"create", "delete"} \/ (at'[h] = "getPod" /\ r.path = "labels")
      /\ \A k \in Handlers : k # h => at'[k] = at[k]
  BY <1>1 DEF Types, TypeOK, Calls
<1>8. /\ req' \in [Handlers -> Requests \cup {NoRequest}] /\ req'[h] = r
      /\ \A k \in Handlers : k # h => req'[k] = req[k]
  BY <1>1 DEF Types, TypeOK
<1>9. UNCHANGED promised /\ at[h] = "idle"
  BY DEF Arrive
<1>10. HandlerTypes'
  BY <1>6, <1>7, <1>8, <1>9 DEF HandlerTypes, Types, TypeOK
<1>11. Begins(h)
  BY <1>1, <1>4, <1>6, <1>7, <1>8, <1>9 DEF Begins, o
<1>12. QED
  BY <1>6, <1>7, <1>8, <1>10, <1>11 DEF Moves, Stays

LEMMA AnswerMoves ==
    ASSUME Types, NEW h \in Handlers, Answer(h, TRUE) \/ Answer(h, FALSE)
    PROVE  HandlerTypes' /\ Moves
  BY AnswerEffect DEF Moves

\* removeFleetsForGame goes on with the same locals, less one round.
LEMMA RoundDoneMoves ==
    ASSUME Types, HandlersWorkOnOneName, NEW h \in Handlers, at[h] \in Calls, RoundDone(h)
    PROVE  HandlerTypes' /\ Moves
<1>1. CASE LastRound(h)
  BY <1>1, AnswerMoves DEF RoundDone
<1>2. CASE ~LastRound(h)
  <2> DEFINE l == [loc[h] EXCEPT !.rounds = loc[h].rounds - 1]
  <2>1. loc[h] \in Locals /\ loc[h].rounds - 1 \in Nat
    BY <1>2, PodFields DEF LastRound, Locals
  <2>2. l \in Locals /\ l.object = loc[h].object /\ l.todo = loc[h].todo
    BY <2>1 DEF Locals
  <2>3. Go(h, "delete", l)
    BY <1>2 DEF RoundDone
  <2>4. \E r \in Resources \ {"none"} : loc[h].object = <<r, loc[h].object[2]>>
    BY <2>1 DEF HandlersWorkOnOneName, Locals
  <2> HIDE DEF l
  <2>5. /\ HandlerTypes' /\ \A k \in Handlers : k # h => Stays(k)
        /\ at'[h] = "delete" /\ loc'[h] = l /\ req'[h] = req[h]
    BY <2>2, <2>3, GoEffect DEF Calls
  <2>6. Turns(h)
    BY <2>2, <2>4, <2>5 DEF Turns
  <2>7. QED
    BY <2>5, <2>6 DEF Moves
<1>3. QED
  BY <1>1, <1>2

LEMMA DeleteMoves ==
    ASSUME Types, HandlersWorkOnOneName, NEW h \in Handlers, Delete(h)
    PROVE  HandlerTypes' /\ Moves
<1> DEFINE o == loc[h].object
<1>1. CASE Exists(o) /\ RequestDeletion(o) /\ AfterDelete(h) /\ req[h].force
           /\ hit' = hit \cup {<<o, uid[o]>>} /\ uid' = uid
  <2>1. at[h] = "delete" /\ loc[h] \in Locals /\ o[1] \in {"servers", "fleets", "gametypes"}
    BY PodFields DEF Delete, HandlersWorkOnOneName, Calls, Locals, Resources
  <2>2. PICK step \in {"getPod", "listServers", "listFleets"} :
           Go(h, step, loc[h]) /\ (step = "getPod" => o[1] = "servers")
    BY <1>1, <2>1 DEF AfterDelete
  <2>3. /\ HandlerTypes' /\ \A k \in Handlers : k # h => Stays(k)
        /\ at'[h] = step /\ loc'[h] = loc[h] /\ req'[h] = req[h]
    BY <2>1, <2>2, GoEffect DEF Calls
  <2>4. Turns(h)
    BY <1>1, <2>1, <2>2, <2>3 DEF Turns, Calls
  <2>5. QED
    BY <2>3, <2>4 DEF Moves
<1>2. QED
  BY <1>1, AnswerMoves DEF Delete, DeleteFailed, AfterDelete

LEMMA ListMoves ==
    ASSUME Types, HandlersWorkOnOneName, NEW h \in Handlers, ListFleets(h) \/ ListServers(h)
    PROVE  HandlerTypes' /\ Moves
<1>1. at[h] \in Calls /\ req[h] \in Requests /\ loc[h].object[2] = req[h].name
      /\ loc[h] \in Locals
  BY PodFields DEF ListFleets, ListServers, HandlersWorkOnOneName, Calls
<1>2. CASE ListFleets(h)
  <2> DEFINE found == {f \in Listed("fleets") : Label(f, "type") = req[h].name}
             l == [loc[h] EXCEPT !.rounds = Cardinality(found),
                                 !.object = <<"fleets", req[h].name>>]
  <2>1. Cardinality(found) \in Nat
    <3>1. found \subseteq Objects
      BY DEF Listed
    <3>2. QED
      BY <3>1, ServiceAssumption, FS_Subset, FS_CardinalityType
  <2>2. <<"fleets", req[h].name>> \in Resources \X Names
    BY <1>1 DEF Resources, Names
  <2>3. l \in Locals /\ l.object = <<"fleets", req[h].name>> /\ l.todo = loc[h].todo
    BY <1>1, <2>1, <2>2 DEF Locals
  <2>4. Answer(h, TRUE) \/ Go(h, "delete", l)
    BY <1>2 DEF ListFleets
  <2> HIDE DEF l
  <2>5. CASE Go(h, "delete", l)
    <3>1. /\ HandlerTypes' /\ \A k \in Handlers : k # h => Stays(k)
          /\ at'[h] = "delete" /\ loc'[h] = l /\ req'[h] = req[h]
      BY <2>3, <2>5, GoEffect DEF Calls
    <3>2. Turns(h)
      BY <1>1, <2>3, <3>1 DEF Turns, Resources
    <3>3. QED
      BY <3>1, <3>2 DEF Moves
  <2>6. QED
    BY <2>4, <2>5, AnswerMoves
<1>3. CASE ListServers(h)
  <2>1. {f \in Listed("fleets") : Label(f, "fleet") = req[h].name} = {}
    <3>1. req[h].name # NoValue
      BY <1>1, ServiceAssumption
    <3>2. \A f \in Listed("fleets") : f[1] = "fleets"
      BY DEF Listed
    <3>3. \A f \in Listed("fleets") : Label(f, "fleet") = NoValue
      BY <3>2 DEF Label
    <3>4. QED
      BY <3>1, <3>3
  <2>2. RoundDone(h)
    BY <1>3, <2>1 DEF ListServers
  <2>3. QED
    BY <1>1, <2>2, RoundDoneMoves
<1>4. QED
  BY <1>2, <1>3

LEMMA PodCallMoves ==
    ASSUME Types, HandlersWorkOnOneName, NEW h \in Handlers, GetPod(h) \/ PostAllowDelete(h)
    PROVE  HandlerTypes' /\ Moves
<1>1. /\ at[h] \in Calls /\ loc[h].todo = {req[h].name} /\ loc[h] \in Locals
      /\ loc[h].object = <<"servers", req[h].name>>
  <2>1. /\ at[h] \in {"getPod", "post"} /\ at[h] \in Calls
        /\ loc[h] \in Locals /\ loc[h].object \in Resources \X Names
    BY PodFields DEF GetPod, PostAllowDelete, Calls, Locals
  <2>2. /\ loc[h].todo = {req[h].name} /\ loc[h].object[2] = req[h].name
        /\ loc[h].object[1] = "servers"
    BY <2>1 DEF HandlersWorkOnOneName
  <2>3. QED
    BY <2>1, <2>2
<1>2. CASE GetPod(h)
  <2> DEFINE s == loc[h].object
             l == [loc[h] EXCEPT !.pod = pod[s]]
  <2>1. \/ Answer(h, FALSE)
        \/ s \in Servers /\ req[h].path # "labels" /\ Go(h, "post", l)
        \/ s \in Servers /\ Go(h, "update", l)
    BY <1>1, <1>2 DEF GetPod
  <2>2. at[h] = "getPod" /\ pod' = pod
    BY <1>2 DEF GetPod, clusterVars
  <2>3. ASSUME NEW step \in {"post", "update"}, s \in Servers, Go(h, step, l),
               step = "post" => req[h].path # "labels"
        PROVE  HandlerTypes' /\ Moves
    <3>1. l \in Locals /\ l.object = s /\ l.todo = loc[h].todo /\ l.pod = pod[s]
      BY <1>1, <2>3, PodFields DEF Locals
    <3> HIDE DEF l
    <3>2. /\ HandlerTypes' /\ \A k \in Handlers : k # h => Stays(k)
          /\ at'[h] = step /\ loc'[h] = l /\ req'[h] = req[h]
      BY <2>3, <3>1, GoEffect DEF Calls
    <3>3. Turns(h)
      BY <1>1, <2>2, <2>3, <3>1, <3>2 DEF Turns
    <3>4. QED
      BY <3>2, <3>3 DEF Moves
  <2>4. QED
    BY <2>1, <2>3, AnswerMoves
<1>3. CASE PostAllowDelete(h)
  <2>1. RoundDone(h) \/ Answer(h, FALSE)
    BY <1>1, <1>3 DEF PostAllowDelete, Told, PostFailed
  <2>2. QED
    BY <1>1, <2>1, AnswerMoves, RoundDoneMoves
<1>4. QED
  BY <1>2, <1>3

\* What any step may do to the handlers.
LEMMA HandlerSteps ==
    ASSUME Types, HandlersWorkOnOneName, [Next]_vars PROVE HandlerTypes' /\ Moves
<1>1. CASE UNCHANGED handlerVars
  BY <1>1 DEF handlerVars, HandlerTypes, Types, TypeOK, Moves, Stays
<1>2. CASE Crash
  BY <1>2, NoObjectsType DEF Crash, HandlerTypes, Types, TypeOK, Moves, Stays
<1>3. ASSUME NEW h \in Handlers, CallFails(h) \/ Create(h) \/ UpdatePod(h)
      PROVE  Answer(h, TRUE) \/ Answer(h, FALSE)
  BY <1>3 DEF CallFails, DeleteFailed, PostFailed, Create, UpdatePod
<1>4. QED
  BY <1>1, <1>2, <1>3, NextSteps, ArriveMoves, AnswerMoves, DeleteMoves, ListMoves, PodCallMoves
     DEF vars, Apply, CreateOwned, DeleteOwned, Finalise, StartPod, AddPodFinalizer,
         StopPod, PodRuns, EvictPod, SidecarRestarts, Pod

\* What any step may do to the objects: one is created, or one goes, with
\* nothing left below it, or is told to go, or a server and its pod part.
LEMMA LifeSteps ==
    ASSUME Types, [Next]_vars
    PROVE  \/ UNCHANGED <<life, uid>>
           \/ /\ UNCHANGED <<pod, hit>>
              /\ \E o \in Objects : life[o] = "none" /\ uid[o] < MaxUid[o] /\ Store(o)
           \/ /\ UNCHANGED <<pod, uid>>
              /\ \E o \in Objects, l \in {"terminating", "none"} :
                    /\ life[o] # "none" /\ (l = "none" => Unheld(o))
                    /\ life' = [life EXCEPT ![o] = l]
           \/ \E s \in Servers : StopPod(s)
<1> USE DEF vars, clusterVars
<1>1. ASSUME NEW o \in Objects, RequestDeletion(o)
      PROVE  \/ UNCHANGED life
             \/ \E l \in {"terminating", "none"} :
                   /\ life[o] # "none" /\ (l = "none" => Unheld(o))
                   /\ life' = [life EXCEPT ![o] = l]
  BY <1>1 DEF RequestDeletion
<1>2. ASSUME NEW h \in Handlers, Delete(h)
      PROVE  /\ UNCHANGED <<pod, uid>>
             /\ UNCHANGED life \/ \E o \in Objects : RequestDeletion(o)
  BY <1>2 DEF Delete, Exists
<1>3. ASSUME NEW h \in Handlers, Create(h)
      PROVE  \/ UNCHANGED <<life, uid>>
             \/ /\ UNCHANGED <<pod, hit>>
                /\ \E o \in Objects : life[o] = "none" /\ uid[o] < MaxUid[o] /\ Store(o)
  <2> DEFINE o == loc[h].object
  <2>1. CASE o \in Objects
    BY <1>3, <2>1 DEF Create, Exists
  <2>2. CASE o \notin Objects
    <3>1. \A v : [life EXCEPT ![o] = v] = life /\ [uid EXCEPT ![o] = v] = uid
      BY <2>2 DEF Types, TypeOK
    <3>2. QED
      BY <1>3, <3>1 DEF Create, Store
  <2>3. QED
    BY <2>1, <2>2
<1>4. ASSUME NEW o \in Objects, Apply(o) \/ CreateOwned(o)
      PROVE  UNCHANGED <<pod, hit>> /\ life[o] = "none" /\ uid[o] < MaxUid[o] /\ Store(o)
  BY <1>4 DEF Apply, CreateOwned, Exists
<1>5. ASSUME NEW o \in Objects, DeleteOwned(o)
      PROVE  UNCHANGED <<pod, uid>> /\ RequestDeletion(o)
  BY <1>5 DEF DeleteOwned
<1>6. ASSUME NEW o \in Objects, Finalise(o)
      PROVE  /\ UNCHANGED <<pod, uid>> /\ life[o] # "none" /\ Unheld(o)
             /\ life' = [life EXCEPT ![o] = "none"]
  BY <1>6 DEF Finalise, Doomed
<1>7. CASE \E h \in Handlers : Delete(h)
  BY <1>1, <1>2, <1>7
<1>8. CASE \E o \in Objects : DeleteOwned(o)
  BY <1>1, <1>5, <1>8
<1>9. CASE \E o \in Objects : Apply(o) \/ CreateOwned(o)
  BY <1>4, <1>9
<1>10. CASE \E o \in Objects : Finalise(o)
  BY <1>6, <1>10
<1>11. QED
  BY <1>3, <1>7, <1>8, <1>9, <1>10, NextSteps
     DEF Arrive, CallFails, Crash, ListFleets, ListServers, GetPod, PostAllowDelete, UpdatePod,
         StartPod, AddPodFinalizer, PodRuns, EvictPod, SidecarRestarts, Pod

\* A pod is written: a new version, which is not allowed to go unless it was.
Written(s) ==
    /\ pod'[s].rv = pod[s].rv + 1
    /\ pod'[s].state # "none" => life[s] # "none"
    /\ pod'[s].allowed => pod[s].allowed /\ pod'[s].state = "running"

\* Its sidecar is told that it may go, or forgets it.
Said(s) ==
    /\ pod'[s].rv = pod[s].rv /\ pod'[s].fin = pod[s].fin /\ pod'[s].labels = pod[s].labels
    /\ pod'[s].state = pod[s].state
    /\ pod'[s].allowed => /\ pod[s].state = "running"
                          /\ \E h \in Handlers : at[h] = "post" /\ loc[h].object = s

\* What any step may do to the pods.
LEMMA PodSteps ==
    ASSUME Types, PodsBelongToServers, HandlersWorkOnOneName, [Next]_vars
    PROVE  \/ UNCHANGED pod
           \/ /\ UNCHANGED <<uid, hit>>
              /\ pod' \in [Servers -> Pods]
              /\ \E s \in Servers : /\ Written(s) \/ Said(s)
                                    /\ \A t \in Servers : t # s => pod'[t] = pod[t]
<1> USE DEF vars, clusterVars
<1> DEFINE Goal == /\ pod' \in [Servers -> Pods]
                   /\ \E s \in Servers : /\ Written(s) \/ Said(s)
                                         /\ \A t \in Servers : t # s => pod'[t] = pod[t]
<1>1. ASSUME NEW s \in Servers, NEW p \in Pods, WritePod(s, p),
             p.state # "none" => life[s] # "none",
             p.allowed => pod[s].allowed /\ p.state = "running"
      PROVE  Goal
  <2>1. Written(s)
    BY <1>1, WriteEffect DEF Written
  <2>2. QED
    BY <1>1, <2>1, WriteEffect
<1>2. ASSUME NEW s \in Servers, NEW b \in BOOLEAN, pod' = [pod EXCEPT ![s].allowed = b],
             b => /\ pod[s].state = "running"
                  /\ \E h \in Handlers : at[h] = "post" /\ loc[h].object = s
      PROVE  Goal
  <2>1. Said(s)
    BY <1>2, SayEffect DEF Said
  <2>2. QED
    BY <1>2, <2>1, SayEffect
<1>3. ASSUME NEW h \in Handlers, PostAllowDelete(h), pod' # pod
      PROVE  Goal /\ UNCHANGED <<uid, hit>>
  <2>1. loc[h].object \in Servers /\ loc[h].todo = {req[h].name} /\ at[h] = "post"
        /\ loc[h].object = <<"servers", req[h].name>>
    <3>1. at[h] = "post" /\ loc[h].object \in Resources \X Names
      BY <1>3, PodFields DEF PostAllowDelete, Locals
    <3>2. QED
      BY <3>1 DEF HandlersWorkOnOneName, Calls
  <2>2. /\ pod[loc[h].object].state = "running"
        /\ pod' = [pod EXCEPT ![loc[h].object].allowed = TRUE]
    BY <1>3, <2>1 DEF PostAllowDelete
  <2>3. QED
    BY <1>2, <1>3, <2>1, <2>2 DEF PostAllowDelete
<1>4. ASSUME NEW h \in Handlers, UpdatePod(h), pod' # pod
      PROVE  Goal /\ UNCHANGED <<uid, hit>>
  <2> DEFINE s == loc[h].object
             p == [pod[s] EXCEPT !.fin = loc[h].pod.fin, !.labels = NewLabels(h)]
  <2>1. s \in Servers /\ pod[s].state # "none" /\ WritePod(s, p)
    BY <1>4 DEF UpdatePod, PodCurrent, HandlersWorkOnOneName
  <2>2. NewLabels(h) \in [Keys -> LabelValues]
    <3>1. loc[h].pod.labels \in [Keys -> LabelValues]
      BY PodFields DEF Pods
    <3>2. req[h].value \in LabelValues
      BY ServiceAssumption DEF Types, TypeOK, NoRequest, Request, LabelValues
    <3>3. QED
      BY <3>1, <3>2 DEF NewLabels
  <2>3. p \in Pods /\ p.state = pod[s].state /\ p.allowed = pod[s].allowed
    <3>1. pod[s] \in Pods /\ loc[h].pod.fin \in BOOLEAN
      BY <2>1, PodFields DEF Pods
    <3>2. QED
      BY <2>2, <3>1 DEF Pods
  <2> HIDE DEF p
  <2>4. QED
    BY <1>1, <1>4, <2>1, <2>3 DEF UpdatePod, PodsBelongToServers
<1>5. ASSUME NEW s \in Servers,
             \/ StartPod(s) \/ AddPodFinalizer(s) \/ StopPod(s) \/ PodRuns(s) \/ EvictPod(s)
      PROVE  Goal /\ UNCHANGED <<uid, hit>>
  <2>1. pod[s] \in Pods /\ pod[s].rv + 1 \in Nat /\ s \in Objects
    BY PodFields DEF Servers
  <2>2. NewPod(s) \in Pods /\ ~NewPod(s).allowed
    BY <2>1 DEF NewPod, Pods, LabelValues, NoValue
  <2>3. /\ [pod[s] EXCEPT !.fin = TRUE] \in Pods
        /\ [pod[s] EXCEPT !.fin = TRUE].state = pod[s].state
        /\ [pod[s] EXCEPT !.fin = TRUE].allowed = pod[s].allowed
    BY <2>1 DEF Pods
  <2>4. /\ [pod[s] EXCEPT !.state = "running"] \in Pods
        /\ [pod[s] EXCEPT !.state = "running"].state = "running"
        /\ [pod[s] EXCEPT !.state = "running"].allowed = pod[s].allowed
    BY <2>1 DEF Pods
  <2>5. UNCHANGED <<uid, hit>>
    BY <1>5 DEF StartPod, AddPodFinalizer, StopPod, PodRuns, EvictPod, Pod
  <2>6. CASE StartPod(s)
    BY <1>1, <2>2, <2>5, <2>6 DEF StartPod, Pod
  <2>7. CASE AddPodFinalizer(s)
    BY <1>1, <2>3, <2>5, <2>7 DEF AddPodFinalizer, Pod, PodsBelongToServers
  <2>8. CASE StopPod(s) \/ EvictPod(s)
    BY <1>1, <2>5, <2>8, NoObjectsType DEF StopPod, EvictPod, Pod
  <2>9. CASE PodRuns(s)
    BY <1>1, <2>4, <2>5, <2>9 DEF PodRuns, Pod, PodsBelongToServers
  <2>10. QED
    BY <1>5, <2>6, <2>7, <2>8, <2>9
<1>6. ASSUME NEW s \in Servers, SidecarRestarts(s) PROVE Goal /\ UNCHANGED <<uid, hit>>
  BY <1>2, <1>6 DEF SidecarRestarts
<1>7. QED
  BY <1>3, <1>4, <1>5, <1>6, NextSteps
     DEF Arrive, CallFails, Crash, Create, Delete, ListFleets, ListServers, GetPod,
         Apply, CreateOwned, DeleteOwned, Finalise

-----------------------------------------------------------------------------
(* The invariant is kept *)

LEMMA HitGrows ==
    ASSUME [Next]_vars
    PROVE  hit' = hit \/ \E o \in Objects : hit' = hit \cup {<<o, uid[o]>>}
<1> USE DEF vars, clusterVars
<1>1. ASSUME NEW h \in Handlers, Delete(h)
      PROVE  hit' = hit \/ \E o \in Objects : hit' = hit \cup {<<o, uid[o]>>}
  BY <1>1 DEF Delete, Exists
<1>2. QED
  BY <1>1, NextSteps
     DEF Arrive, CallFails, Crash, Create, ListFleets, ListServers, GetPod, PostAllowDelete,
         UpdatePod, Apply, CreateOwned, DeleteOwned, Finalise, StartPod, AddPodFinalizer,
         StopPod, PodRuns, EvictPod, SidecarRestarts, Pod

LEMMA TypesStep ==
    ASSUME Types, PodsBelongToServers, HandlersWorkOnOneName, [Next]_vars PROVE Types'
<1>1. life' \in [Objects -> Lives]
  BY LifeSteps DEF Types, TypeOK, Store, StopPod, Lives, Doomed
<1>2. uid' \in [Objects -> Nat] /\ \A o \in Objects : uid'[o] \in 0..MaxUid[o]
  <2>1. uid \in [Objects -> Nat] /\ \A o \in Objects : uid[o] \in 0..MaxUid[o] /\ MaxUid[o] \in Nat
    BY ServiceAssumption DEF Types, TypeOK
  <2>2. ASSUME NEW o \in Objects, uid[o] < MaxUid[o], uid' = [uid EXCEPT ![o] = @ + 1]
        PROVE  uid' \in [Objects -> Nat] /\ \A u \in Objects : uid'[u] \in 0..MaxUid[u]
    BY <2>1, <2>2
  <2>3. QED
    BY <2>1, <2>2, LifeSteps DEF Store, StopPod
<1>3. pod' \in [Servers -> Pods]
  BY PodSteps DEF Types, TypeOK
<1>4. HandlerTypes'
  BY HandlerSteps
<1>5. hit' \subseteq Objects \X Nat
  BY HitGrows DEF Types, TypeOK
<1>6. faults' \in 0..MaxFaults /\ restarts' \in 0..MaxFaults /\ restarts' <= faults'
  <2>1. /\ faults \in 0..MaxFaults /\ restarts \in 0..MaxFaults /\ restarts <= faults
        /\ MaxFaults \in Nat
    BY ServiceAssumption DEF Types, TypeOK
  <2>2. \/ UNCHANGED <<faults, restarts>>
        \/ Fault /\ (restarts' = restarts \/ restarts' = restarts + 1)
    BY NextSteps
       DEF vars, budgetVars, Arrive, CallFails, Crash, Create, Delete, ListFleets, ListServers,
           GetPod, PostAllowDelete, UpdatePod, Apply, CreateOwned, DeleteOwned, Finalise,
           StartPod, AddPodFinalizer, StopPod, PodRuns, EvictPod, SidecarRestarts
  <2>3. QED
    BY <2>1, <2>2 DEF Fault
<1>7. QED
  BY <1>1, <1>2, <1>3, <1>4, <1>5, <1>6 DEF Types, TypeOK, HandlerTypes, Locals

LEMMA PodsBelongToServersStep ==
    ASSUME Types, PodsBelongToServers, HandlersWorkOnOneName, [Next]_vars
    PROVE  PodsBelongToServers'
<1>1. /\ life \in [Objects -> Lives] /\ uid \in [Objects -> Nat]
      /\ Servers \subseteq Objects
  BY DEF Types, TypeOK, Servers
<1>2. ASSUME UNCHANGED <<life, uid>> PROVE PodsBelongToServers'
  BY <1>2, PodSteps DEF PodsBelongToServers, Written, Said
<1>3. ASSUME UNCHANGED pod, NEW o \in Objects, Store(o) PROVE PodsBelongToServers'
  BY <1>1, <1>3 DEF PodsBelongToServers, Store
<1>4. ASSUME UNCHANGED <<pod, uid>>, NEW o \in Objects, NEW l \in {"terminating", "none"},
             life[o] # "none", l = "none" => Unheld(o), life' = [life EXCEPT ![o] = l]
      PROVE  PodsBelongToServers'
  BY <1>1, <1>4 DEF PodsBelongToServers, Unheld
<1>5. ASSUME NEW s \in Servers, StopPod(s) PROVE PodsBelongToServers'
  <2>1. /\ life[s] # "none" /\ life' = [life EXCEPT ![s] = "released"] /\ UNCHANGED uid
    BY <1>5 DEF StopPod
  <2>2. \A o \in Objects : life'[o] # "none" <=> life[o] # "none"
    BY <1>1, <2>1
  <2>3. QED
    BY <1>1, <2>1, <2>2, PodSteps DEF PodsBelongToServers, Written, Said
<1>6. QED
  BY <1>2, <1>3, <1>4, <1>5, LifeSteps

LEMMA HandlersStep ==
    ASSUME Types, HandlersWorkOnOneName, [Next]_vars PROVE HandlersWorkOnOneName'
<1>1. SUFFICES ASSUME NEW h \in Handlers
               PROVE  /\ at'[h] \in Calls =>
                            /\ req'[h] \in Requests
                            /\ loc'[h].todo = {req'[h].name} /\ loc'[h].object[2] = req'[h].name
                            /\ loc'[h].object[1] # "none"
                      /\ at'[h] \in {"getPod", "post", "update"} => loc'[h].object[1] = "servers"
                      /\ at'[h] \in {"post", "update"} => loc'[h].object \in Servers
                      /\ at'[h] = "post" => req'[h].path # "labels"
  BY DEF HandlersWorkOnOneName
<1>2. CASE Stays(h)
  BY <1>2 DEF Stays, HandlersWorkOnOneName
<1>3. CASE at'[h] = "done"
  BY <1>3 DEF Calls
<1>4. CASE Begins(h)
  <2>1. req'[h] \in Requests /\ Resource(req'[h].path) # "none"
        /\ (req'[h].path = "labels" => Resource(req'[h].path) = "servers")
    BY <1>4, ServiceAssumption DEF Begins, Resource
  <2>2. QED
    BY <1>4, <2>1 DEF Begins
<1>5. CASE Turns(h)
  BY <1>5 DEF Turns, HandlersWorkOnOneName
<1>6. QED
  BY <1>2, <1>3, <1>4, <1>5, HandlerSteps DEF Moves

\* Once a server was hit, every later server of its name is a new one.
LEMMA HitStays ==
    ASSUME Types, [Next]_vars, NEW s \in Servers, WasHit(s) PROVE WasHit(s)'
<1>1. PICK n \in 1..uid[s] : <<s, n>> \in hit /\ (n = uid[s] => life[s] # "live")
  BY DEF WasHit
<1>2. s \in Objects /\ uid[s] \in Nat /\ <<s, n>> \in hit'
  BY <1>1, HitGrows DEF Servers, Types
<1>3. life \in [Objects -> Lives] /\ uid \in [Objects -> Nat]
  BY DEF Types, TypeOK
<1>4. (uid'[s] = uid[s] /\ (life[s] # "live" => life'[s] # "live")) \/ uid'[s] = uid[s] + 1
  BY <1>2, <1>3, LifeSteps DEF Store, StopPod
<1>5. n \in 1..uid'[s] /\ (n = uid'[s] => life'[s] # "live")
  BY <1>1, <1>2, <1>4
<1>6. QED
  BY <1>2, <1>5 DEF WasHit

LEMMA TellsAfterDeleteStep ==
    ASSUME Types, PodsBelongToServers, HandlersWorkOnOneName, TellsAfterDelete, [Next]_vars
    PROVE  TellsAfterDelete'
<1>1. SUFFICES ASSUME NEW h \in Handlers, at'[h] \in {"getPod", "post"}, req'[h].path # "labels"
               PROVE  loc'[h].object \in Servers /\ WasHit(loc[h].object)'
  BY DEF TellsAfterDelete
<1>2. ASSUME at[h] \in {"getPod", "post"}, req[h].path # "labels",
             loc'[h].object = loc[h].object
      PROVE  loc'[h].object \in Servers /\ WasHit(loc[h].object)'
  <2>1. PICK s \in Servers : s = loc[h].object /\ WasHit(s)
    BY <1>2 DEF TellsAfterDelete
  <2>2. WasHit(s)'
    BY <2>1, HitStays
  <2>3. QED
    BY <1>2, <2>1, <2>2 DEF WasHit
<1>3. CASE Stays(h)
  BY <1>1, <1>2, <1>3 DEF Stays
<1>4. CASE Begins(h) \/ at'[h] = "done"
  BY <1>1, <1>4 DEF Begins
<1>5. CASE Turns(h)
  <2>1. CASE at[h] = "getPod"
    BY <1>1, <1>2, <1>5, <2>1 DEF Turns
  <2>2. CASE at[h] # "getPod"
    <3> DEFINE o == loc[h].object
    <3>1. /\ loc'[h].object = o /\ o[1] = "servers" /\ Exists(o) /\ RequestDeletion(o)
          /\ uid' = uid /\ <<o, uid[o]>> \in hit'
      BY <1>1, <1>5, <2>2 DEF Turns
    <3>2. /\ o \in Objects /\ o \in Servers /\ uid[o] > 0 /\ uid[o] \in Nat
          /\ life \in [Objects -> Lives]
      BY <3>1 DEF Exists, Servers, PodsBelongToServers, Types, TypeOK
    <3>3. life'[o] # "live"
      BY <3>1, <3>2 DEF RequestDeletion, Doomed
    <3>4. QED
      BY <3>1, <3>2, <3>3 DEF WasHit
  <2>3. QED
    BY <2>1, <2>2
<1>6. QED
  BY <1>3, <1>4, <1>5, HandlerSteps DEF Moves

LEMMA PodVersionsStep ==
    ASSUME Types, PodsBelongToServers, HandlersWorkOnOneName, PodVersionsAreUnique, [Next]_vars
    PROVE  PodVersionsAreUnique'
<1>1. SUFFICES ASSUME NEW h \in Handlers, at'[h] = "update"
               PROVE  Current(loc'[h].pod, pod'[loc'[h].object])
  BY DEF PodVersionsAreUnique
<1>2. CASE Stays(h)
  <2>1. PICK s \in Servers : s = loc[h].object /\ Current(loc[h].pod, pod[s])
    BY <1>1, <1>2 DEF Stays, HandlersWorkOnOneName, PodVersionsAreUnique
  <2>2. pod[s].rv \in Nat /\ loc[h].pod.rv \in Nat
    BY <2>1, PodFields
  <2>3. pod'[s] = pod[s] \/ Written(s) \/ Said(s)
    BY <2>1, PodSteps
  <2>4. Current(loc[h].pod, pod'[s])
    BY <2>1, <2>2, <2>3 DEF Current, Written, Said
  <2>5. QED
    BY <1>2, <2>1, <2>4 DEF Stays
<1>3. CASE Turns(h)
  <2>1. /\ loc'[h].object = loc[h].object /\ loc[h].object \in Servers
        /\ loc'[h].pod = pod[loc[h].object] /\ pod' = pod
    BY <1>1, <1>3 DEF Turns
  <2>2. QED
    BY <2>1, PodFields DEF Current
<1>4. QED
  BY <1>1, <1>2, <1>3, HandlerSteps DEF Moves, Begins

LEMMA ToldStep ==
    ASSUME Types, PodsBelongToServers, HandlersWorkOnOneName, TellsAfterDelete,
           OnlyDoomedPodsAreTold, [Next]_vars
    PROVE  OnlyDoomedPodsAreTold'
<1>1. SUFFICES ASSUME NEW s \in Servers, pod'[s].allowed
               PROVE  \E n \in 1..uid'[s] : <<s, n>> \in hit' /\ (n = uid'[s] => life'[s] \in Doomed)
  BY DEF OnlyDoomedPodsAreTold
<1>2. WasHit(s)
  <2>1. CASE pod[s].allowed
    BY <2>1 DEF OnlyDoomedPodsAreTold, WasHit, Doomed
  <2>2. CASE ~pod[s].allowed
    <3>1. Said(s)
      BY <1>1, <2>2, PodSteps DEF Written
    <3>2. PICK h \in Handlers : at[h] = "post" /\ loc[h].object = s
      BY <1>1, <3>1 DEF Said
    <3>3. QED
      BY <3>2 DEF TellsAfterDelete, HandlersWorkOnOneName
  <2>3. QED
    BY <2>1, <2>2
<1>3. WasHit(s)'
  BY <1>2, HitStays
<1>4. life'[s] # "none" /\ life'[s] \in Lives
  <2>1. PodsBelongToServers' /\ Types'
    BY PodsBelongToServersStep, TypesStep
  <2>2. QED
    BY <1>1, <2>1 DEF PodsBelongToServers, Types, TypeOK, Servers
<1>5. QED
  BY <1>3, <1>4 DEF WasHit, Lives, Doomed

-----------------------------------------------------------------------------
(* What follows *)

LEMMA ServiceInvInit == Init => ServiceInv
<1> SUFFICES ASSUME Init PROVE ServiceInv
  OBVIOUS
<1> USE DEF Init
<1>1. Servers \subseteq Objects
  BY DEF Servers
<1>2. Types
  BY <1>1, NoObjectsType, ServiceAssumption DEF Types, TypeOK, Locals, Lives
<1>3. \A s \in Servers : ~pod[s].allowed /\ pod[s].state = "none"
  BY NoObjectsType
<1>4. QED
  BY <1>1, <1>2, <1>3
     DEF ServiceInv, PodsBelongToServers, HandlersWorkOnOneName, TellsAfterDelete,
         PodVersionsAreUnique, OnlyDoomedPodsAreTold, Calls

LEMMA ServiceInvStep == ServiceInv /\ [Next]_vars => ServiceInv'
  BY TypesStep, PodsBelongToServersStep, HandlersStep, TellsAfterDeleteStep, PodVersionsStep,
     ToldStep DEF ServiceInv

LEMMA ServiceInvCorrect == Spec => []ServiceInv
  BY ServiceInvInit, ServiceInvStep, PTL DEF Spec

\* Every variable of Service keeps its type.
THEOREM TypeCorrect == Spec => []TypeOK
<1>1. ServiceInv => TypeOK
  BY DEF ServiceInv, Types
<1>2. QED
  BY <1>1, ServiceInvCorrect, PTL

\* However many requests are served at the same time, and whatever becomes of
\* the server between the Delete, the Get and the POST of a forced request: a
\* pod is allowed to go only after a forced DELETE of its server, or of an
\* earlier one of that name, was accepted.
THEOREM OnlyDoomedPodsAreToldCorrect == Spec => []OnlyDoomedPodsAreTold
<1>1. ServiceInv => OnlyDoomedPodsAreTold
  BY DEF ServiceInv
<1>2. QED
  BY <1>1, ServiceInvCorrect, PTL

\* Only the handler itself, or a restart of the service, ends a handler.
LEMMA WhoEndsAHandler ==
    ASSUME Types, [Next]_vars, NEW h \in Handlers, at[h] = "update", at'[h] = "done"
    PROVE  UpdatePod(h) \/ UNCHANGED pod
<1>1. ASSUME NEW k \in Handlers, k # h, PostAllowDelete(k) \/ UpdatePod(k) PROVE at'[h] = at[h]
  BY <1>1
     DEF PostAllowDelete, UpdatePod, Told, PostFailed, RoundDone, Answer, Go, Types, TypeOK
<1>2. ~PostAllowDelete(h)
  BY DEF PostAllowDelete
<1>3. QED
  BY <1>1, <1>2, NextSteps
     DEF vars, clusterVars, handlerVars, Arrive, CallFails, Crash, Create, Delete, ListFleets,
         ListServers, GetPod, Apply, CreateOwned, DeleteOwned, Finalise, StartPod,
         AddPodFinalizer, StopPod, PodRuns, EvictPod, SidecarRestarts, Pod

\* However label requests, the operator and the kubelet interleave: a label
\* write that goes through changes the labels in force at that moment, and
\* nothing else.
THEOREM LabelWritesAreIsolatedCorrect == Spec => LabelWritesAreIsolated
<1> DEFINE Isolated ==
              \A h \in Handlers : at[h] = "update" /\ at'[h] = "done" =>
                 LET s == loc[h].object IN
                 pod'[s] # pod[s] =>
                    pod'[s] = [pod[s] EXCEPT !.labels[req[h].key] = req[h].value, !.rv = @ + 1]
<1>1. ServiceInv /\ [Next]_vars => [Isolated]_vars
  <2>1. SUFFICES ASSUME ServiceInv, [Next]_vars, NEW h \in Handlers,
                        at[h] = "update", at'[h] = "done",
                        pod'[loc[h].object] # pod[loc[h].object]
                 PROVE  LET s == loc[h].object IN
                        pod'[s] = [pod[s] EXCEPT !.labels[req[h].key] = req[h].value,
                                                 !.rv = @ + 1]
    OBVIOUS
  <2> DEFINE s == loc[h].object
             p == [pod[s] EXCEPT !.fin = loc[h].pod.fin, !.labels = NewLabels(h)]
             q == [pod[s] EXCEPT !.labels = NewLabels(h)]
  <2>2. Types /\ s \in Servers /\ Current(loc[h].pod, pod[s]) /\ pod[s] \in Pods
    BY <2>1, PodFields DEF ServiceInv, HandlersWorkOnOneName, PodVersionsAreUnique
  <2>3. UpdatePod(h)
    BY <2>1, <2>2, WhoEndsAHandler
  <2>4. PodCurrent(h, s) /\ WritePod(s, p)
    BY <2>1, <2>3 DEF UpdatePod
  <2>5. loc[h].pod.fin = pod[s].fin /\ loc[h].pod.labels = pod[s].labels
    BY <2>2, <2>4 DEF PodCurrent, Current
  <2>6. pod'[s] = [p EXCEPT !.rv = pod[s].rv + 1]
    BY <2>2, <2>4 DEF WritePod, Types, TypeOK
  <2>7. p = q
    BY <2>2, <2>5 DEF Pods
  <2>8. NewLabels(h) = [pod[s].labels EXCEPT ![req[h].key] = req[h].value]
    BY <2>5 DEF NewLabels
  <2>9. QED
    BY <2>2, <2>6, <2>7, <2>8 DEF Pods
<1>2. QED
  BY <1>1, ServiceInvCorrect, PTL DEF Spec, LabelWritesAreIsolated

=============================================================================
