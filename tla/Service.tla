------------------------------ MODULE Service ------------------------------
(***************************************************************************)
(* The HTTP service in front of the cluster: concurrent handlers, one      *)
(* request each, one call of the API server or of a sidecar per step.      *)
(*                                                                         *)
(* An object is a pair <<resource, name>>.  The operator is seen through   *)
(* what it promises: it creates what an owner wants, passes a deletion     *)
(* down to what it owns, gives a pod up only when its game is not running  *)
(* or allows it (ServerLife), and may finalise what has nothing left       *)
(* below it.  No deletion timeout passes and no game allows its deletion   *)
(* by itself, so that what `force` achieves is visible, and the operator   *)
(* meets no fault of its own.                                              *)
(***************************************************************************)
EXTENDS Naturals, FiniteSets, Admission

CONSTANTS
    Objects,     \* the game types, fleets and servers there may ever be
    Owner,       \* the object that creates an object, or NoOwner
    MaxUid,      \* how often each object may be created
    MaxRequests, \* bound on the requests, which may all be served at the same time
    Requests,    \* what clients send, see Request
    Keys,        \* keys of pod labels
    MaxFaults    \* bound on failed calls, evictions and restarts

NoOwner == <<"none", "none">>
NoValue == "none"
LabelValues == {"set", "a", "b", NoValue}

ASSUME ServiceAssumption ==
    /\ IsFiniteSet(Objects)
    /\ \A o \in Objects : Owner[o] \in Objects \cup {NoOwner} /\ MaxUid[o] \in Nat
    /\ \A r \in Requests :
          /\ r.path \in {"game", "fleet", "server", "scaler", "labels"}
          /\ r.name # NoValue /\ r.force \in BOOLEAN /\ r.value \in LabelValues
    /\ {"server", "fleet"} \subseteq Keys
    /\ MaxRequests \in Nat /\ MaxFaults \in Nat

\* The requests are numbered as they come, each has a handler of its own.
Handlers == 1..MaxRequests

VARIABLES
    life, uid,        \* of each object: life, see Lives, and how often it was created
    pod,              \* of each server
    at, req, loc,     \* of each handler: next call, request, locals
    faults, restarts, \* how many faults there were, and restarts of sidecars among them
    hit, promised     \* history: <<object, uid>> whose Delete a forced request got
                      \* through; <<path, server, pod.born>> of the pods that ran
                      \* when a forced request came that was answered without error

clusterVars == <<life, uid, pod>>
handlerVars == <<at, req, loc, promised>>
budgetVars == <<faults, restarts>>
vars == <<clusterVars, handlerVars, budgetVars, hit>>

-----------------------------------------------------------------------------
(* Objects, labels and pods *)

Servers == {o \in Objects : o[1] = "servers"}

\* "released": a terminating server whose pod handleDeletion has given up, and
\* whose finalizer goes next.
Doomed == {"terminating", "released"}
Lives == {"none", "live"} \cup Doomed

\* key and value name the label that AddPodLabel sets or RemovePodLabel drops.
Request(method, path, name, force, key, value) ==
    [method |-> method, path |-> path, name |-> name, force |-> force,
     key |-> key, value |-> value]

NoRequest == Request("none", "none", "none", FALSE, "none", NoValue)

\* The label the controllers give what they create: "type" to the fleets of a
\* game type, "fleet" to the servers of a fleet.
Label(o, key) ==
    IF <<o[1], key>> \in {<<"fleets", "type">>, <<"servers", "fleet">>}
    THEN Owner[o][2] ELSE NoValue

Pods == [state : {"none", "pending", "running"}, allowed : BOOLEAN, fin : BOOLEAN,
         labels : [Keys -> LabelValues], born : Nat, rv : Nat]

\* The pod of GetNewPod, with the labels of its server and "server".
NewPod(s) ==
    [state |-> "pending", allowed |-> FALSE, fin |-> FALSE,
     labels |-> [k \in Keys |-> IF k = "server" \/ (k = "fleet" /\ Label(s, k) # NoValue)
                                THEN "set" ELSE NoValue],
     born |-> pod[s].rv + 1, rv |-> pod[s].rv + 1]

NoPod ==
    [state |-> "none", allowed |-> FALSE, fin |-> FALSE,
     labels |-> [k \in Keys |-> NoValue], born |-> 0, rv |-> 0]

WritePod(s, p) == pod' = [pod EXCEPT ![s] = [p EXCEPT !.rv = pod[s].rv + 1]]

Exists(o) == o \in Objects /\ life[o] # "none"
Listed(resource) == {o \in Objects : o[1] = resource /\ Exists(o)}
Below(o) == {c \in Objects : Owner[c] = o}

\* Nothing holds the object: what has children or a pod has its finalizer.
Unheld(o) ==
    /\ \A c \in Below(o) : ~Exists(c)
    /\ o \in Servers => pod[o].state = "none"

Store(o) ==
    /\ life' = [life EXCEPT ![o] = "live"]
    /\ uid' = [uid EXCEPT ![o] = @ + 1]

\* Delete by name; an object without a finalizer is gone at once.
RequestDeletion(o) ==
    \/ life[o] = "live" /\ life' = [life EXCEPT ![o] = "terminating"]
    \/ life[o] = "live" /\ Unheld(o) /\ life' = [life EXCEPT ![o] = "none"]
    \/ life[o] \in Doomed /\ UNCHANGED life

-----------------------------------------------------------------------------
(* The handlers *)

\* scaler.go uses the resource of the servers for the autoscalers.
Resource(path) ==
    CASE path = "game" -> "gametypes" [] path = "fleet" -> "fleets"
      [] path \in {"server", "labels", "scaler"} -> "servers"

\* object: what Delete is asked to delete; rounds: of removeFleetsForGame;
\* todo: servers to tell; pod: what Get returned; ran: history, see promised.
NoLocals == [object |-> NoOwner, rounds |-> 0, todo |-> {}, pod |-> NoPod, ran |-> {}]

Go(h, step, locals) ==
    /\ at' = [at EXCEPT ![h] = step]
    /\ loc' = [loc EXCEPT ![h] = locals]
    /\ UNCHANGED <<req, promised>>

\* The handler is done; ok: its answer names no error.  Most handlers write
\* the error before its status, which is then 200.  A panic ends one as well.
Answer(h, ok) ==
    /\ at' = [at EXCEPT ![h] = "done"]
    /\ loc' = [loc EXCEPT ![h] = NoLocals]
    /\ req' = [req EXCEPT ![h] = NoRequest]
    /\ promised' = IF ok THEN promised \cup {<<req[h].path, r[1], r[2]>> : r \in loc[h].ran}
                         ELSE promised

Running(S) == {<<s, pod[s].born>> : s \in {t \in S \cap Servers : pod[t].state = "running"}}

Arrive(h) ==
    /\ at[h] = "idle" /\ \A g \in 1..h - 1 : at[g] # "idle"
    /\ \E r \in Requests : LET o == <<Resource(r.path), r.name>> IN
          /\ req' = [req EXCEPT ![h] = r]
          /\ at' = [at EXCEPT ![h] = CASE r.path = "labels" -> "getPod"
                                       [] r.method = "POST" -> "create"
                                       [] OTHER -> "delete"]
          /\ loc' = [loc EXCEPT ![h].object = o, ![h].todo = {r.name},
                       ![h].ran = IF r.force THEN Running({o} \cup Below(o)) ELSE {}]
    /\ UNCHANGED <<clusterVars, budgetVars, hit, promised>>

\* The server spec in the body of a request; a scaler has none.
Body(path) == [pod |-> IF path = "scaler" THEN <<>> ELSE <<"image">>, timeout |-> NoTimeout]

\* The API server refuses a name that is taken and what its webhook refuses,
\* which the spec of a scaler, sent as a server, always is.  It may refuse any
\* other object, as it will if it looks at the kind: the ToUnstructured
\* functions write the name of a resource there ("gametypes" for a server).
\* The model lets both happen, so that what is created can be deleted.
Create(h) ==
    LET o == loc[h].object IN
    /\ at[h] = "create"
    /\ \/ /\ ~Exists(o) /\ uid[o] < MaxUid[o] /\ ServerAdmitted(Body(req[h].path))
          /\ Store(o)
          /\ Answer(h, TRUE)
       \/ UNCHANGED <<life, uid>> /\ Answer(h, FALSE)
    /\ UNCHANGED <<pod, budgetVars, hit>>

\* What follows an accepted Delete; DeleteScaler knows no force.
AfterDelete(h) ==
    IF ~req[h].force THEN Answer(h, TRUE)
    ELSE Go(h, CASE loc[h].object[1] = "servers" -> "getPod"
                 [] loc[h].object[1] = "fleets" -> "listServers"
                 [] loc[h].object[1] = "gametypes" -> "listFleets", loc[h])

\* Mutant: the error of Delete is dropped.
DeleteFailed_Ignored(h) == AfterDelete(h)

DeleteFailed(h) == Answer(h, FALSE)

Delete(h) ==
    LET o == loc[h].object IN
    /\ at[h] = "delete"
    /\ \/ /\ Exists(o)
          /\ RequestDeletion(o)
          /\ AfterDelete(h)
          /\ hit' = IF req[h].force THEN hit \cup {<<o, uid[o]>>} ELSE hit
       \/ ~Exists(o) /\ DeleteFailed(h) /\ UNCHANGED <<life, hit>>
    /\ UNCHANGED <<uid, pod, budgetVars>>

\* removeFleetsForGame: one round per fleet of the game type, and each round
\* is DeleteFleet with the metadata, so the name, of the game type.
ListFleets(h) ==
    LET n == Cardinality({f \in Listed("fleets") : Label(f, "type") = req[h].name}) IN
    /\ at[h] = "listFleets"
    /\ \/ n = 0 /\ Answer(h, TRUE)
       \/ n > 0 /\ Go(h, "delete", [loc[h] EXCEPT !.rounds = n,
                                                 !.object = <<"fleets", req[h].name>>])
    /\ UNCHANGED <<clusterVars, budgetVars, hit>>

\* Mutant: the loop does not see its last round.
LastRound_Never(h) == FALSE

LastRound(h) == loc[h].rounds <= 1

\* The servers are told: the next round of removeFleetsForGame, or the answer.
RoundDone(h) ==
    IF LastRound(h) THEN Answer(h, TRUE)
    ELSE Go(h, "delete", [loc[h] EXCEPT !.rounds = @ - 1])

\* forceDeleteFleet looks for the label among the fleets.
ListServers(h) ==
    LET found == {f \in Listed("fleets") : Label(f, "fleet") = req[h].name} IN
    /\ at[h] = "listServers"
    /\ IF found = {} THEN RoundDone(h)
       ELSE Go(h, "getPod", [loc[h] EXCEPT !.todo = {f[2] : f \in found}])
    /\ UNCHANGED <<clusterVars, budgetVars, hit>>

\* The Get that begins sendDeleteAllowed, AddPodLabels and RemovePodLabel.
\* maps.Copy into the nil map of a pod without labels panics.
GetPod(h) ==
    /\ at[h] = "getPod"
    /\ \E n \in loc[h].todo :
          LET s == <<"servers", n>> IN
          IF s \notin Servers \/ pod[s].state = "none" THEN Answer(h, FALSE)
          ELSE IF req[h].path # "labels" THEN Go(h, "post", [loc[h] EXCEPT !.pod = pod[s]])
          ELSE IF req[h].method = "POST" /\ pod[s].labels = NoPod.labels THEN Answer(h, FALSE)
          ELSE Go(h, "update", [loc[h] EXCEPT !.pod = pod[s]])
    /\ UNCHANGED <<clusterVars, budgetVars, hit>>

\* The next server of the list, or the end of it.
Told(h, n) ==
    IF loc[h].todo = {n} THEN RoundDone(h)
    ELSE Go(h, "getPod", [loc[h] EXCEPT !.todo = @ \ {n}])

\* Mutant: the error of the POST is dropped.
PostFailed_Ignored(h) == RoundDone(h)

PostFailed(h) == Answer(h, FALSE)

\* The POST to the address that Get returned.  A pod that was not running had
\* none: "http://:8080" is the service itself, whose 404 nobody looks at.
PostAllowDelete(h) ==
    /\ at[h] = "post"
    /\ \E n \in loc[h].todo :
          LET s == <<"servers", n>>
              same == pod[s].born = loc[h].pod.born /\ pod[s].state = "running" IN
          \/ /\ loc[h].pod.state = "pending"
             /\ Told(h, n)
             /\ UNCHANGED pod
          \/ /\ loc[h].pod.state = "running" /\ same
             /\ pod' = [pod EXCEPT ![s].allowed = TRUE]
             /\ Told(h, n)
          \/ /\ loc[h].pod.state = "running" /\ ~same
             /\ PostFailed(h)
             /\ UNCHANGED pod
    /\ UNCHANGED <<life, uid, budgetVars, hit>>

\* Mutant: the pod is written whatever happened to it since the Get.
PodCurrent_Any(h, s) == pod[s].state # "none"

PodCurrent(h, s) == pod[s].state # "none" /\ pod[s].rv = loc[h].pod.rv

\* A key that is added replaces one that is there, one that is missing may be removed.
NewLabels(h) == [loc[h].pod.labels EXCEPT ![req[h].key] = req[h].value]

\* The whole pod that Get returned is written back with its labels changed.
UpdatePod(h) ==
    LET s == loc[h].object IN
    /\ at[h] = "update"
    /\ \/ /\ PodCurrent(h, s)
          /\ WritePod(s, [pod[s] EXCEPT !.fin = loc[h].pod.fin, !.labels = NewLabels(h)])
          /\ Answer(h, TRUE)
       \/ ~PodCurrent(h, s) /\ UNCHANGED pod /\ Answer(h, FALSE)
    /\ UNCHANGED <<life, uid, budgetVars, hit>>

(* One action per route of SetupRoutes. *)

Serves(h, method, path) == req[h].method = method /\ req[h].path = path

CreateServer(h) == Serves(h, "POST", "server") /\ Create(h)
CreateFleet(h) == Serves(h, "POST", "fleet") /\ Create(h)
CreateGame(h) == Serves(h, "POST", "game") /\ Create(h)
CreateScaler(h) == Serves(h, "POST", "scaler") /\ Create(h)

DeleteServer(h) ==
    Serves(h, "DELETE", "server") /\ (Delete(h) \/ GetPod(h) \/ PostAllowDelete(h))

DeleteFleet(h) ==
    /\ Serves(h, "DELETE", "fleet")
    /\ Delete(h) \/ ListServers(h) \/ GetPod(h) \/ PostAllowDelete(h)

DeleteGame(h) ==
    /\ Serves(h, "DELETE", "game")
    /\ \/ Delete(h) \/ ListFleets(h) \/ ListServers(h)
       \/ GetPod(h) \/ PostAllowDelete(h)

DeleteScaler(h) == Serves(h, "DELETE", "scaler") /\ Delete(h)

AddPodLabel(h) == Serves(h, "POST", "labels") /\ (GetPod(h) \/ UpdatePod(h))
RemovePodLabel(h) == Serves(h, "DELETE", "labels") /\ (GetPod(h) \/ UpdatePod(h))

Handle(h) ==
    \/ CreateServer(h) \/ CreateFleet(h) \/ CreateGame(h) \/ CreateScaler(h)
    \/ DeleteServer(h) \/ DeleteFleet(h) \/ DeleteGame(h) \/ DeleteScaler(h)
    \/ AddPodLabel(h) \/ RemovePodLabel(h)

Calls == {"create", "delete", "listFleets", "listServers", "getPod", "post", "update"}

Fault == faults < MaxFaults /\ faults' = faults + 1

CallFails(h) ==
    /\ Fault /\ UNCHANGED restarts
    /\ \/ at[h] = "delete" /\ DeleteFailed(h)
       \/ at[h] = "post" /\ PostFailed(h)
       \/ at[h] \in Calls \ {"delete", "post"} /\ Answer(h, FALSE)
    /\ UNCHANGED <<clusterVars, hit>>

\* The service restarts: what was being served is never answered.
Crash ==
    /\ Fault /\ UNCHANGED restarts
    /\ \E h \in Handlers : at[h] \in Calls
    /\ LET Lost(f, v) == [h \in Handlers |-> IF at[h] = "idle" THEN f[h] ELSE v]
       IN  at' = Lost(at, "done") /\ req' = Lost(req, NoRequest) /\ loc' = Lost(loc, NoLocals)
    /\ UNCHANGED <<clusterVars, promised, hit>>

-----------------------------------------------------------------------------
(* The users of kubectl, the operator and the kubelet *)

Apply(o) ==
    /\ Owner[o] = NoOwner /\ ~Exists(o) /\ uid[o] < MaxUid[o]
    /\ Store(o)
    /\ UNCHANGED <<pod, handlerVars, budgetVars, hit>>

CreateOwned(o) ==
    /\ Owner[o] # NoOwner /\ life[Owner[o]] = "live" /\ ~Exists(o) /\ uid[o] < MaxUid[o]
    /\ Store(o)
    /\ UNCHANGED <<pod, handlerVars, budgetVars, hit>>

\* A deletion is passed down, by handleDeletion or by the garbage collector.
DeleteOwned(o) ==
    /\ Owner[o] # NoOwner /\ life[Owner[o]] # "live" /\ life[o] = "live"
    /\ RequestDeletion(o)
    /\ UNCHANGED <<uid, pod, handlerVars, budgetVars, hit>>

\* Always possible, but promised only to a released server: handleDeletion of
\* one that lost its pod otherwise goes on only while its cache shows the pod.
Finalise(o) ==
    /\ life[o] \in Doomed /\ Unheld(o)
    /\ life' = [life EXCEPT ![o] = "none"]
    /\ UNCHANGED <<uid, pod, handlerVars, budgetVars, hit>>

Pod(s, p) == WritePod(s, p) /\ UNCHANGED <<life, uid, handlerVars, hit>>

StartPod(s) ==
    /\ life[s] = "live" /\ pod[s].state = "none"
    /\ Pod(s, NewPod(s)) /\ UNCHANGED budgetVars

PodRuns(s) ==
    /\ pod[s].state = "pending"
    /\ Pod(s, [pod[s] EXCEPT !.state = "running"]) /\ UNCHANGED budgetVars

AddPodFinalizer(s) ==
    /\ life[s] = "live" /\ pod[s].state # "none" /\ ~pod[s].fin
    /\ Pod(s, [pod[s] EXCEPT !.fin = TRUE]) /\ UNCHANGED budgetVars

\* The pod goes when it does not run or its sidecar says that it may.
StopPod(s) ==
    /\ life[s] = "terminating"
    /\ pod[s].state = "pending" \/ (pod[s].state = "running" /\ pod[s].allowed)
    /\ WritePod(s, NoPod)
    /\ life' = [life EXCEPT ![s] = "released"]
    /\ UNCHANGED <<uid, handlerVars, budgetVars, hit>>

EvictPod(s) ==
    /\ pod[s].state # "none" /\ ~pod[s].fin
    /\ Fault /\ UNCHANGED restarts
    /\ Pod(s, NoPod)

SidecarRestarts(s) ==
    /\ pod[s].allowed
    /\ Fault /\ restarts' = restarts + 1
    /\ pod' = [pod EXCEPT ![s].allowed = FALSE]
    /\ UNCHANGED <<life, uid, handlerVars, hit>>

Operator ==
    \/ \E o \in Objects : CreateOwned(o) \/ DeleteOwned(o) \/ Finalise(o)
    \/ \E s \in Servers : StartPod(s) \/ AddPodFinalizer(s) \/ StopPod(s)

-----------------------------------------------------------------------------

Init ==
    /\ life = [o \in Objects |-> "none"] /\ uid = [o \in Objects |-> 0]
    /\ pod = [s \in Servers |-> NoPod]
    /\ at = [h \in Handlers |-> "idle"] /\ req = [h \in Handlers |-> NoRequest]
    /\ loc = [h \in Handlers |-> NoLocals]
    /\ faults = 0 /\ restarts = 0 /\ hit = {} /\ promised = {}

Next ==
    \/ \E h \in Handlers : Arrive(h) \/ Handle(h) \/ CallFails(h)
    \/ Crash
    \/ \E o \in Objects : Apply(o)
    \/ Operator
    \/ \E s \in Servers : PodRuns(s) \/ EvictPod(s) \/ SidecarRestarts(s)

Spec == Init /\ [][Next]_vars

\* Handlers run, and the operator gives up a pod that it may give up and then
\* lets its server go (DeletionCompletes).
Fairness ==
    /\ \A h \in Handlers : WF_vars(Handle(h))
    /\ \A s \in Servers : WF_vars(StopPod(s))
    /\ \A s \in Servers : WF_vars(life[s] = "released" /\ Finalise(s))

FairSpec == Spec /\ Fairness

-----------------------------------------------------------------------------
(* Properties *)

TypeOK ==
    /\ life \in [Objects -> Lives]
    /\ \A o \in Objects : uid[o] \in 0..MaxUid[o]
    /\ pod \in [Servers -> Pods]
    /\ at \in [Handlers -> Calls \cup {"idle", "done"}]
    /\ req \in [Handlers -> Requests \cup {NoRequest}]
    /\ \A h \in Handlers : loc[h].rounds \in Nat /\ loc[h].pod \in Pods
    /\ faults \in 0..MaxFaults /\ restarts \in 0..MaxFaults
    /\ hit \subseteq Objects \X Nat
    /\ \A p \in promised : p[2] \in Servers /\ p[3] \in Nat

\* The service allows the deletion of a pod (sendDeleteAllowed) only after a
\* forced DELETE of its server was accepted: of this server, or of an earlier
\* one of the same name, because the pod is looked up by name after the Delete.
OnlyDoomedPodsAreTold ==
    \A s \in Servers : pod[s].allowed =>
        \E n \in 1..uid[s] : <<s, n>> \in hit /\ (n = uid[s] => life[s] \in Doomed)

\* A label request that is answered without an error did to the pod exactly
\* what it says, on the labels in force at that moment: concurrent requests
\* and the operator's finalizer are not undone by AddPodLabels and
\* RemovePodLabel, which write back the whole pod they read.
LabelWritesAreIsolated ==
    [][\A h \in Handlers : at[h] = "update" /\ at'[h] = "done" =>
          LET s == loc[h].object IN
          pod'[s] # pod[s] =>
             pod'[s] = [pod[s] EXCEPT !.labels[req[h].key] = req[h].value, !.rv = @ + 1]]_vars

\* A forced DELETE /server for a pod that runs, answered without an error, gets
\* rid of the server without its timeout: sendDeleteAllowed has reached the
\* sidecar, unless that restarts and forgets, or the pod is evicted first,
\* which leaves handleDeletion without a pod to find (EveryDeletionCompletes).
ForcedServerGoes ==
    \A s \in Servers :
        <<"server", s, pod[s].born>> \in promised ~>
            \/ ~Exists(s) \/ restarts > 0
            \/ life[s] = "terminating" /\ pod[s].state = "none"

-----------------------------------------------------------------------------
(* What the comments of the code say and the code does not do *)

\* kube/fleet.go: forceDeleteFleet is "used to find all the servers related
\* to a fleet and send them a deleteallow request": after a forced
\* DELETE /fleet without an error every server of the fleet that ran when the
\* request came has been told, or its pod is gone.
ForcedFleetTellsServers ==
    \A s \in Servers :
        <<"fleet", s, pod[s].born>> \in promised => pod[s].allowed

=============================================================================
