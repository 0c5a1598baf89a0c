# A TLA+ model of the game server operator

The repository holds a Kubernetes operator for game servers (`src/operator`),
the sidecar that runs next to each game process (`src/sidecar`), an HTTP service
in front of the cluster (`src/service`) and an example of a scaling webhook
(`src/example`). This directory models the operator's four controllers and its
admission webhooks, the sidecar and the service, checks them with TLC on small
instances and proves every safety property among those checks with TLAPS for
every instance.

## 1. The system

| part | state it keeps | operations | talks to |
|---|---|---|---|
| Server controller (`server_controller.go`, `utils/pod.go`, `utils/server_communication.go`, `utils/sidecar_requests.go`) | none of its own; the Server's finalizer and labels, the Pod and its finalizer | `Reconcile`: add finalizer, create pod, protect pod, ask the sidecar, release and delete the pod, release the server | API server through informer caches, sidecar over HTTP |
| Sidecar | two booleans in memory, lost on a restart | `POST/GET /allow_delete`, `POST/GET /shutdown` | operator, game process, service |
| Fleet controller (`fleet_controller.go`, `utils/server.go`) | the Fleet's finalizer and `Status.CurrentReplicas` | `Reconcile`: add finalizer, count, create or delete servers, write status; deletion of all servers | API server, server controller through the Server objects |
| Choice of the server to delete (`utils/fleet_deletion.go`) | none | `FindDeleteServer` by age, optionally preferring servers whose sidecar allows it | pod cache, sidecars |
| GameType controller (`gametype_controller.go`, `utils/gametype.go`) | the GameType's finalizer, `Status.CurrentFleetName`, `CurrentFleetReplicas` | `Reconcile`: refresh status, create the first fleet, replace the fleet when the pod template changes, change its replicas, delete the oldest of several; deletion of all fleets | API server, fleet controller through the Fleet objects |
| GameAutoscaler controller (`gameautoscaler_controller.go`, `utils/autoscale_communication.go`) | none; a timer | `Reconcile`: read the GameType, ask the webhook, write the replicas | API server, the user's webhook |
| Admission webhooks (`api/v1alpha1/*_webhook.go`) | none | defaults and validation | API server |
| Service (`src/service`) | none; one goroutine per request | create and delete requests, forced deletion, pod labels | API server, sidecars |

The controllers share no memory. They meet in the API objects: a GameType owns
Fleets, a Fleet owns Servers, a Server owns one Pod; each level keeps a finalizer
on its object until the level below is gone. What is hard is the same everywhere:

* a controller reads an *informer cache*, which shows an older state, while its
  writes go to the API server. `Reconcile` is requeued at once, so that the next
  one usually runs before its own writes have come back;
* `Update` is refused if the object changed (optimistic concurrency), but
  `Create` and `Delete` by name are not guarded by anything the controller read;
* each `Reconcile` makes several calls, any of which can fail, take effect
  although its answer is lost, or be the last one before a crash;
* users, the kubelet, the garbage collector, the game and the other controllers
  act between any two calls.

The properties that make each part correct: a pod in use always has an owner
that waits for it; a pod is given up only with a reason; deletions finish and
leave nothing behind; a fleet reaches its size and an upgrade settles in one
matching fleet without ever taking the last one; a scaling write never undoes an
edit; what one level admits the next can carry out; the service tells only games
that are to go, and concurrent requests do not undo each other. The list of places where these could go wrong is `hazards` in
`PROJECT.json`.

## 2. Modules

| module | models |
|---|---|
| `Sidecar` | the two flags and the handlers that read and write them |
| `ServerLife` | abstract specification: the life of one server and its pod, without caches, finalizers and reconciliation |
| `ServerController` | the server controller with one Server, its Pod and its sidecar (instance of `Sidecar`); implements `ServerLife` |
| `ServerInvariant` | the inductive invariant of `ServerController` |
| `ServerControllerProofs` | its theorems: types, the invariant, ownership of pods, the refinement |
| `ServerReleaseProofs` | how pods are given up: a stronger invariant and two more theorems |
| `FleetSelection` | `FindDeleteServer` as the loops of the code, and the same result defined without loops |
| `FleetSelectionProofs` | the two agree, for every list |
| `FleetController` | the fleet controller with one Fleet and its servers, each seen through the lives of `ServerLife`; uses `FleetSelection` |
| `FleetControllerProofs` | the theorems about it, and their inductive invariant |
| `GameTypeController` | the GameType controller with one GameType and its fleets |
| `GameTypeControllerProofs` | the theorems about it, and their two inductive invariants |
| `GameAutoscaler` | the autoscaler with one GameType and the webhook |
| `GameAutoscalerProofs` | the theorems about it, and their inductive invariant |
| `Admission` | defaults, validation and CRD enums as operators on specs; used by `MCFleet`, `GameAutoscaler` and `Service` |
| `AdmissionProofs` | what `MCFleet` states of the pure operators, for every input |
| `Service` | the routes of the service, concurrent requests, against a cluster of game types, fleets, servers and pods |
| `ServiceProofs` | the theorems about it, and their inductive invariant |
| `MC...` | the instances for TLC; `MCFleet` and `MCAutoscaler` also state what the pure operators compute |

### How the code becomes actions

The four controllers are modelled in the same way.

* An *object* in the API server is a record: `ex` exists, `fin` has the
  operator's finalizer, `del` has a DeletionTimestamp, the spec and status fields
  the controller looks at, and `rv`, its resource version. A write that changes
  nothing creates no version; an object marked for deletion vanishes with its last
  finalizer (`Settle...`).
* The *cache* is a copy of the object (`cServer`, `known`, ...) and the *watch*
  the versions it has not been told of (`sWatch`, `fEvents`, ...). For a single
  object the watch may skip versions, as informers do; events of the servers of a
  fleet and the fleets of a game type come in order.
* The *worker* is a program counter `pc` that names the next API or HTTP call,
  and the Go locals. Each action is one call with everything the code does up to
  the next call; what the code computes without a call happens in the action that
  precedes it. `Return(again)` is the return of `Reconcile`; an error and
  `Requeue: true` both queue the key again. Controllers run one `Reconcile` per
  key at a time, which is controller-runtime's guarantee.
* `CallFails` is a call that fails, or that takes effect with its answer lost;
  `Crash` is a restart: locals and timers are lost, caches are listed anew, every
  key is queued. Failed deletions by name have the same effect as a call that
  succeeded and whose successor fails.
* Users, kubelet, game, garbage collector and the other controllers are actions
  of their own. `FleetController` sees a server as `none`, `live`, `terminating`
  or `gone`, the states of `ServerLife`, and knows which servers have a pod
  (`pods`); a server that has no finalizer yet goes at once when deleted. A
  terminating server is finalised only while it has a pod: one without is
  `Stuck`, as the run `server_stuck` shows. `GameTypeController` sees fleets in
  the same way, and the fleet controller's writes as `FleetReports` and
  `FleetFinalised`, which may never come. The game type of `GameAutoscaler` stays
  Terminating between its deletion and `GametypeGone`, and is polled and written
  meanwhile.

`Service` is the same idea without caches: the service reads the API server
directly. A handler is a program counter `at`, its request and its locals; each
route of `SetupRoutes` is an action that takes the next call of its handler
(`Create`, `Delete`, `ListFleets`, `ListServers`, `GetPod`, `PostAllowDelete`,
`UpdatePod`). Requests come in any order and overlap; `CallFails` is a failed
call, `Crash` loses every request under way. The rest of the cluster is what the
other modules establish: owners create and delete what they own, a pod that runs
goes only when its sidecar allows it, objects may be finalised when nothing is
left below them. Only of a server whose pod the operator itself has stopped
(`released`) is it promised; one whose pod was evicted first may stay. `Create`
may succeed or be refused for each kind of object: every create of the service
sends the plural name of a resource as `kind`, which an API server that checks it
refuses. The deletion timeout does not pass and no game allows its deletion
by itself, so that what `force` achieves can be seen. Names are used again after
an object is gone. `promised` and `hit` are history.

`Admission` has no state. A pod spec is the list of its images, a timeout a
number with 0 for nil; the sync interval of an autoscaler is a pointer that may be
nil (`time`) and a number that may be zero or negative. The `...Admitted` operators are the whole way of a create
request: CRD enum, defaulting webhook, validating webhook.

Some details the code makes easy to overlook, and which the models keep:

* `ensurePodExists` shares the server's label map with the pod, so that the
  `Update` after a failed `Create` changes the server (`labelled`);
* `handleDeletion` of the server controller reads the pod again before it deletes
  it, and fails when the pod is not in the cache, so that the finalizer is never
  removed for a server without a pod;
* `IsDeletionAllowed` asks the sidecar only when the cached pod is `Running`, and
  tells the game to shut down on every try;
* the fleet controller counts terminating servers, creates in a loop and deletes
  one server per `Reconcile`, chosen from a second list;
* `handleGametypeStatus` writes the status of the *fleet*, not of the game type;
  its only effect is a conflict if the fleet is not current;
* `updateReplicaCount` returns the error of a missing fleet before
  `handleUpdating` could create one;
* the autoscaler converts the webhook's `int` to `int32` and writes the whole
  GameType it read before the request;
* the service looks up the pod by name after it deleted the server, and posts to
  an address that is empty while the pod is pending;
* most handlers of the service write the error before the status, which is then
  200; the models go by the body.

## 3. Runs

`run` names refer to `PROJECT.json`. Times are for two workers.

| run | specification and bounds | shows |
|---|---|---|
| `server_safety` | one edit, one eviction; 5.0 million states, 2 min | `LivePodIsOwned`, `DeletionIsJustified`, `PodReleasedInOrder` |
| `server_progress` | fair, one fault; 2 min | `PodEventuallyProtected`, `DeletionCompletes`, the refinement `ImplementsServerLife` and the inductive invariant `ServerInv` |
| `server_stuck` | fair, nothing goes wrong | violation: `EveryDeletionCompletes` |
| `server_leak` | fair, nothing goes wrong | violation: `NoPodLeftBehind` |
| `fleet` | fair, 2 servers, replicas -1, 1 and 2, `PrioritizeAllowed`, one edit, one failure, crash, user's delete or lost pod; 0.57 million states, 2 min | `OnlyUnseenLeftBehind`, `NewServersAreOwned`, `FleetSettles`, `FleetDeletionCompletes`; on all small inputs `SelectionIsCorrect` and `AdmittedSpecsWork` |
| `fleet_overdelete` | 3 servers, one edit | violation: `ScaleDownKeepsReplicas` |
| `gametype` | fair, 2 fleets, two templates, two replica counts, one edit, one fault, user's delete, report of a fleet or tie of timestamps; 1.1 million states, 2.5 min | `UpgradeKeepsAFleet`, `OnlyUnseenLeftBehind`, `UpgradeSettles`, `GametypeDeletionCompletes` |
| `gametype_ties` | 2 fleets, one edit, one tie | violation: `UpgradeLeavesAFleet` |
| `gametype_lost_fleet` | fair, one user delete | violation: `FleetIsReplaced` |
| `autoscaler` | fair, int32 shrunk to -4..3, wishes 0, 2 and 5, two changes of mind, three edits, one fault; 0.48 million states, 1.5 min | `ScalesWhatItAskedAbout`, `WebhookIsPolled`, `ScalingSettles`; on all small specs `AdmittedAutoscalersPoll` |
| `service` | fair, a game type with a fleet, a fleet with the game type's name, a user's server whose name is used twice; two of ten requests, one fault; 0.4 million states, 1 min | `OnlyDoomedPodsAreTold`, `LabelWritesAreIsolated`, `ForcedServerGoes` |
| `service_force` | the same with a server in the fleet, one request | violation: `ForcedFleetTellsServers` |

**Why the bounds are enough to be interesting.** The caches may lag by any number
of versions in every run, so each stale read is reached without any fault. One
edit makes every conflict happen, one fault every loss between two calls. In the
server runs a pod can be created, evicted and created again. With two servers and
a list that shows none of them a fleet overshoots; replicas of -1 make it delete
everything and fail on the empty list; with two fleets the game type's upgrade
happens, and a stale list creates a fleet too many. Upgrade *after* a fleet too
many takes three; that instance (one replica count, no disturbance, 1.1 million
states) was checked once with `MaxFleets = 3` and holds too, and the proofs cover
any number for the safety properties. The budgets `MaxServers` and `MaxFleets`
stand for an API server that refuses a create (a quota); the code's error path is
taken then, and `FleetSettles` and `UpgradeSettles` say so. In the fleet and game
type runs failures, crashes, deletions by users, lost pods, reports of fleets and
ties share one budget (`MaxDisturbances`): each happens at every point, not two of
them. `server_progress` has no eviction, which would take it beyond any useful
time; `server_safety` has. Two requests to the service are enough
for every pair of handlers to interleave call by call; a third would only add a
bystander. Deadlock is not checked:
when every object is gone and every budget spent nothing is left to do.

**Where the conditions in the properties come from.** `DeletionIsJustified`
speaks of pods the controller had been told to be running: for others the code
does not ask. `DeletionCompletes` starts from a server that has a pod and ends
with the server gone; if an edit, an eviction or a fault came between, it may end
with the pod gone and the server left, because a server whose pod is already gone
is not finalised (`server_stuck`). The levels above inherit this:
`FleetSettles` and `FleetDeletionCompletes` except a fleet with a `Stuck` server,
which is counted, makes every choice under `PrioritizeAllowed` fail and keeps the
fleet from going; `UpgradeSettles`, `GametypeDeletionCompletes` and
`FleetIsReplaced` except a fleet that stays Terminating for ever.
`FleetSettles` also excepts negative replicas, which no number of servers meets.
The fleet run has `PrioritizeAllowed` on, where the sidecars' answers let any
listed server be chosen, so that servers created in the same second need no case
of their own. `ForcedServerGoes` speaks of pods that ran when the request came:
one that is pending has no address, and the POST goes to the service itself; and
it excepts a pod that is evicted before the operator has stopped it.
`UpgradeKeepsAFleet` and `UpgradeSettles` except the case that the youngest
fleets share a creation timestamp, in whole seconds (`gametype_ties`), and say
nothing once a user deleted a fleet by hand (`gametype_lost_fleet`).

**Fairness.** Weak fairness of the worker (controller-runtime's workers take every
queued key, with a bounded back-off after errors), of each watch (informers
reconnect and list again), of the timeout and the sync interval (clocks), and of
the step of the next level below, as far as that level's own run shows it: the
kubelet removes a pod that was told to go; a live server gets a pod
(`PodEventuallyProtected`); a terminating server that *has* a pod is finalised
(`DeletionCompletes`). Nothing is assumed of a terminating server without a pod,
nor of the finalisation of a fleet, which such a server can hold up: where a
property needs it, the property says so. In `Service`, weak fairness of
each handler (a goroutine runs), of stopping a pod whose sidecar allows it, and of
finalising the server whose pod was stopped that way. Nothing is
assumed of users, of the game, of pods starting, or of failures, which the
budgets end.

## 4. Proofs

`ServerControllerProofs` proves, for every value of `MaxEdits`, `MaxEvictions` and
`MaxFaults` (assumption `BoundsAssumption`: natural numbers):

* `TypeCorrect`: `Spec => []TypeOK`, which includes that no call is given a pod
  that no `Get` has found;
* `InvCorrect`: `Spec => []ServerInv`;
* `LivePodAlwaysOwned`: `Spec => []LivePodIsOwned`;
* `Refinement`: the controller implements `ServerLife`.

`LivePodIsOwned` is not inductive: the controller creates the pod for a copy of
the server that may be old, and takes the finalizer off on the word of old copies
too. `ServerInv` adds what makes that safe. Resource versions name states
(`ServerVersionsAreUnique`, `PodVersionsAreUnique`), so that a write which is not
refused starts from what is stored; caches only move forward
(`CachesMoveForward`); an object without finalizer does not survive its deletion
(`Settled`); any copy still about that shows the server protected and wanted means
that the stored server is protected (`OldCopiesAreProtected`), because only this
controller removes the finalizer, after it has seen the deletion, and by then
every older copy has been replaced; and the position in `Reconcile` says what the
local copy looked like (`WorkerKnows`). The proof has one step for each of the
thirty actions; the lemmas `ServerRead`, `ServerWrite`, `PodRead` and `PodWrite`
carry the two halves of the invariant over reads and writes. The refinement maps
`server` to `life` and the pod to `podUp`, and shows that each action is a step of
`ServerLife` or a stutter.

`GameAutoscalerProofs` proves, for every `Half` of at least 2, every set of
`Wishes` and every bound (`AutoscalerAssumption`):

* `TypeCorrect`: `Spec => []TypeOK`, so that the replicas stay an `int32`;
* `ScalingIsCurrent`: `Spec => ScalesWhatItAskedAbout`.

The invariant is `VersionsAreUnique`: every copy of the game type in the cache,
the watch and the locals is a former version, and one that has the current
version is the current state. A copy that `Update` is allowed to write is
therefore what is stored, and only the replicas change. `ReadKeepsVersions` and
`WriteKeepsVersions` carry it over the two kinds of steps.

It also proves what the pure operators say of an autoscaler's spec:
`EveryAdmittedAutoscalerPolls`, for any names and any interval, absent, zero and
negative ones included, and from it the
run's `AdmittedAutoscalersPoll`.

`ServerReleaseProofs` proves, under the same assumption as the first module:

* `DeletionIsJustifiedCorrect`: `Spec => []DeletionIsJustified`;
* `PodReleasedInOrderCorrect`: `Spec => PodReleasedInOrder`.

`handleDeletion` decides on a cached pod that may be older than the pod it gives
up, and whether that is harmless depends on the order in which the cache moves.
`ReleaseInv` extends `ServerInv` by: a copy that shows the server's deletion means
that it was requested (`DoomIsFinal`); of two versions of the pod the newer one is
of a later pod, or of the same one later in its life (`PodsMoveForward`); so what
the cache had shown running it cannot show pending again (`SeenUpStays`), and the
controller asks; and what a sidecar allows has once been allowed for this pod
(`AllowedIsRemembered`). The lemma `PodSteps` sums up what any of the thirty
actions may do to the pod and its copies.

`FleetControllerProofs` proves, for every number of servers, every set of replica
counts and all bounds (`FleetAssumption`):

* `TypeCorrect`: `Spec => []TypeOK`;
* `OnlyUnseenLeftBehindCorrect`: `Spec => []OnlyUnseenLeftBehind`;
* `NewServersAreOwnedCorrect`: `Spec => NewServersAreOwned`.

The invariant `FleetInv` has the parts of `ServerInv` that concern one object
behind a cache, and adds that servers exist only once the fleet was seen with its
finalizer (`ServersComeAfterFinalizer`) and that a server the cache shows to be
gone is gone (`GoneIsFinal`), so that a list that is empty leaves only what it has
never shown. `TypeOK` is not inductive by itself: that the count of missing
servers stays a natural number rests on `createServer` being reached only with
`need > 0`.

`GameTypeControllerProofs` proves, for every number of fleets, templates and
replica counts and all bounds (`GameTypeAssumption`):

* `TypeCorrect`: `Spec => []TypeOK`;
* `OnlyUnseenLeftBehindCorrect`: `Spec => []OnlyUnseenLeftBehind`;
* `UpgradeKeepsAFleetCorrect`: `Spec => UpgradeKeepsAFleet`.

The first two come from `GametypeInv`, which has the shape of `FleetInv`. The
third needs `UpgradeInv`: while the controller has not seen the game type's
deletion, and the youngest fleets do not share a timestamp, the *youngest* fleet
is live (`YoungestIsLive`). It is kept because `handleUpdating` deletes the oldest
of at least two listed fleets, which are born whatever else the list leaves out
(`KnownAreBorn`), in the order of their timestamps (`BornInOrder`), the last of
them being the only youngest unless there is a tie (`OneIsTheLast`); because a game
type once shown as doomed is not shown wanted again (`DoomIsFinal`); and because
all fleets are deleted only after that was seen (`DeletionWasSeen`). Timestamps
may be equal throughout, among older fleets without any effect; the exception is
in the property, not a hypothesis, and `gametype_ties` shows that it is needed.

`ServiceProofs` proves, for every finite set of objects, every set of requests,
any number of handlers and all bounds (`ServiceAssumption`):

* `TypeCorrect`: `Spec => []TypeOK`;
* `OnlyDoomedPodsAreToldCorrect`: `Spec => []OnlyDoomedPodsAreTold`;
* `LabelWritesAreIsolatedCorrect`: `Spec => LabelWritesAreIsolated`.

The assumption says of a request no more than its type does: the path is one that
`SetupRoutes` serves, the flag is a boolean, a label value is one of those the
model tells apart, and the name is not the one that stands for none. The objects
are finite because the loops over a list count its rounds. `ServiceInv` says that
a handler works on the one name of its request throughout
(`HandlersWorkOnOneName`), that who is about to tell a pod has had a `Delete` of
its server accepted (`TellsAfterDelete`), that pods belong to servers that exist,
and that a pod a handler read is, at the same version, the pod that is stored
(`PodVersionsAreUnique`).

`FleetSelectionProofs` proves `FindDeleteServerCorrect`: for every list of distinct
servers, of any length, all timestamps, all answers of the sidecars and every
priority, `ChoiceIsCorrect`. The loop is a recursive function over the rounds.
Induction is by least counterexample: `LeastExists` follows from the library's
`WFMin` and `NatLessThanWellFounded`, `UpTo` is induction up to a bound, stated for
a set. `RoundsUnfold` uses it to show that the recursive function satisfies its
equation, `LoopComputes` that after each round the two candidates are the best so
far (`LoopInv`), the first in the list among equals.

`AdmissionProofs` proves `EverySpecWorks` and `EveryUpdateWorks` for pods with any
number of containers, any images, timeouts and priorities, and derives from them
and from `FindDeleteServerCorrect` the two properties of operators that the
`fleet` run checks.

TLC checks `ServerInv` and the refinement as well (`server_progress`); the other
inductive invariants were checked on small instances before they were proved and
are not part of a run.

**Only checked by TLC:** the eight liveness properties (`PodEventuallyProtected`,
`DeletionCompletes`, `FleetSettles`, `FleetDeletionCompletes`, `UpgradeSettles`,
`GametypeDeletionCompletes`, `WebhookIsPolled`, `ScalingSettles`) and
`ForcedServerGoes`, which is one too: they need fairness and `ENABLED`, which are
out of the prover's reach. The violations are TLC's by nature. That the instances
are large enough matters for these alone; every invariant and every action
property of a passing run holds for all values of the constants.

## 5. Where the code and its documents disagree

The six violation runs, each the shortest story TLC finds:

* **A server deleted before it has a pod is never removed** (`server_stuck`,
  `server_controller.go:184`). `handleDeletion` returns the error of `Get`, for
  ever; the timeout is looked at only when there is a pod. The same happens when
  the pod is gone and removing the server's finalizer failed once.
* **A pod can stay Terminating for ever** (`server_leak`, line 199). If the cache
  does not show the pod's finalizer yet, the pod is deleted with the finalizer on;
  the server goes and nobody removes it.
* **Scaling down deletes too many servers** (`fleet_overdelete`,
  `fleet_controller.go:127`). Terminating servers are counted, so every
  `Reconcile` until the first one is gone deletes another.
* **A game type that lost its fleet gets no new one** (`gametype_lost_fleet`,
  `gametype_controller.go:119`).
* **Of two fleets of one second both are deleted** (`gametype_ties`,
  `gametype_controller.go:177`). A list that does not show the first fleet yet
  makes a second within milliseconds; timestamps are in whole seconds and a cached
  list has no order, so that each is the oldest to some `Reconcile`.
* **A forced deletion of a fleet forces nothing** (`service_force`,
  `kube/fleet.go:84`). It looks for the servers of the fleet among the fleets.

Others met while modelling, which the models contain and the properties are
worded around:

* a pod that runs but is still `Pending` in the cache is deleted without asking
  its sidecar, though `architecture.md:38` says it cannot be;
* a fleet creates the same missing servers twice from a stale list, and a game
  type a third fleet (`gametype.md:46` speaks of one or two);
* a fleet or game type is released although a server or fleet it has just created
  is not in the cache yet; `OnlyUnseenLeftBehind` says that these are the only
  ones;
* the old fleet of an upgrade is deleted as soon as the new one is listed, not
  "once the new fleet is running and stable" (`gametype.md:55`);
* a server deleted before it had a pod holds back everything above it: its fleet,
  and the game type of that fleet, stay Terminating for ever, and a fleet that
  prefers allowed servers stops shrinking;
* a replica count from the webhook beyond `int32` wraps around, perhaps to a
  negative number, which makes a fleet delete everything and then fail for ever;
* `DELETE /scaler` deletes the *server* with the autoscaler's name, because
  `kube/scaler.go:80` uses the resource of the servers; creating an autoscaler
  sends it to the servers under the kind `gameautoscalers` and is always refused,
  for the wrong kind or, where that passes, for want of containers;
* every create of the service sends a plural resource name as `kind`
  (`kube/server.go:105`, where it is `gametypes`, `fleet.go:104`, `game.go:84`,
  `scaler.go:91`), which only an API server that does not check it accepts;
* the service's forced deletion of a game type deletes, once for each of its
  fleets, the fleet with the *game type's* name;
* the CRD admits `oldest_first` and `smallest_first`, the fleet's webhook
  `oldest_first` and `newest_first`, the game type's webhook anything: a game type
  with `smallest_first` never gets a fleet, and `newest_first` is never admitted
  (`AdmittedSpecsWork` states exactly this exception);
* a fleet without containers is admitted although none of its servers is; an
  update of a game type is not validated at all;
* `service.md:77` shows a fleet's server spec under `server`, the code reads it
  from `spec`.

## 6. Left out, and the plan

Not modelled: reuse of a name after its object is gone in the controllers (the
service run has it); several game types whose names meet in one list
(`GetFleetsForType` does not restrict the namespace); requests to the service that cannot be decoded, which
change nothing; events and logs; warnings of the webhooks; the operator's
start-up; generated code and manifests; the example webhook, which stands for any
webhook.

The order of work was: `Sidecar`, `ServerLife`, `ServerController` with its
proofs, `FleetSelection`, `FleetController`, `GameTypeController`,
`GameAutoscaler`, then `Admission` and `Service`, then the proofs of section 4.
Next:

1. A composition of fleet and server controller that discharges the assumptions
   `ServerGetsPod` and `ServerFinalised`, and one of autoscaler and game type controller, which write
   the same object.
2. Proofs about the compositions, from the invariants of their parts.
