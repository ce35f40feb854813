# TLA+ verification of horizon-operator

The operator keeps one OpenStack dashboard per `Horizon` object: it reads the
object and what it refers to (secrets, certificates, Memcached, KeystoneAPI,
network attachments, a Topology), and writes RBAC objects, a ConfigMap, a
Secret, a Service and a Deployment.  Everything it decides, it decides on
copies that may be old, in passes that may be interrupted after any API call.
These modules say what it promises nevertheless, and check and prove it.

## 1. Inventory

| Part | Source | State | Operations |
|---|---|---|---|
| Horizon reconciler | `internal/controller/horizon_controller.go` | the object in memory, the object as read, what the pass has collected | `Reconcile`, `reconcileNormal` (15 stages), `reconcileInit`, `reconcileDelete`, the deferred patch |
| Watches and requests | same file, `SetupWithManager`, `findObjectsForSrc`, `findObjectForSrc` | work queue, informer caches | map an event to the keys of the Horizons it concerns |
| Deployment builder | `internal/horizon/deployment.go`, `volumes.go`, `funcs.go`, `const.go` | none (pure) | `Deployment`, `getVolumes`, `getVolumeMounts`, probes, ports |
| Horizon API type | `api/v1beta1/horizon_types.go`, `horizon.go` | spec and status of the object | `Propagate`, `ValidateTopology`, `HorizonEndpointChangedPredicate`, `GetHorizon`, `GetEndpoint` |
| Several objects in a namespace | same controller | the objects of fixed name, their owners | the same passes, over shared objects |
| Admission webhooks | `api/v1beta1/horizon_webhook.go`, `internal/webhook/v1beta1/` | defaults, set once at start | `Default`, `ValidateCreate`, `ValidateUpdate` |
| Pod start-up | `templates/horizon/` | what a pod copied when it started | kolla copies ConfigMap and Secret into the container |
| Manager process | `cmd/main.go` | flags, caches | start, leader election, probes |
| Generated code, manifests, tests | `zz_generated.deepcopy.go`, `config/`, `hack/`, `test/` | - | - |

How they interact.  Users, openstack-operator and other controllers write
objects through the API server (admission webhooks see Horizon objects first).
Informers copy the changes into the operator's caches, later and in order per
object, and the watches put keys into a work queue.  A single worker takes a
key, works on a copy of the cached object, calls the API server, and ends with
two merge patches (metadata, then status).  Its own writes come back through
the same informers and queue the object again: several hand-overs of the code
rely on that (a new object is only initialised by the first pass; a changed
input hash ends a pass; a changed endpoint is rendered by the next pass).

What is hard:

- **stale copies**: the Horizon object and everything the operator owns are read from
  caches (`mgr.GetClient()`, `main.go:252`), and so are they compared with; status fields (`Hash`, `APIEndpoint`, `LastAppliedTopology`) are the memory of
  the operator and may be those of the past; patches are differences to the
  copy, so what looks unchanged is not written;
- **interleaving**: inputs are read one after the other while they change;
- **wake-ups**: some paths return without a requeue and rely on a watch;
- **shared names**: Deployment, Service and Secret have fixed names, so two Horizon
  objects, or two lives of one name, meet in them;
- **pods that copy**: a pod copies configuration and key when it starts and keeps
  them; only a changed hash in the template replaces it;
- **replacement of the operator**: the next release has other defaults, and its
  webhooks judge what an earlier one, or none, has let in;
- **failures and crashes** between writes, with the effect of the failed call
  done or not;
- **finalizers**: of the Horizon on itself, of the Horizon on Topologies, each
  of which must come before what it guards and go after it.

What makes each part correct:

- reconciler: at rest the cluster is a function of current spec and inputs;
  Ready is never claimed while something is missing; work only under the
  finalizer; the Topology released before the object goes; the observed
  generation monotone; convergence; deletion completes;
- watches: every change that alters the result of a pass queues the object;
- Deployment builder: every volume mounted exists; what a pod consumes is in
  the hash that restarts it; optional parts only when asked for;
- API type and webhooks: an image changes only by its owner's edit; what the
  webhooks have let in, they also let the operator finish and delete;
- several objects: Ready means that the shared objects are one's own and current;
  the one that is left takes over; a consumer learns of every change of endpoint;
- pods: configuration and key a pod runs with are the ones its template names.

## 2. Modules

```
HorizonService                     what is promised
      ^ implemented by
HorizonReconcile                   one object, call by call
      ^ extended by
HorizonPods                        with the pods of its Deployment

HorizonDeployment                  what a Deployment and a Service look like
      ^ extended by
HorizonNamespace                   several objects, webhooks, manager, consumer
```

| Module | Level |
|---|---|
| `HorizonService` | abstract specification: guard, build, publish, release |
| `HorizonReconcile` | detailed: each API call of a pass is a step; stale caches, failures, crashes |
| `HorizonPods` | composition of the reconcile loop with pods that copy when they start |
| `HorizonDeployment` | pure operators: names, volumes, mounts, ports, extra mounts, pod template |
| `HorizonNamespace` | several objects and lives; a pass is one step and reads what is there |
| `MCHorizonReconcile`, `MCHorizonPods`, `MCHorizonNamespace` | instances for TLC |
| `HorizonReconcileProofs` | theorems about types, finalizer and generations; what each stage changes |
| `HorizonPassProofs` | no theorems: what a pass has found, and that it still holds (lemmas) |
| `HorizonQuietProofs` | theorems about the reconcile loop at rest |
| `HorizonServiceProofs`, `HorizonPodsProofs`, `HorizonDeploymentProofs`, `HorizonNamespaceProofs` | theorems about the module of that name |

`HorizonReconcile` and `HorizonNamespace` look at the same code from two sides.
The first follows one object through every call of a pass and every stale copy;
what it finds about a single pass (it may be interrupted, it works on old copies,
it is woken again) is what lets the second take a pass as one step.  The second
adds what cannot happen to one object alone.

What an operator named *Mutant* in a module is: a change to the definition after it
that a plausible bug would make.  `PROJECT.json` pairs each property with one, under
which TLC finds the property violated.  None of them is used by a specification.

The proof modules build on each other: `HorizonPassProofs` extends
`HorizonReconcileProofs`, `HorizonQuietProofs` extends that, and `HorizonPodsProofs` uses
`HorizonQuietProofs` and `HorizonServiceProofs`; `HorizonNamespaceProofs` extends
`HorizonDeploymentProofs`.

What would come next: `HorizonNamespace` with passes of several steps, so that it
could be shown to implement `HorizonService` for each of its objects.

## 3. How the modules correspond to the code

### 3.1 HorizonReconcile

#### State

| Variable | Stands for |
|---|---|
| `cr` | the Horizon object: life, generation, spec, finalizer, status |
| `inputs` | OpenStack secret, CA bundle, certificate, KeystoneAPI, Memcached, network attachment, optional keystone services, as the operator's reads return them |
| `topologies`, `protected` | the content of the Topology objects; those with this Horizon's finalizer |
| `rbac`, `configMap`, `secretKey`, `service`, `deployment` | what the operator owns; `keysMade` numbers the random keys |
| `seen` | the cached Horizon |
| `shown`, `news` | the cached copies of the owned objects; the kinds of them with an undelivered change |
| `queued`, `timer` | the key in the queue; a `RequeueAfter` or back-off pending |
| `pc`, `before`, `instance`, `pass` | the worker: stage, `helper.beforeObject`, the object in memory, hashes and results collected |
| `left` | how many steps of each kind the environment may still take |

#### Actions

| Action | Code (horizon_controller.go) |
|---|---|
| `GetNotFound`, `Get` | `Reconcile` 136-229: read, `Conditions.Init`, observed generation, finalizer, choice of the branch |
| `ReconcileDelete` | `reconcileDelete` 485-504 |
| `ReconcileRbac` | `configureHorizonRbac` 1221-1231 |
| `CheckSecret`, `CheckMemcached`, `CheckCA`, `CheckCert` | `reconcileNormal` 660-809 |
| `GenerateConfigMaps`, `EnsureHorizonSecret`, `CheckHash` | 811-852, 1058-1219 |
| `CheckKeystoneServices`, `ReconcileInit`, `EnsureNAD` | 856-900, 506-623, 1233-1282 |
| `ReleaseTopology`, `AcquireTopology` | 914-948, `topologyv1.EnsureServiceTopology` in two calls |
| `CreateOrPatchDeployment`, `VerifyAndFinish` | 950-1055 |
| `PatchMetadata`, `PatchStatus` | the deferred function 171-189, `helper.PatchInstance` |
| `TimerFires`, `DeliverHorizon`, `DeliverOwned` | controller-runtime, with the watches of 391-417 |
| `RollOut`, `PodFails`, `CollectGarbage` | Deployment controller, kubelet, garbage collector |
| `EditSpec`, `DeleteHorizon`, `ChangeInput`, `ChangeTopology`, `LoseOwned` | users and other controllers |
| `Crash` | the operator dies; caches are refilled and every key is queued |

A stage that calls the API server has a disjunct under `Works` and one under
`Fails`; where the call writes, a failure leaves it open whether the write was
done.  `reconcileUpdate` and `reconcileUpgrade` do nothing in the code and have
no action.

#### Abstractions

- Contents are versions; a rendered file is the record of what it was rendered
  from, a hash the record of what was hashed, so hashes are equal exactly when
  their inputs are (no collisions).
- Caches show the latest state when they are updated, not each state in between:
  a reader cannot tell, because the worker reads the cache at most once per pass,
  and a notification is kept even if the object has changed back (`news`).
  The cached Horizon needs no such flag, its generation or status differ.
- Every owned kind has a cached copy, and the code decides on it: what the copy shows
  as wanted is not written (`GenerateConfigMaps`, `EnsureHorizonSecret`,
  `ReconcileRbac`, `ReconcileInit`), what it does not show is created, anything
  else is patched with what differs from it.  `Lagging` names the kinds whose copy
  may be out of date; the other copies follow at once (`OwnedEvents`).  Every run has
  one to three such kinds (below), since each multiplies the states; the theorems hold
  for any.
- `Refused`: to create what exists (AlreadyExists) and to patch what does not
  (NotFound) fails without effect.
- A patch leaves out what the copy already shows, by file for the ConfigMap, by field
  for the Deployment.  The Service the code asks for is complete, so a copy that
  equals it sends nothing.  The containers of a stored Deployment carry the
  server's defaults, which `deployment.go` does not set: they differ from the wanted
  ones and are always sent, with the volumes they mount, which change with the same
  options.  Replicas, network annotation and topology constraints are sent when they
  differ from the copy.
- A Secret without a key in it (`validateHorizonSecret`) counts as absent.
- A Topology has a content, which can be edited; one that is being deleted stays under
  the finalizer and counts as still there.
- A network attachment is absent, usable, or one from which no annotation can be made
  (`malformed`): only the last is an error to the caller of `ensureNAD`.
- Input objects have no separate cached copy: their change and its delivery to
  the operator are one step (`ChangeInput`), which can happen between any two
  steps of a pass.  They are not written by the operator, so a lag before that
  step is not observable to it.
- ServiceAccount, Role and RoleBinding are one object and one condition.
- Specs are well-formed (an endpoint override parses, secrets have the keys they
  need).
- Library calls (`helper.PatchInstance`, `CreateOrPatch`, `EnsureServiceTopology`,
  `VerifyNetworkStatusFromAnnotation`) are modelled from how the controller uses
  them.  A patch of a Horizon that is gone changes nothing and is no failure.
- One incarnation of one Horizon object; several are in `HorizonNamespace`.
- `Conditions.Init` of lib-common is not part of the repository.  Whether it
  keeps conditions it is not given is the constant `InitKeepsUnlisted`: `inputs`
  runs with TRUE, the others with FALSE.  With TRUE, a reference removed after a
  missing Topology was reported would leave that condition, and Ready, False for
  good; this is listed as a hazard and not counted as a finding.

### 3.2 HorizonService

Six variables, read off `HorizonReconcile` by the refinement mapping `Service`:

| Variable | Mapped to |
|---|---|
| `life`, `generation`, `guarded` | `cr.life`, `cr.generation`, `cr.finalizer` |
| `observed`, `ready` | published observed generation, published `Ready` is True |
| `built` | `Owned`: RBAC, ConfigMap, key, Service or Deployment exists |

Its actions say when each may change.  `Guard` precedes `Build`; `Publish` raises
`observed` at most to the generation, and a new Ready needs the guard; `Release`
needs a deletion; nothing but `Vanish` happens once the object is gone.  A pass that
works on a copy of the past may read an object that is gone, but the step that
would build or publish for it has no counterpart, so it must not exist:
`ImplementsService` is false as soon as it does.

### 3.3 HorizonPods

`pods` maps each replica to the template it was made from and the configuration
and key it copied; `contents` is the history of the ConfigMap.  `StartPod` is the
kubelet with kolla's `COPY_ALWAYS` (`templates/horizon/config/horizon.json`): it
needs ConfigMap and Secret, and reads what they hold then.  `RollOutPods` is
`RollOut` of `HorizonReconcile` with a guard: a roll-out is complete when every replica
runs the template.  Every other step of the reconcile loop leaves pods alone.
Simplified: a pod starts in one step; outdated and surplus pods disappear in one.

### 3.4 HorizonDeployment

`getVolumes`, `getVolumeMounts`, the log volume and its mount, `formatTLSOptions`, the
Memcached client certificate, `Propagate` with `ValidateThemeExtraMountPath`, the
ports and schemes of container, probes, Service and endpoint, and the pod template.
An endpoint override is published with the scheme it brings, whatever the pods speak
(`EndpointScheme`, and `APIEndpoint` in `HorizonReconcile`).  A name the code concatenates is the pair of its parts, so
`horizon-scripts` and `<name>-scripts` are compared as what they are made from.
Assumed (`ExtraAssumptions`): users do not name a volume as the operator does, mount
only what they name, and give each volume a source a pod can have.  What becomes of
another is not modelled: `volumes.go` 59-62 ignores the error of the conversion, and
whether the source is then empty is up to lib-common.

### 3.5 HorizonNamespace

| Variable | Stands for |
|---|---|
| `objects`, `created` | the Horizon objects by name; the name each UID was created with |
| `made` | what exists of the objects made for them, each with owner, content and, of the Deployment, whether its pods run |
| `secrets` | version of each secret a spec may name |
| `manager` | does the operator run, and with which default image |
| `queue`, `backoff` | work queue, names waiting to be tried again |
| `view`, `woken`, `answer` | another operator: its cache, an event not handled, the endpoint it found |
| `wanted`, `left` | what users may still ask for, budgets |

| Action | Code |
|---|---|
| `PassNotFound`, `PassFinalizer`, `PassDelete`, `PassRefused` | `Reconcile` 136-229, `reconcileDelete`; the patch of the finalizer, and its refusal by the webhook |
| `PassWaits`, `PassHash`, `PassDeploys` | `reconcileNormal`: ends at a missing secret, at a changed hash, or after the Deployment |
| `Apply`, `MayOwn`, `MakeKey` | `CreateOrPatch` with `SetControllerReference`: an object with another controller is refused, one of an earlier UID of the same name taken over; the key is made only where none is there |
| `Default`, `AdmitsCreate`, `AdmitsUpdate` | `horizon_webhook.go`; unavailable while the operator is down |
| `Create`, `Edit`, `Delete`, `ChangeSecret`, `LoseMade`, `PodsFail` | users, other controllers |
| `CollectGarbage` | removes what a UID that is gone owns, wakes by name |
| `Retry`, `Stop`, `Start` | controller-runtime; `cmd/main.go` |
| `Deliver`, `ConsumerReads` | `HorizonEndpointChangedPredicate`; `GetHorizon`, `GetEndpoint` |

`Stored` is an object that was admitted while the webhooks were switched off
(`ENABLE_WEBHOOKS=false`) and may refer to a Topology of another namespace.

A pass is one step because the manager has a single worker for all objects; what
else may change during a pass is the subject of `HorizonReconcile`.  Left out, since
all objects fare alike with them: Role and RoleBinding, KeystoneAPI, Memcached,
networks, the release of Topologies, the dependency of the configuration on the
published endpoint, the two passes that a new key costs.

## 4. Runs

| Run | Question | Properties |
|---|---|---|
| `inputs` | any one input appears, changes or vanishes; or an owned object is lost and a pod fails; at any point, with late copies of the RBAC objects, Secret and Service | `TypeOK`, `QuietIsCurrent`, `QuietIsHonest` |
| `changes` | an edit while a Topology comes, changes or goes; a failed call while everything optional is brought up, during a deletion, or with a crash | `QuietIsCurrent`, `FinalizerGuardsWork`, `ObservedMonotone`, `ReleaseBeforeRemoval`, `ImplementsService` |
| `liveness` | an input comes or goes, or the object is deleted, with a crash | `Converges`, `NothingRemains` |
| `pods` | an edit, a scaling or a lost object while a pod fails, or two edits, with a late copy of the ConfigMap | `PodTypeOK`, `PodsRunTheConfiguration`, `RollsOutWhatIsRendered` |
| `namespace` | two objects or two lives of a name, lost objects, secrets, edits, restarts, a consumer, an object the webhooks have not seen | `TypeOK`, `ReadyIsCurrent`, `UsualPodsCanStart`, `ConsumerIsCurrent`, `ImageIsAskedFor`, `DeletionsComplete`, `TakesOver` |
| `v_status` | does a status patch persist what the pass found? | `StatusPersisted`: violated |
| `v_endpoint` | does Ready vouch for the rendered endpoint? | `ReadyMatchesEndpoint`: violated |
| `v_deployment` | does Ready vouch for the Deployment? | `ReadyMatchesSpec`: violated |
| `v_networks` | does a missing network hold the Deployment back? | `WaitsForNetworks`: violated |
| `v_topology` | is only the referenced Topology held at rest? | `OnlyReferencedHeld`: violated |
| `v_key` | do all pods share the SECRET_KEY? | `PodsShareTheKey`: violated |
| `v_scripts` | do pods of any object find its scripts? | `PodsCanStart`: violated |

`QuietIsCurrent` is the central one: whenever nothing is queued, delayed,
undelivered or rolling out, and the inputs exist, every object in the cluster
is derived from the current spec and the current inputs, and Ready is True.  It
fails as soon as one change, at one point of one pass, wakes nobody.  "The inputs
exist" is two conditions.  `InputsNeeded` is what no pass ends well without, and
`QuietIsHonest` promises that Ready is not claimed without it.  `InputsPresent`, the
hypothesis of `QuietIsCurrent`, also excludes a malformed network attachment: that
one stops a pass, unless its read fails, which is ignored.  Both ask for the
network attachment only of an object that wants replicas: with none,
`reconcileNormal` does not verify networks, so Ready says nothing of them, and a
Deployment without pods may lack the annotation (`AttachesNetworks`).  Both
properties are false without this exception.

`RollsOutWhatIsRendered` says what the hash in the template is worth.  It need not name
what the ConfigMap holds: a configuration that was left and comes back while the
cached ConfigMap still shows it is not written again (`EnsureConfigMaps`, line 1146),
and its hash is rolled out over the one in between; or somebody has just removed the
ConfigMap.  But then the event that makes another pass is queued or still to be
delivered.  The third start of `pods`, two edits, reaches this.
`UsualPodsCanStart` leaves out what users bring along with their extra volumes
(`UserSources`): the operator neither makes it nor looks for it.
`ReadyIsCurrent` is its counterpart for several objects: Ready, with nothing on its
way, means to own the shared Service and Deployment, and that they are current.
`TakesOver` says what becomes of two objects that block each other: when one is
left, it owns everything and is Ready.  It holds without anybody being told of
the other's deletion, by the retries of the failed pass.

Bounds.

- `HorizonReconcile`: versions 0..2 in `inputs` (absent, one content, another), 0..1
  elsewhere; at most one replica, two Topologies.  One start of `inputs` asks for
  networks and for no replicas, the case in which `reconcileNormal` skips the
  verification of networks.  Late copies (`Lagging`): RBAC objects, Secret and Service in
  `inputs`, which loses owned objects; the Deployment in `changes`, `liveness` and the
  `v_` runs; the ConfigMap in `pods`.  Each start allows one or two environment
  steps, each at any point of any pass.  A missed wake-up or a stale write needs one
  change at the wrong moment, a switch of references two; one fault exposes every
  unfinished sequence of writes.  An edit and a fault in the same behaviour are not
  combined: that instance takes too long to be run regularly.
- `HorizonPods`: two replicas in `v_key`, since pods can only disagree if there are
  two; one in `pods`, where each is compared with the ConfigMap.
- `HorizonNamespace`: two names, one of them `ServiceName`; two creations, so two
  objects next to each other or two lives of one name; two secrets, two releases.
  The budgets of a start combine the steps that can meet: loss with two objects,
  restart with two lives, edit with restart, secret with two objects, and an object
  whose pods mount a secret its user names.  Objects
  that bear the Horizon object's name are collected together (`Garbage`).
- The counters `generation`, `keysMade` and `created` are bounded by the budgets, not
  by guards.  Deadlock is not checked, since a settled system with spent budgets
  rests.

Fairness, used by `liveness` and `namespace`: weak fairness of

- the worker: of its next step in `HorizonReconcile`, of each name's pass in
  `HorizonNamespace`, where a queued name stays queued until its pass, and
  controller-runtime's queue is served in order;
- timers and back-off (`TimerFires`, `Retry`) and informers (`DeliverHorizon`,
  `DeliverOwned(k)` for every owned kind `k`): controller-runtime delivers each eventually;
- `RollOut`, `CollectGarbage`: controllers of the cluster;
- `Start`: the operator's own Deployment starts it again.

Nothing is assumed of users, failures, crashes or the consumer; the bounded budget
of failures is what "eventually no more failures" means.

## 5. What the violated runs show

- `v_status`: the status patch is the difference to the object as read.  If that
  copy was stale and carried the same conditions the pass ends with, nothing is
  patched and conditions of an older pass stay, until the next pass.
- `v_endpoint`: the configuration is rendered from `Status.Endpoint` as the
  pass found it; after an edit of the override, one pass publishes Ready for the
  new generation with the old endpoint.  The wake-up by its own status patch
  repairs it (`QuietIsCurrent` holds).
- `v_deployment`: `CreateOrPatch` computes its patch on the cached Deployment.  If
  `replicas` return to what a stale copy shows, the patch leaves them out.  The server
  answers with the Deployment in between, which is rolled out and observed, so Ready is
  published for the current generation; delivery of the change repairs it.
- `v_networks`: `ensureNAD` reports a missing network by a requeue without an
  error, which its caller drops: the Deployment is rolled out without networks.
- `v_topology`: the finalizer on a Topology is put there before it is recorded in
  the status, and the next pass may be started from a copy without the record:
  if the reference moves or the object is deleted then, the finalizer stays.
- `v_key`: the hash of a key is put into the environment only by the pass that makes
  the key, and that pass stops at the changed hash.  The next one leaves the key out
  and finds the hash changed back.  The Deployment never changes, pods keep the
  old key, and a pod that is replaced later has the new one.
- `v_scripts`: the scripts ConfigMap is named after the object, the volume after the
  service.  Only an object called `horizon` has pods that start.

`PodsRunTheConfiguration` has one exception, `CameBack`: if a configuration is left
and comes back before the Deployment is patched, a pod that started in between runs
the one in the middle under the hash of the first.

## 6. Proofs

All theorems are proved by TLAPS for every value of the constants that satisfies the
named assumptions: `ConstantAssumptions` and `NoneIsNothing` (reconcile loop and pods: any
Topologies, specs, versions, budgets, either reading of `Conditions.Init`; `None` is no
Topology, configuration or Deployment), `NameAssumptions`, `ExtraAssumptions`,
`NamespaceAssumptions` and `NoneIsNoObject` (names and images are not the unset value,
releases have images, `None` is no record).

| Module | Theorem | Statement |
|---|---|---|
| `HorizonReconcileProofs` | `TypeCorrectness` | `Spec => []TypeOK` |
| | `WorkIsGuarded` | `Spec => []FinalizerGuardsWork` |
| | `RemovalReleases` | `Spec => ReleaseBeforeRemoval` |
| | `ObservedGrows` | `Spec => ObservedMonotone` |
| `HorizonQuietProofs` | `QuietClusterIsCurrent` | at rest with all inputs there: `UpToDate` |
| | `QuietObjectIsReady` | `TopologyTold /\ Spec => []QuietIsCurrent` |
| | `QuietObjectIsHonest` | `Spec => []QuietIsHonest` |
| `HorizonServiceProofs` | `Refinement` | `Spec => ImplementsService` |
| | `NothingEscapes` | `NothingUnguarded` and `ReadyIsGuarded` of the service hold of the reconcile loop |
| | `NothingComesBack` | object gone and nothing owned: so it stays |
| `HorizonPodsProofs` | `PodsRefine` | `PodSpec => ImplementsService` |
| | `RolloutIsRendered` | `PodSpec => RollsOutWhatIsRendered` |
| | `PodTypes` | `PodSpec => []PodTypeOK` |
| | `PodsAreCurrent` | `PodSpec => []PodsRunTheConfiguration` |
| `HorizonDeploymentProofs` | `MountsHaveVolumes` | every mount of every container has its volume, for every spec |
| | `SourcesAreProvided` | what the pods of an object called `horizon` mount is made or checked by the pass |
| | `ScriptsAreOfServiceName` | of any other name the scripts are not |
| `HorizonNamespaceProofs` | `NamesAndOwners` | `Spec => []TypeOK` |
| | `ImageKept` | `Spec => ImageIsAskedFor` |
| | `ReadyMeansCurrent` | `Spec => []ReadyIsCurrent` |
| | `UsualPodsStart` | `Spec => []UsualPodsCanStart` |
| | `ConsumerKnows` | `Spec => []ConsumerIsCurrent` |
| | `NeverRefused` | of an admitted object no write of the operator is refused |

So each invariant and each action property that a passing run checks is also a
theorem, `QuietIsCurrent` under the hypothesis `TopologyTold`, which every run satisfies.

**The reconcile loop.**  `TypeOK` alone is not inductive: hashing and building the
template need the configuration that an earlier stage has rendered, which
`ConfigKnown` adds.  `FinalizerGuardsWork` is not inductive either: the branch taken
by a pass depends on the copy it was started with, not on the object.  `Guarded`
says what such a copy proves about today's object:

- `FinalizerStays`: a cached live object with the finalizer still has it;
  a deletion once seen is not undone;
- `PassGuarded`: the same for `before`; only a pass started for a deletion leaves
  the finalizer off, and stages run only on a live object with the finalizer;
- `ReleasedFirst`: a pass about to take the finalizer off has released the Topology
  it found recorded;
- `GenerationsInOrder`: published observed generation <= generation the pass
  started with <= generation in the cache <= generation of the object.

`StageLemma` shows that each of the 15 stages of `reconcileNormal` leaves the finalizer
and observed generation in memory, the object and its copies alone.

**The loop at rest.**  `QuietIsCurrent` speaks of a state in which nobody acts, but
what makes it true happened in a pass, at 15 different moments, each followed by
steps of others.  The argument is that of a cache with notifications:

- `Holds`: for every stage, what it has read or written is still so *as long as the
  key is not queued* (`SecretHolds` says that the hash of the secret in memory is that
  of the secret, `DeployHolds` that the Deployment has the template wanted, and so
  on).  Each stage establishes its part (`RbacFinds` .. `VerifyFinds`); whoever takes it
  away queues the key, by a watch, as an owned object, or as news of an owned object
  still to be delivered (`AroundPass`).
- `Stopped`: a pass that stopped early without an error has something to write, whose
  event brings the next pass; or a certificate is missing, and only its creation
  wakes the operator (`LacksTLS`).  This is where each early return of the code is
  checked for a wake-up.
- `Copied`, `FinalizerWritten`: a pass works on the cached object or the key is queued
  again; the finalizer is written before the status.
- `ClusterFits`: the copy of an owned object is current or news of it is due; a complete
  roll-out runs as many pods as asked for; finalizers are on Topologies that exist.
- `Resting`: the conclusion.  A pass that ends with nothing left to do and leaves the
  key alone has written nothing to the object (`EndsAtRest`); so the object it has read,
  hash, endpoint, Topology and conditions, says what it has found, and that still
  holds.  Nothing disturbs a rest without queueing the key (`AroundRest`).

`QuietClusterIsCurrent` needs no hypothesis.  That the object is also Ready needs
`TopologyTold`: `Conditions.Init` forgets conditions it is not given, or no spec
refers to a Topology.  Otherwise a Topology condition that was False when the
reference was removed stays, and with it Ready is not True for good; this is the
reading of `Conditions.Init` that section 3.1 leaves open.  `TopologyHonest` and
`TopologyUnused` are the invariants for the two halves of the hypothesis.

**The refinement** maps the initial state, and each step, to a step of the service or
to none.  Besides `Guarded` it needs `Vouching`: an object is deleted only behind
its finalizer, and a pass that was not started for work has not got Ready in memory.
`NothingEscapes` and `NothingComesBack` are then facts of the small service alone.

**Pods.**  `PodSpec` only restricts `Spec`, so everything carries over.
`RolloutIsRendered` follows from a part of `Holds`: at the stage that deploys, the ConfigMap
holds the configuration the pass has hashed, unless the key is queued or news of the
ConfigMap is due, and the Deployment is given that hash.
For `PodsAreCurrent`, `PodInv` says of the history `contents` that it ends with what the
ConfigMap holds (`Remembered`), that the cached ConfigMap, passes and
Deployment name only what is in it (`ShownHeld`, `PassHeld`, `DeploymentHeld`), and that a pod's configuration is in the history, no
earlier than the one its template names (`PodsFollow`).  At rest the template names the
last one, by `QuietClusterIsCurrent`; if that never was there before, there is nothing
after it for a pod to have.

**Several objects.**  `Inv` is types, `Sound(made)` (what is made is well-formed and has
an owner that was created) and `AllFilled` (an object that still needs its finalizer
went through a webhook and has an image; it is why later writes of the operator,
which are defaulted too, change none).  `ReadyIsCurrent` is inductive next to it:
every step that could make it wrong for an object also queues the object, stops
the manager, or belongs to a pass that publishes not Ready.  The proof has a case for
each: a pass of the object (`OwnPass`), a pass of another, which takes nothing from it
because `MayOwn` refuses (`OtherPass`), cluster, users, manager.

- `UsualPodsStart`: `UsualProvided` says that all a pass makes for the one name is there
  while the object rests, whether or not the Deployment has been made yet; an owner
  that goes takes its objects and wakes the name (`CollectGarbage`).
- `ConsumerKnows`: `Followed`, the answer is that of the consumer's cache unless it
  has been woken, is stronger than the property: events the predicate holds back
  change nothing the answer depends on.
- `NeverRefused`: `Admissible`, the spec of an object that went through the webhooks
  refers to no Topology of another namespace, and edits keep it so.

**Only model-checked**: liveness (`Converges`, `NothingRemains`, `DeletionsComplete`,
`TakesOver`), since fairness and ENABLED are outside what TLAPS proves here.  For three
of them the safety half is a theorem: a system that settles has settled right
(`QuietClusterIsCurrent`), what a deletion has removed does not come back
(`NothingComesBack`), and no refusal stands in the way of a deletion (`NeverRefused`).
The `v_` runs refute and have nothing to prove, except for `v_scripts`, of which
`ScriptsAreOfServiceName` is the general statement.

## 7. Not modelled

- The text of the templates and `DefaultConfigOverwrite`: contents are versions.
- Unpacking of themes (`kolla_theme_setup`): file operations in a container.
- Security context, resources, labels and annotations: copied into the template.
- How a running httpd reacts to a mounted secret that changes (Memcached's client
  certificate): not in the repository.
- The reaction of `Conditions.Init` to a Topology condition it is not given
  (`InitKeepsUnlisted`): not in the repository; both readings are run where no
  Topology is referenced.
- `cmd/main.go` beyond the worker, caches, webhooks and restarts: flags,
  certificates and probes have no state to check.
- Generated deep copies, manifests, build scripts, tests: no behaviour of the
  operator of their own.
