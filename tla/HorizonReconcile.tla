--------------------------- MODULE HorizonReconcile ---------------------------
(***************************************************************************)
(* The reconcile loop of the horizon-operator for one Horizon object:      *)
(* internal/controller/horizon_controller.go, with the parts of            *)
(* internal/horizon/deployment.go that decide what the Deployment carries. *)
(*                                                                         *)
(* One worker takes the object's key from a queue, reads the object from   *)
(* the informer cache, walks through the stages of reconcileNormal (or     *)
(* reconcileDelete) on an in-memory copy, and patches finalizers and       *)
(* status when it leaves.  Every call to the API server is a step of its   *)
(* own, so users, other controllers, the garbage collector, crashes and    *)
(* late cache updates interleave with the pass.                            *)
(*                                                                         *)
(* Abstractions.  A secret, a rendered file or an API endpoint is a        *)
(* version number or the record of what it was computed from, so equal     *)
(* hashes mean equal inputs.  Input objects (secrets, Memcached,           *)
(* KeystoneAPI, ...) are modelled as the operator's cache shows them; the  *)
(* Horizon object and what the operator owns, which it also writes, have   *)
(* cached copies that may lag, and what it sends is what differs from      *)
(* these copies.  ServiceAccount, Role and RoleBinding are one object and  *)
(* one condition.  Only one incarnation of the Horizon object is followed: *)
(* after it is gone its name is not reused.                                *)
(***************************************************************************)
EXTENDS Integers, FiniteSets

CONSTANTS
  None,               \* absent object, unset field
  Topologies,         \* names of Topology objects a spec may refer to
  MaxVersion,         \* contents of an input run over 1..MaxVersion, 0 = absent
  MaxReplicas,        \* bound on spec.replicas
  Specs,              \* Horizon specs a user may write
  Volatile,           \* the inputs that may change afterwards
  Lagging,            \* the owned kinds whose cached copy may be out of date
  InitKeepsUnlisted,  \* does Conditions.Init keep conditions it does not list?
  Starts              \* the situations an object may be created in, each with
                      \* a budget for every kind of environment step

Versions == 0 .. MaxVersion
CondStatus == {"True", "False", "Unknown", "Absent"}

HorizonSpecs == [secret: BOOLEAN, ca: BOOLEAN, tls: BOOLEAN, networks: BOOLEAN,
          topologyRef: Topologies \cup {None}, replicas: 0 .. MaxReplicas,
          config: Versions, url: Versions]

Inputs == [secret: Versions, ca: Versions, cert: Versions, keystone: Versions,
           memcached: Versions,      \* the servers of a ready Memcached, or 0
           nad: {"absent", "malformed", "ready"}, services: BOOLEAN]

InputNames == {"secret", "ca", "cert", "keystone", "memcached", "nad", "services"}
InputValues(f) == CASE f = "nad" -> {"absent", "malformed", "ready"}
                    [] f = "services" -> BOOLEAN
                    [] OTHER -> Versions

\* What SetupWithManager names in Owns(...); "Rbac" stands for the
\* ServiceAccount, the Role and the RoleBinding.
OwnedKinds == {"Rbac", "ConfigMap", "Secret", "Service", "Deployment"}

Kinds == {"edit", "delete", "input", "topology", "lose", "pod", "fault", "crash"}

ASSUME ConstantAssumptions ==
  /\ MaxVersion \in Nat
  /\ MaxReplicas \in Nat
  /\ Specs \subseteq HorizonSpecs
  /\ Volatile \subseteq InputNames
  /\ Lagging \subseteq OwnedKinds
  /\ InitKeepsUnlisted \in BOOLEAN
  /\ Starts \subseteq [spec: Specs, inputs: Inputs,
                        topologies: [Topologies -> Versions], limit: [Kinds -> Nat]]

-----------------------------------------------------------------------------
(* Data: conditions, status, rendered config, hashes, the Deployment.        *)

\* Conditions every pass (re)initialises, Reconcile's CreateList, plus Ready.
ListedConds == {"Ready", "Input", "Memcached", "ServiceConfig", "CreateService",
                "Deployment", "Rbac", "TLSInput"}
CondTypes == ListedConds \cup {"NetworkAttachments", "Topology"}

NoConds == [c \in CondTypes |-> "Absent"]

Endpoints == [url: Versions, https: BOOLEAN]

\* The files of the ConfigMap: httpd.conf with ssl.conf, local_settings.py and
\* the user's own settings.
Configs == [httpd: [tls: BOOLEAN, endpoint: Endpoints \cup {None}],
            settings: [endpoint: Endpoints \cup {None}, keystone: Versions,
                       memcached: Versions],
            custom: Versions]
Hashes == [secret: Versions, ca: Versions, cert: Versions,
           config: Configs, key: Nat]

Statuses == [conds: [CondTypes -> CondStatus], observed: Nat,
             hash: Hashes \cup {None}, endpoint: Endpoints \cup {None},
             topology: Topologies \cup {None}, readyCount: 0 .. MaxReplicas]

Horizons == [life: {"live", "deleting", "gone"}, generation: Nat, spec: HorizonSpecs,
             finalizer: BOOLEAN, status: Statuses]

Containers == [hash: Hashes, services: BOOLEAN, tls: BOOLEAN, ca: BOOLEAN]
Templates == [containers: Containers, networks: BOOLEAN,
              topology: Versions,              \* its constraints, 0 = the default ones
              replicas: 0 .. MaxReplicas]
Deployments == [template: Templates, rollout: {"unseen", "rolling", "complete"},
                up: 0 .. MaxReplicas]

OwnedObjects == [Rbac: BOOLEAN, ConfigMap: Configs \cup {None}, Secret: Nat,
                 Service: {"none", "http", "https"}, Deployment: Deployments \cup {None}]

\* How an owned object looks that does not exist.
Absent == [Rbac |-> FALSE, ConfigMap |-> None, Secret |-> 0, Service |-> "none",
           Deployment |-> None]

\* What is absent is neither a Topology nor a configuration nor a Deployment.
ASSUME NoneIsNothing ==
  None \notin Topologies /\ None \notin Configs /\ None \notin Deployments

NewStatus == [conds |-> NoConds, observed |-> 0, hash |-> None, endpoint |-> None,
              topology |-> None, readyCount |-> 0]

-----------------------------------------------------------------------------
VARIABLES
  \* API server
  cr,          \* the Horizon object
  inputs,      \* objects other controllers and users own, as the operator reads them
  topologies,  \* the content of every Topology object, 0 when there is none
  protected,   \* Topology objects that carry this Horizon's finalizer
  rbac,        \* do ServiceAccount, Role and RoleBinding exist?
  configMap,   \* what the config-data ConfigMap was rendered from
  secretKey,   \* the SECRET_KEY of Secret "horizon", 0 when absent or empty
  keysMade,    \* number of keys generated so far (keys are random: all differ)
  service,     \* is the Service exposed, and over https?
  deployment,  \* the Deployment
  \* informer caches and queue of the operator
  seen,        \* the Horizon object in the cache
  shown,       \* the owned objects in the caches
  news,        \* the owned kinds with events that are not delivered yet
  queued,      \* the key is in the work queue
  timer,       \* a delayed or rate-limited requeue is pending
  \* the worker
  pc,          \* the stage it is in
  before,      \* helper.beforeObject: the object as it was read
  instance,    \* the object in memory
  pass,        \* what the pass has collected so far
  \* bookkeeping
  left         \* what is left of each budget

workerVars == <<pc, before, instance, pass>>
ownedVars == <<rbac, configMap, secretKey, keysMade, service, deployment>>
topoVars == <<topologies, protected>>
queueVars == <<queued, timer>>
copies == <<shown, news>>
cacheVars == <<seen, copies>>
vars == <<cr, inputs, topoVars, ownedVars, cacheVars, queueVars, workerVars, left>>

NoPass == [secret |-> 0, memcached |-> 0, ca |-> 0, cert |-> 0, config |-> None,
           key |-> 0, services |-> FALSE, networks |-> FALSE, topology |-> 0,
           depl |-> None, result |-> "done"]
Passes == [secret: Versions, memcached: Versions, ca: Versions, cert: Versions,
           config: Configs \cup {None}, key: Nat, services: BOOLEAN,
           networks: BOOLEAN, topology: Versions, depl: Deployments \cup {None},
           result: {"done", "later", "error"}]

WorkStages == {"rbac", "secret", "memcached", "ca", "cert", "config", "key",
               "hash", "services", "init", "nad", "release", "acquire",
               "deploy", "verify"}
Stages == WorkStages \cup {"idle", "delete", "patch", "status"}

-----------------------------------------------------------------------------
(* Helpers of the handlers.                                                  *)

\* Mutant: conditions of optional features are forgotten altogether.
InitListedOnly(old) == [c \in ListedConds |-> "Unknown"]

\* Conditions.Init: listed conditions start the pass as Unknown.
InitConds(old) ==
  [c \in CondTypes |-> IF c \in ListedConds THEN "Unknown"
                       ELSE IF InitKeepsUnlisted THEN old[c] ELSE "Absent"]

SubConds(conds) == {c \in CondTypes \ {"Ready"} : conds[c] # "Absent"}

AllSubConditionIsTrue(conds) == \A c \in SubConds(conds) : conds[c] = "True"

\* Conditions.Mirror: the overall state the sub-conditions amount to.
Mirror(conds) ==
  IF \E c \in SubConds(conds) : conds[c] = "False" THEN "False"
  ELSE IF AllSubConditionIsTrue(conds) THEN "True" ELSE "Unknown"

Mark(i, c, s) == [i EXCEPT !.status.conds[c] = s]

\* The endpoint URL: the override, which brings its scheme, or the host of the
\* Service with the scheme of the pods.
APIEndpoint(spec) == [url |-> spec.url, https |-> spec.tls /\ spec.url = 0]

\* templateParameters and customData of generateServiceConfigMaps.
Render(i, p) ==
  [httpd    |-> [tls |-> i.spec.tls, endpoint |-> i.status.endpoint],
   settings |-> [endpoint |-> i.status.endpoint, keystone |-> inputs.keystone,
                 memcached |-> p.memcached],
   custom   |-> i.spec.config]

\* Mutant: custom settings are not hashed.
InputHashDefaults(p) ==
  [secret |-> p.secret, ca |-> p.ca, cert |-> p.cert,
   config |-> [p.config EXCEPT !.custom = 0], key |-> p.key]

\* createHashOfInputHashes: equal exactly when all input hashes are.
InputHash(p) ==
  [secret |-> p.secret, ca |-> p.ca, cert |-> p.cert,
   config |-> p.config, key |-> p.key]

\* horizon.Deployment: the CA bundle is mounted only next to a certificate.
DeploymentTemplate(i, p) ==
  [containers |-> [hash |-> InputHash(p), services |-> p.services,
                   tls |-> i.spec.tls, ca |-> i.spec.tls /\ i.spec.ca],
   networks |-> p.networks,
   topology |-> p.topology,
   replicas |-> i.spec.replicas]

\* deployment.IsReady: rolled out, and observed at its last generation.
IsReady(d) == d.rollout = "complete"

\* A merge patch carries only what differs from the copy it was computed on.
Patched(old, new, current) == IF new # old THEN new ELSE current

PatchedStatus(old, new, current) ==
  [conds      |-> Patched(old.conds, new.conds, current.conds),
   observed   |-> Patched(old.observed, new.observed, current.observed),
   hash       |-> Patched(old.hash, new.hash, current.hash),
   endpoint   |-> Patched(old.endpoint, new.endpoint, current.endpoint),
   topology   |-> Patched(old.topology, new.topology, current.topology),
   readyCount |-> Patched(old.readyCount, new.readyCount, current.readyCount)]

PatchedConfig(old, new, current) ==
  [httpd    |-> Patched(old.httpd, new.httpd, current.httpd),
   settings |-> Patched(old.settings, new.settings, current.settings),
   custom   |-> Patched(old.custom, new.custom, current.custom)]

\* The containers the server stores carry its defaults, so the list the
\* operator wants always differs from a cached one and is always sent.
PatchedTemplate(old, new, current) ==
  [containers |-> new.containers,
   networks   |-> Patched(old.networks, new.networks, current.networks),
   topology   |-> Patched(old.topology, new.topology, current.topology),
   replicas   |-> Patched(old.replicas, new.replicas, current.replicas)]

\* findObjectsForSrc, findObjectForSrc and the map functions of
\* SetupWithManager: which input objects concern the object in the cache.
Concerns(f, spec) ==
  CASE f = "secret" -> spec.secret
    [] f = "ca" -> spec.ca
    [] f = "cert" -> spec.tls
    [] f = "nad" -> spec.networks
    [] OTHER -> TRUE           \* keystone, memcached, services: every Horizon

Requests(f) == seen.life # "gone" /\ Concerns(f, seen.spec)

Spend(k) == left[k] > 0 /\ left' = [left EXCEPT ![k] = @ - 1]

Enqueue(b) == queued' = (queued \/ b) /\ UNCHANGED timer

\* What exists of the owned objects.
Made == [Rbac |-> rbac, ConfigMap |-> configMap, Secret |-> secretKey,
         Service |-> service, Deployment |-> deployment]

\* Whether an owned object exists is decided on its cached copy: a write is
\* refused that creates what exists or patches what does not.
Refused(k) == (shown[k] = Absent[k]) # (Made[k] = Absent[k])

\* A copy that may lag stays as it is; one that does not follows its object.
CopiesFollow ==
  /\ news' = news \cup {k \in Lagging : Made'[k] # Made[k]}
  /\ shown' = [k \in OwnedKinds |-> IF k \in Lagging THEN shown[k] ELSE Made'[k]]

\* Mutant: the operator does not watch what it owns.
OwnedEventsUnwatched == CopiesFollow /\ UNCHANGED queueVars

\* Owns(...): a change of an owned object, whoever made it, queues the owner
\* when the copy shows it.
OwnedEvents ==
  CopiesFollow /\ Enqueue(\E k \in OwnedKinds \ Lagging : Made'[k] # Made[k])

-----------------------------------------------------------------------------
(* Steps of a pass.                                                          *)

GoOn(stage, i, p) == pc' = stage /\ instance' = i /\ pass' = p

\* Mutant: a pass that fails says it has not observed the generation.
ReturnUnobserved(result, i) ==
  GoOn("patch", IF result = "error" THEN [i EXCEPT !.status.observed = 0] ELSE i,
       [pass EXCEPT !.result = result])

\* Return from the handler: the deferred function patches what i holds.
Return(result, i) ==
  GoOn("patch", i, [pass EXCEPT !.result = result])

\* What no stage between the read of the object and its patch changes.
Fixed == UNCHANGED <<cr, inputs, topologies, seen, before>>

\* A stage that writes nothing, or only Topologies.
Unowned == Fixed /\ UNCHANGED <<ownedVars, copies, queueVars>>
Reads == Unowned /\ UNCHANGED protected

Works == UNCHANGED left       \* the API server answers
Fails == Spend("fault")       \* it does not, or the answer is lost

\* Reconcile, lines 140-147: the object is gone from the cache.
GetNotFound ==
  /\ pc = "idle" /\ queued /\ seen.life = "gone"
  /\ queued' = FALSE
  /\ UNCHANGED <<cr, inputs, topoVars, ownedVars, cacheVars, timer, workerVars, left>>

\* Mutant: the finalizer is put on once there is something to guard.
AddsFinalizerWhenReady(h) ==
  h.life = "live" /\ ~h.finalizer /\ h.status.conds["Ready"] = "True"

\* An object without finalizer, unless it is being deleted, gets one.
AddsFinalizer(h) == h.life = "live" /\ ~h.finalizer

\* Mutant: work starts in the pass that adds the finalizer.
FirstStageAtOnce(h) == IF h.life = "deleting" THEN "delete" ELSE "rbac"

\* Mutant: an object that is being deleted is reconciled like any other.
FirstStageNoDelete(h) ==
  IF AddsFinalizer(h) \/ h.status.conds = NoConds THEN "patch" ELSE "rbac"

\* A new object, or one that just got its finalizer, is only initialised: its
\* patch wakes the next pass.
FirstStage(h) ==
  IF AddsFinalizer(h) \/ h.status.conds = NoConds THEN "patch"
  ELSE IF h.life = "deleting" THEN "delete" ELSE "rbac"

\* Reconcile up to the call of reconcileDelete or reconcileNormal.  The
\* Topology condition set at lines 217-220 goes to the list Init has already
\* consumed, so it reaches nobody.
Get ==
  /\ pc = "idle" /\ queued /\ seen.life # "gone"
  /\ queued' = FALSE
  /\ before' = seen
  /\ GoOn(FirstStage(seen),
          [seen EXCEPT !.status.conds = InitConds(@),
                       !.status.observed = seen.generation,
                       !.finalizer = @ \/ AddsFinalizer(seen)],
          NoPass)
  /\ UNCHANGED <<cr, inputs, topoVars, ownedVars, cacheVars, timer, left>>

\* Mutant: the finalizer goes even if the Topology could not be released.
ReconcileDeleteAnyway ==
  /\ pc = "delete"
  /\ \/ Works /\ protected' = protected \ {instance.status.topology}
     \/ Fails /\ instance.status.topology # None /\ UNCHANGED protected
  /\ Return("done", [instance EXCEPT !.finalizer = FALSE])
  /\ Unowned

\* reconcileDelete: release the Topology, then drop the finalizer.
ReconcileDelete ==
  /\ pc = "delete"
  /\ \/ /\ Works
        /\ protected' = protected \ {instance.status.topology}
        /\ Return("done", [instance EXCEPT !.finalizer = FALSE])
     \/ /\ Fails /\ instance.status.topology # None
        /\ protected' \in {protected, protected \ {instance.status.topology}}
        /\ Return("error", instance)
  /\ Unowned

\* configureHorizonRbac: what the cache shows is left as it is.
ReconcileRbac ==
  /\ pc = "rbac"
  /\ LET bad == Return("error", Mark(instance, "Rbac", "False"))
     IN \/ /\ Works /\ (shown.Rbac \/ ~Refused("Rbac"))
           /\ rbac' = (rbac \/ ~shown.Rbac)
           /\ GoOn("secret", Mark(instance, "Rbac", "True"), pass)
        \/ Works /\ ~shown.Rbac /\ Refused("Rbac") /\ UNCHANGED rbac /\ bad
        \/ Fails /\ rbac' \in {rbac, rbac \/ ~shown.Rbac} /\ bad
  /\ Fixed /\ UNCHANGED <<protected, configMap, secretKey, keysMade, service, deployment>>
  /\ OwnedEvents

\* The OpenStack secret: named, found, readable.
CheckSecret ==
  /\ pc = "secret"
  /\ \/ /\ Works /\ instance.spec.secret /\ inputs.secret # 0
        /\ GoOn("memcached", Mark(instance, "Input", "True"),
                [pass EXCEPT !.secret = inputs.secret])
     \/ /\ Works /\ instance.spec.secret /\ inputs.secret = 0
        /\ Return("later", Mark(instance, "Input", "False"))
     \/ /\ \/ Works /\ ~instance.spec.secret
           \/ Fails /\ instance.spec.secret
        /\ Return("error", Mark(instance, "Input", "False"))
  /\ Reads

CheckMemcached ==
  /\ pc = "memcached"
  /\ \/ /\ Works /\ inputs.memcached # 0
        /\ GoOn("ca", Mark(instance, "Memcached", "True"),
                [pass EXCEPT !.memcached = inputs.memcached])
     \/ /\ Works /\ inputs.memcached = 0
        /\ Return("later", Mark(instance, "Memcached", "False"))
     \/ Fails /\ Return("error", Mark(instance, "Memcached", "False"))
  /\ Reads

\* The CA bundle, when one is named.  A missing secret ends the pass without
\* a requeue: only its creation wakes the controller again.
CheckCA ==
  /\ pc = "ca"
  /\ \/ Works /\ ~instance.spec.ca /\ GoOn("cert", instance, pass)
     \/ /\ Works /\ instance.spec.ca /\ inputs.ca # 0
        /\ GoOn("cert", instance, [pass EXCEPT !.ca = inputs.ca])
     \/ /\ Works /\ instance.spec.ca /\ inputs.ca = 0
        /\ Return("done", Mark(instance, "TLSInput", "False"))
     \/ /\ Fails /\ instance.spec.ca
        /\ Return("error", Mark(instance, "TLSInput", "False"))
  /\ Reads

\* Mutant: a certificate that is missing is left out of the hash.
CheckCertTolerant ==
  /\ pc = "cert"
  /\ Works
  /\ GoOn("config", Mark(instance, "TLSInput", "True"),
          [pass EXCEPT !.cert = IF instance.spec.tls THEN inputs.cert ELSE 0])
  /\ Reads

\* The certificate, when TLS is enabled; missing, it is treated like the bundle.
CheckCert ==
  /\ pc = "cert"
  /\ LET ok == Mark(instance, "TLSInput", "True")
         bad == Mark(instance, "TLSInput", "False")
     IN \/ Works /\ ~instance.spec.tls /\ GoOn("config", ok, pass)
        \/ /\ Works /\ instance.spec.tls /\ inputs.cert # 0
           /\ GoOn("config", ok, [pass EXCEPT !.cert = inputs.cert])
        \/ Works /\ instance.spec.tls /\ inputs.cert = 0 /\ Return("done", bad)
        \/ Fails /\ instance.spec.tls /\ Return("error", bad)
  /\ Reads

\* Mutant: an existing ConfigMap is left as it is.
GenerateConfigMapsOnce ==
  /\ pc = "config" /\ Works /\ inputs.keystone # 0
  /\ configMap' = IF configMap = None THEN Render(instance, pass) ELSE configMap
  /\ GoOn("key", instance, [pass EXCEPT !.config = Render(instance, pass)])
  /\ Fixed /\ UNCHANGED <<protected, rbac, secretKey, keysMade, service, deployment>>
  /\ OwnedEvents

\* generateServiceConfigMaps: rendered from the KeystoneAPI, the Memcached and
\* the endpoint as the status had it when the pass began.  Of what the cache
\* shows only the files that differ are sent, and the hash is that of the answer.
GenerateConfigMaps ==
  /\ pc = "config"
  /\ LET new == Render(instance, pass)
         same == shown.ConfigMap = new
         sent == inputs.keystone # 0 /\ ~same /\ ~Refused("ConfigMap")
         written == IF shown.ConfigMap = None THEN new
                    ELSE PatchedConfig(shown.ConfigMap, new, configMap)
         bad == Return("error", Mark(instance, "ServiceConfig", "False"))
     IN \/ /\ Works /\ inputs.keystone # 0 /\ same
           /\ UNCHANGED configMap /\ GoOn("key", instance, [pass EXCEPT !.config = new])
        \/ /\ Works /\ sent /\ configMap' = written
           /\ GoOn("key", instance, [pass EXCEPT !.config = written])
        \/ /\ Works /\ (inputs.keystone = 0 \/ (~same /\ Refused("ConfigMap")))
           /\ UNCHANGED configMap /\ bad
        \/ /\ Fails /\ (UNCHANGED configMap \/ (sent /\ configMap' = written)) /\ bad
  /\ Fixed /\ UNCHANGED <<protected, rbac, secretKey, keysMade, service, deployment>>
  /\ OwnedEvents

NewKey == secretKey' = keysMade + 1 /\ keysMade' = keysMade + 1
KeepKey == UNCHANGED <<secretKey, keysMade>>

\* ensureHorizonSecret: a key the cache shows is kept; only the pass that
\* generates a key hashes it.
EnsureHorizonSecret ==
  /\ pc = "key"
  /\ LET missing == shown.Secret = 0 /\ ~Refused("Secret")
         bad == Return("error", Mark(instance, "ServiceConfig", "False"))
     IN \/ Works /\ shown.Secret # 0 /\ KeepKey /\ GoOn("hash", instance, pass)
        \/ /\ Works /\ missing
           /\ NewKey /\ GoOn("hash", instance, [pass EXCEPT !.key = keysMade'])
        \/ Works /\ shown.Secret = 0 /\ Refused("Secret") /\ KeepKey /\ bad
        \/ Fails /\ (KeepKey \/ (missing /\ NewKey)) /\ bad
  /\ Fixed /\ UNCHANGED <<protected, rbac, configMap, service, deployment>>
  /\ OwnedEvents

\* createHashOfInputHashes and its caller: a changed hash is published before
\* anything is deployed with it.
CheckHash ==
  /\ pc = "hash"
  /\ IF instance.status.hash # InputHash(pass)
     THEN Return("done", [instance EXCEPT !.status.hash = InputHash(pass)])
     ELSE GoOn("services", Mark(instance, "ServiceConfig", "True"), pass)
  /\ Works /\ Reads

\* Which optional dashboards are enabled; an error is returned unexplained.
CheckKeystoneServices ==
  /\ pc = "services"
  /\ \/ /\ Works
        /\ GoOn("init", instance, [pass EXCEPT !.services = inputs.services])
     \/ Fails /\ Return("error", instance)
  /\ Reads

\* reconcileInit: the Service, then the endpoint.  To create what exists is an
\* error, to patch what does not is tried again later.
ReconcileInit ==
  /\ pc = "init"
  /\ LET wanted == IF instance.spec.tls THEN "https" ELSE "http"
         same == shown.Service = wanted
         sent == ~same /\ ~Refused("Service")
         bad(r) == Return(r, Mark(instance, "CreateService", "False"))
     IN \/ /\ Works /\ (same \/ sent)
           /\ service' = (IF same THEN service ELSE wanted)
           /\ GoOn("nad", [Mark(instance, "CreateService", "True")
                             EXCEPT !.status.endpoint = APIEndpoint(instance.spec)], pass)
        \/ /\ Works /\ ~same /\ Refused("Service") /\ UNCHANGED service
           /\ bad(IF shown.Service = "none" THEN "error" ELSE "later")
        \/ Fails /\ (UNCHANGED service \/ (sent /\ service' = wanted)) /\ bad("error")
  /\ Fixed /\ UNCHANGED <<protected, rbac, configMap, secretKey, keysMade, deployment>>
  /\ OwnedEvents

\* ensureNAD and its caller.  A missing definition and a failed read both
\* return no error; the caller drops the requeue and overwrites the condition.
\* Only a definition the annotation cannot be made from stops the pass.
EnsureNAD ==
  /\ pc = "nad"
  /\ LET unusable == instance.spec.networks /\ inputs.nad = "malformed"
         ready(nets) == GoOn("release", Mark(instance, "NetworkAttachments", "True"),
                             [pass EXCEPT !.networks = nets])
     IN \/ Works /\ ~unusable /\ ready(instance.spec.networks /\ inputs.nad = "ready")
        \/ Works /\ unusable /\ Return("error", Mark(instance, "NetworkAttachments", "False"))
        \/ Fails /\ instance.spec.networks /\ ready(FALSE)
  /\ Reads

\* EnsureServiceTopology, first half: let go of the last applied Topology.
ReleaseTopology ==
  /\ pc = "release"
  /\ LET last == instance.status.topology
         dropped == IF last # instance.spec.topologyRef THEN protected \ {last}
                    ELSE protected
     IN \/ Works /\ protected' = dropped /\ GoOn("acquire", instance, pass)
        \/ /\ Fails /\ last \notin {None, instance.spec.topologyRef}
           /\ protected' \in {protected, dropped}
           /\ Return("error", Mark(instance, "Topology", "False"))
  /\ Unowned

\* Lines 933-946: LastAppliedTopology follows the reference.
Recorded(i) == [i EXCEPT !.status.topology = i.spec.topologyRef]

Exists(t) == topologies[t] # 0

\* Second half: put the finalizer on the referenced one, take its constraints
\* and record it.
AcquireTopology ==
  /\ pc = "acquire"
  /\ LET ref == instance.spec.topologyRef
         recorded == Recorded(instance)
         bad == Mark(instance, "Topology", "False")
     IN \/ /\ Works /\ ref = None
           /\ UNCHANGED protected /\ GoOn("deploy", recorded, pass)
        \/ /\ Works /\ ref # None /\ Exists(ref)
           /\ protected' = protected \cup {ref}
           /\ GoOn("deploy", Mark(recorded, "Topology", "True"),
                   [pass EXCEPT !.topology = topologies[ref]])
        \/ /\ Works /\ ref # None /\ ~Exists(ref)
           /\ UNCHANGED protected /\ Return("error", bad)
        \/ /\ Fails /\ ref # None
           /\ protected' \in {protected} \cup (IF Exists(ref) THEN {protected \cup {ref}} ELSE {})
           /\ Return("error", bad)
  /\ Unowned

\* A Deployment whose spec a patch changes is to be rolled out again.
Patch(old, new, current) ==
  LET t == PatchedTemplate(old, new, current.template)
  IN IF t = current.template THEN current
     ELSE [current EXCEPT !.template = t, !.rollout = "unseen"]

\* Line 992: readyReplicas count only for the observed generation.
Deployed(d) ==
  GoOn("verify",
       IF d.rollout = "unseen" THEN instance
       ELSE [instance EXCEPT !.status.readyCount = d.up],
       [pass EXCEPT !.depl = d])

\* CreateOrPatch of the Deployment, whose patch is computed on the cached copy;
\* the pass goes on with what the server answers.
CreateOrPatchDeployment ==
  /\ pc = "deploy"
  /\ LET new == DeploymentTemplate(instance, pass)
         written == IF shown.Deployment = None
                    THEN [template |-> new, rollout |-> "unseen", up |-> 0]
                    ELSE Patch(shown.Deployment.template, new, deployment)
         bad(r) == Return(r, Mark(instance, "Deployment", "False"))
     IN \/ /\ Works /\ ~Refused("Deployment")
           /\ deployment' = written /\ Deployed(written)
        \/ /\ Works /\ Refused("Deployment") /\ UNCHANGED deployment
           /\ bad(IF shown.Deployment = None THEN "error" ELSE "later")
        \/ /\ Fails /\ bad("error")
           /\ UNCHANGED deployment \/ (~Refused("Deployment") /\ deployment' = written)
  /\ Fixed /\ UNCHANGED <<protected, rbac, configMap, secretKey, keysMade, service>>
  /\ OwnedEvents

\* nad.VerifyNetworkStatusFromAnnotation: every ready replica reports the
\* networks.  What the pods report is settled only when the rollout is.
NetworkReady(i) ==
  IF ~i.spec.networks THEN {TRUE}
  ELSE IF deployment = None THEN {i.status.readyCount = 0}
  ELSE IF deployment.rollout = "complete"
       THEN {(IF deployment.template.networks THEN deployment.up ELSE 0)
               = i.status.readyCount}
       ELSE BOOLEAN

\* The rest of reconcileNormal, from line 995.
VerifyAndFinish ==
  /\ pc = "verify"
  /\ LET bad == Mark(instance, "NetworkAttachments", "False")
         nets == IF instance.spec.replicas = 0 THEN instance
                 ELSE Mark(instance, "NetworkAttachments", "True")
         ready == IF IsReady(pass.depl) THEN "True" ELSE "False"
         depl == Mark(nets, "Deployment", ready)
     IN \/ /\ Works /\ (instance.spec.replicas = 0 \/ TRUE \in NetworkReady(instance))
           /\ Return("done", IF AllSubConditionIsTrue(depl.status.conds)
                             THEN Mark(depl, "Ready", "True") ELSE depl)
        \/ /\ instance.spec.replicas # 0
           /\ \/ Works /\ FALSE \in NetworkReady(instance)
              \/ Fails /\ instance.spec.networks
           /\ Return("error", bad)
  /\ Reads

-----------------------------------------------------------------------------
(* The deferred function of Reconcile: mirror Ready, patch metadata, then    *)
(* status, against the object as it was read.                                *)

Mirrored(i) ==
  IF i.status.conds["Ready"] = "Unknown"
  THEN Mark(i, "Ready", Mirror(i.status.conds)) ELSE i

\* Mutant: nobody requeues a pass that failed or asked for it.
EndPassForgets(requeue) ==
  /\ pc' = "idle" /\ before' = None /\ instance' = None /\ pass' = NoPass
  /\ UNCHANGED queueVars

\* The worker is idle; controller-runtime requeues what asked for it.
EndPass(requeue) ==
  /\ pc' = "idle" /\ before' = None /\ instance' = None /\ pass' = NoPass
  /\ timer' = (timer \/ requeue) /\ UNCHANGED queued

\* An object without finalizers whose deletion was requested is removed.
WithFinalizer(h, f) ==
  [h EXCEPT !.finalizer = f,
            !.life = IF @ = "deleting" /\ ~f THEN "gone" ELSE @]

PatchMetadata ==
  /\ pc = "patch"
  /\ LET changes == instance.finalizer # before.finalizer
         written == IF changes /\ cr.life # "gone"
                    THEN WithFinalizer(cr, instance.finalizer) ELSE cr
     IN \/ /\ Works /\ cr' = written
           /\ GoOn("status", Mirrored(instance), pass) /\ UNCHANGED <<before, queueVars>>
        \/ /\ Fails /\ changes /\ cr' \in {cr, written}
           /\ EndPass(TRUE)
  /\ UNCHANGED <<inputs, topoVars, ownedVars, cacheVars>>

PatchStatus ==
  /\ pc = "status"
  /\ LET written == IF cr.life = "gone" THEN cr
                    ELSE [cr EXCEPT !.status = PatchedStatus(before.status, instance.status, @)]
     IN \/ Works /\ cr' = written /\ EndPass(pass.result # "done")
        \/ /\ Fails /\ instance.status # before.status
           /\ cr' \in {cr, written} /\ EndPass(TRUE)
  /\ UNCHANGED <<inputs, topoVars, ownedVars, cacheVars>>

Worker ==
  \/ GetNotFound \/ Get \/ ReconcileDelete
  \/ ReconcileRbac \/ CheckSecret \/ CheckMemcached \/ CheckCA \/ CheckCert
  \/ GenerateConfigMaps \/ EnsureHorizonSecret \/ CheckHash
  \/ CheckKeystoneServices \/ ReconcileInit \/ EnsureNAD
  \/ ReleaseTopology \/ AcquireTopology \/ CreateOrPatchDeployment \/ VerifyAndFinish
  \/ PatchMetadata \/ PatchStatus

-----------------------------------------------------------------------------
(* Around the worker: queue, caches, the deployment controller, the garbage  *)
(* collector, users, crashes.                                                *)

Outside == UNCHANGED workerVars

TimerFires ==
  /\ timer /\ timer' = FALSE /\ queued' = TRUE
  /\ Outside /\ UNCHANGED <<cr, inputs, topoVars, ownedVars, cacheVars, left>>

\* For(&Horizon{}) has no predicate: a change of the status alone also counts.
DeliverHorizon ==
  /\ seen # cr /\ seen' = cr /\ Enqueue(TRUE)
  /\ Outside /\ UNCHANGED <<cr, inputs, topoVars, ownedVars, copies, left>>

\* Mutant: an event of an owned object is not mapped to the owner.
DeliverSilently(k) ==
  /\ k \in news /\ news' = news \ {k} /\ shown' = [shown EXCEPT ![k] = Made[k]]
  /\ Outside /\ UNCHANGED <<cr, inputs, topoVars, ownedVars, seen, queueVars, left>>

\* The cache catches up with an owned object and its event queues the Horizon.
DeliverOwned(k) ==
  /\ k \in news /\ news' = news \ {k} /\ shown' = [shown EXCEPT ![k] = Made[k]]
  /\ Enqueue(TRUE)
  /\ Outside /\ UNCHANGED <<cr, inputs, topoVars, ownedVars, seen, left>>

\* The deployment controller observes a generation and rolls it out.
RollOut ==
  /\ deployment # None
  /\ \/ /\ deployment.rollout = "unseen"
        /\ deployment' = [deployment EXCEPT !.rollout = "rolling"]
     \/ /\ deployment.rollout = "rolling"
        /\ deployment' = [deployment EXCEPT !.rollout = "complete",
                                            !.up = deployment.template.replicas]
  /\ Outside
  /\ UNCHANGED <<cr, inputs, topoVars, rbac, configMap, secretKey, keysMade, service,
                 seen, left>>
  /\ OwnedEvents

PodFails ==
  /\ deployment # None /\ Spend("pod")
  /\ deployment.rollout = "complete" /\ deployment.up > 0
  /\ deployment' = [deployment EXCEPT !.rollout = "rolling", !.up = @ - 1]
  /\ Outside
  /\ UNCHANGED <<cr, inputs, topoVars, rbac, configMap, secretKey, keysMade, service, seen>>
  /\ OwnedEvents

\* Something that was made for the object exists.
Owned ==
  rbac \/ configMap # None \/ secretKey # 0 \/ service # "none" \/ deployment # None

\* Everything owned by the object goes with it.
CollectGarbage ==
  /\ cr.life = "gone" /\ Owned
  /\ rbac' = FALSE /\ configMap' = None /\ secretKey' = 0
  /\ service' = "none" /\ deployment' = None
  /\ Outside /\ UNCHANGED <<cr, inputs, topoVars, keysMade, seen, left>>
  /\ OwnedEvents

\* Somebody removes an owned object.
LoseOwned ==
  /\ Spend("lose")
  /\ \/ /\ rbac /\ rbac' = FALSE
        /\ UNCHANGED <<configMap, secretKey, service, deployment>>
     \/ /\ configMap # None /\ configMap' = None
        /\ UNCHANGED <<rbac, secretKey, service, deployment>>
     \/ /\ secretKey # 0 /\ secretKey' = 0
        /\ UNCHANGED <<rbac, configMap, service, deployment>>
     \/ /\ service # "none" /\ service' = "none"
        /\ UNCHANGED <<rbac, configMap, secretKey, deployment>>
     \/ /\ deployment # None /\ deployment' = None
        /\ UNCHANGED <<rbac, configMap, secretKey, service>>
  /\ Outside /\ UNCHANGED <<cr, inputs, topoVars, keysMade, seen>>
  /\ OwnedEvents

EditSpec ==
  /\ cr.life # "gone" /\ Spend("edit")
  /\ \E s \in Specs \ {cr.spec} :
       cr' = [cr EXCEPT !.spec = s, !.generation = @ + 1]
  /\ Outside /\ UNCHANGED <<inputs, topoVars, ownedVars, cacheVars, queueVars>>

DeleteHorizon ==
  /\ cr.life = "live" /\ Spend("delete")
  /\ cr' = [cr EXCEPT !.life = IF cr.finalizer THEN "deleting" ELSE "gone",
                      !.generation = @ + 1]
  /\ Outside /\ UNCHANGED <<inputs, topoVars, ownedVars, cacheVars, queueVars>>

\* An input object is created, changed or deleted, and its watch maps the
\* event to the Horizon that refers to it.
ChangeInput ==
  /\ Spend("input")
  /\ \E f \in Volatile :
       /\ \E v \in InputValues(f) \ {inputs[f]} : inputs' = [inputs EXCEPT ![f] = v]
       /\ Enqueue(Requests(f))
  /\ Outside /\ UNCHANGED <<cr, topoVars, ownedVars, cacheVars>>

\* A Topology is created, edited or removed; one that carries the finalizer
\* stays until it is taken off.
ChangeTopology ==
  /\ Spend("topology")
  /\ \E t \in Topologies :
       /\ \E v \in Versions \ {topologies[t]} :
            /\ v = 0 => t \notin protected
            /\ topologies' = [topologies EXCEPT ![t] = v]
       /\ Enqueue(seen.life # "gone" /\ seen.spec.topologyRef = t)
  /\ Outside /\ UNCHANGED <<cr, inputs, protected, ownedVars, cacheVars>>

\* The operator dies and comes back: what was in memory is lost, the caches
\* are filled again and every object is queued.
Crash ==
  /\ Spend("crash")
  /\ pc' = "idle" /\ before' = None /\ instance' = None /\ pass' = NoPass
  /\ seen' = cr /\ shown' = Made /\ news' = {}
  /\ queued' = (cr.life # "gone") /\ timer' = FALSE
  /\ UNCHANGED <<cr, inputs, topoVars, ownedVars>>

Environment ==
  \/ EditSpec \/ DeleteHorizon \/ ChangeInput \/ ChangeTopology
  \/ LoseOwned \/ PodFails \/ Crash

Machinery ==
  \/ TimerFires \/ DeliverHorizon \/ (\E k \in OwnedKinds : DeliverOwned(k))
  \/ RollOut \/ CollectGarbage

-----------------------------------------------------------------------------
(* A Horizon has just been created and nothing else of it exists.            *)
Init ==
  /\ \E s \in Starts :
       /\ cr = [life |-> "live", generation |-> 1, spec |-> s.spec,
                finalizer |-> FALSE, status |-> NewStatus]
       /\ inputs = s.inputs /\ topologies = s.topologies /\ left = s.limit
  /\ protected = {}
  /\ rbac = FALSE /\ configMap = None /\ service = "none" /\ deployment = None
  /\ secretKey = 0 /\ keysMade = 0
  /\ seen = cr /\ shown = Absent /\ news = {}
  /\ queued = TRUE /\ timer = FALSE
  /\ pc = "idle" /\ before = None /\ instance = None /\ pass = NoPass

Next == Worker \/ Machinery \/ Environment

Spec == Init /\ [][Next]_vars

\* Workers, informers, timers and the controllers of the cluster keep running;
\* nothing is assumed of users, faults or crashes.
Fairness ==
  /\ WF_vars(Worker)
  /\ WF_vars(TimerFires) /\ WF_vars(DeliverHorizon)
  /\ \A k \in OwnedKinds : WF_vars(DeliverOwned(k))
  /\ WF_vars(RollOut) /\ WF_vars(CollectGarbage)

FairSpec == Spec /\ Fairness

-----------------------------------------------------------------------------
(* Properties.                                                               *)

\* Every variable holds a value of its type; a pass holds an object.
TypeOK ==
  /\ cr \in Horizons /\ seen \in Horizons
  /\ inputs \in Inputs
  /\ topologies \in [Topologies -> Versions] /\ protected \subseteq Topologies
  /\ rbac \in BOOLEAN /\ configMap \in Configs \cup {None}
  /\ secretKey \in Nat /\ keysMade \in Nat
  /\ service \in {"none", "http", "https"}
  /\ deployment \in Deployments \cup {None}
  /\ shown \in OwnedObjects /\ news \subseteq Lagging
  /\ queued \in BOOLEAN /\ timer \in BOOLEAN
  /\ pc \in Stages
  /\ pc # "idle" => before \in Horizons /\ instance \in Horizons
  /\ pass \in Passes
  /\ left \in [Kinds -> Nat]

\* Nothing is going on: nothing is queued, delivered late or rolling out.
Quiet ==
  /\ pc = "idle" /\ ~queued /\ ~timer /\ seen = cr /\ news = {}
  /\ deployment # None => deployment.rollout = "complete"

\* Networks are waited for only if there are pods to attach: with no replicas
\* the check of lines 1000-1033 is skipped, and ensureNAD never stops a pass.
AttachesNetworks(s) == s.networks /\ s.replicas # 0

\* What no pass gets past, or ends well, without.
InputsNeeded(s) ==
  /\ s.secret /\ inputs.secret # 0 /\ inputs.memcached # 0
  /\ inputs.keystone # 0
  /\ s.ca => inputs.ca # 0
  /\ s.tls => inputs.cert # 0
  /\ AttachesNetworks(s) => inputs.nad = "ready"
  /\ s.topologyRef # None => Exists(s.topologyRef)

\* Everything the spec s needs is there.  A malformed definition also stops a
\* pass that has no pods to attach, unless the pass fails to read it.
InputsPresent(s) == InputsNeeded(s) /\ (s.networks => inputs.nad # "malformed")

WantedConfig(s) ==
  [httpd    |-> [tls |-> s.tls, endpoint |-> APIEndpoint(s)],
   settings |-> [endpoint |-> APIEndpoint(s), keystone |-> inputs.keystone,
                 memcached |-> inputs.memcached],
   custom   |-> s.config]

\* The constraints of the referenced Topology, or the default ones.
Constraints(s) == IF s.topologyRef = None THEN 0 ELSE topologies[s.topologyRef]

WantedTemplate(s, nets) ==
  [containers |->
     [hash |-> [secret |-> inputs.secret, ca |-> IF s.ca THEN inputs.ca ELSE 0,
                cert |-> IF s.tls THEN inputs.cert ELSE 0,
                config |-> WantedConfig(s), key |-> 0],
      services |-> inputs.services, tls |-> s.tls, ca |-> s.tls /\ s.ca],
   networks |-> nets, topology |-> Constraints(s), replicas |-> s.replicas]

\* The cluster is what the spec and the inputs ask for.
UpToDate ==
  /\ cr.finalizer /\ cr.status.observed = cr.generation
  /\ cr.status.endpoint = APIEndpoint(cr.spec)
  /\ rbac /\ service = (IF cr.spec.tls THEN "https" ELSE "http") /\ secretKey # 0
  /\ configMap = WantedConfig(cr.spec)
  /\ deployment # None
  /\ \E nets \in {cr.spec.networks, AttachesNetworks(cr.spec)} :
       deployment.template = WantedTemplate(cr.spec, nets)
  /\ cr.status.topology = cr.spec.topologyRef
  /\ cr.spec.topologyRef \in protected \cup {None}
  /\ cr.status.readyCount = cr.spec.replicas

Published == cr.status.conds["Ready"]

\* When all is quiet and the inputs are there, everything in the cluster is
\* derived from the current spec and the current inputs, and Ready says so:
\* no change, of whatever object and at whatever point of a pass, is missed.
QuietIsCurrent ==
  Quiet /\ cr.life = "live" /\ InputsPresent(cr.spec)
    => UpToDate /\ Published = "True"

\* When all is quiet and an input is missing, the object is not Ready.
QuietIsHonest ==
  Quiet /\ cr.life = "live" /\ ~InputsNeeded(cr.spec) => Published # "True"

\* Nothing is created, and no Topology is touched, for an object that is gone
\* or could go at any moment because it does not carry the finalizer yet.
FinalizerGuardsWork ==
  pc \in WorkStages => cr.finalizer /\ cr.life # "gone"

\* The pass that removes the object has first taken its finalizer off the
\* Topology it found recorded, however often that had to be tried.
ReleaseBeforeRemoval ==
  [][cr.finalizer /\ cr.life # "gone" /\ cr'.life = "gone"
       => instance.status.topology \notin protected]_vars

\* The generation a client reads in the status never goes back, whatever stale
\* copy a pass started from, and is never one that does not exist yet.
ObservedMonotone ==
  [][cr.status.observed <= cr'.status.observed
     /\ cr'.status.observed <= cr'.generation]_vars

\* "Always patch the instance status when exiting this function so we can
\* persist any changes": after a status patch that worked the object says what
\* the pass found.
StatusPersisted ==
  [][pc = "status" /\ pc' = "idle" /\ left' = left /\ cr.life # "gone"
       => cr'.status.conds = instance.status.conds]_vars

\* Ready, with an observed generation that is the current one: "the controller
\* has processed the latest changes".
Vouched == cr.life = "live" /\ Published = "True" /\ cr.status.observed = cr.generation

\* Then the Deployment has the replicas and the networks of the current spec.
ReadyMatchesSpec ==
  Vouched => /\ deployment # None
             /\ deployment.template.replicas = cr.spec.replicas
             /\ deployment.template.networks = cr.spec.networks

\* ... and the configuration was rendered for the endpoint of that spec.
ReadyMatchesEndpoint ==
  Vouched => configMap # None /\ configMap.settings.endpoint = APIEndpoint(cr.spec)

\* When all is quiet, no Topology but the one the spec refers to carries the
\* finalizer, and none does once the object is gone.
OnlyReferencedHeld ==
  Quiet => /\ cr.life = "gone" => protected = {}
           /\ cr.life = "live" /\ InputsPresent(cr.spec)
                => protected \subseteq {cr.spec.topologyRef}

\* A Deployment asked to attach networks is not rolled out without them.
WaitsForNetworks ==
  [][pc = "deploy" /\ deployment' # deployment /\ instance.spec.networks
       => deployment'.template.networks]_vars

\* Once the spec and the inputs stay as they are, the object becomes Ready, the
\* cluster what it asks for, and the operator stops working on it.
Settled == Quiet /\ UpToDate /\ Published = "True"

Converges ==
  <>[](cr.life = "live" /\ InputsPresent(cr.spec)) => <>[]Settled

-----------------------------------------------------------------------------
(* The reconcile loop keeps the promise of HorizonService.                   *)

Service == INSTANCE HorizonService WITH
  life <- cr.life, generation <- cr.generation, guarded <- cr.finalizer,
  observed <- cr.status.observed, ready <- Published = "True", built <- Owned

\* Seen from outside, every step of users, workers, caches and controllers is a
\* step HorizonService allows or none at all.
ImplementsService == Service!Spec

\* A requested deletion leaves nothing behind, and nothing comes back later.
NothingRemains == Service!Vanishes
=============================================================================
