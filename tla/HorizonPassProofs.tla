------------------------- MODULE HorizonPassProofs -------------------------
(***************************************************************************)
(* What a pass of the reconcile loop has found, and what of it is still    *)
(* true while others act: the part of the inductive invariant behind       *)
(* QuietIsCurrent and QuietIsHonest that is about a pass.                  *)
(*                                                                         *)
(* The argument is that of a cache with notifications.  Every stage reads  *)
(* or writes something and relies on it to the end of the pass; whoever    *)
(* changes it meanwhile queues the key (a watch, the informer of the       *)
(* Horizon object) or, for an owned object whose copy is late, has made    *)
(* news that will.  So one says of every stage what holds as long as the   *)
(* key is not queued and the copies it was computed on are not late, and   *)
(* shows that each stage establishes its part, and that no step of anybody *)
(* takes it away quietly.                                                  *)
(***************************************************************************)
EXTENDS HorizonReconcileProofs

-----------------------------------------------------------------------------
(* The inductive invariant.                                                  *)

\* The cache shows an owned object as it is, or an event about it is due.
ShownUnlessNews == \A k \in OwnedKinds \ news : shown[k] = Made[k]

\* A rollout is complete when every replica is up.
CompleteIsUp ==
  deployment # None /\ deployment.rollout = "complete"
    => deployment.up = deployment.template.replicas

\* A finalizer is put on Topologies that exist, and keeps them.
HeldExists == \A t \in protected : Exists(t)

ClusterFits == ShownUnlessNews /\ CompleteIsUp /\ HeldExists

\* The stages in their order: UpToX is X and what comes before it.
UpToRbac == {"rbac"}
UpToSecret == UpToRbac \cup {"secret"}
UpToMemcached == UpToSecret \cup {"memcached"}
UpToCA == UpToMemcached \cup {"ca"}
UpToCert == UpToCA \cup {"cert"}
UpToConfig == UpToCert \cup {"config"}
UpToKey == UpToConfig \cup {"key"}
UpToHash == UpToKey \cup {"hash"}
UpToServices == UpToHash \cup {"services"}
UpToInit == UpToServices \cup {"init"}
UpToNAD == UpToInit \cup {"nad"}
UpToRelease == UpToNAD \cup {"release"}
UpToAcquire == UpToRelease \cup {"acquire"}
UpToDeploy == UpToAcquire \cup {"deploy"}

\* The pass has gone through all stages.
Completed == pc \in {"patch", "status"} /\ pass.result = "done" /\ pass.depl # None

\* ... or through these ones at least.
Past(stages) == pc \in WorkStages \ stages \/ Completed

\* The copy the pass was started with is that of the cache, or the newer one
\* in the cache has queued the key.
Copied ==
  pc # "idle" =>
    /\ ~queued => seen = before
    /\ instance.life = before.life /\ instance.generation = before.generation
    /\ instance.spec = before.spec

\* The status is patched after the finalizer has been written.
FinalizerWritten ==
  pc = "status" /\ instance.finalizer # before.finalizer /\ cr.life # "gone"
    => cr.finalizer = instance.finalizer

\* What a pass has not touched yet is as it was.
NotYet ==
  /\ pc = "delete" => pass.depl = None
  /\ pc \in WorkStages =>
       /\ pass.result = "done" /\ (pass.depl = None <=> pc # "verify")
       /\ instance.status.conds["Ready"] = "Unknown"
       /\ instance.status.hash = before.status.hash
       /\ pc \in UpToInit => instance.status.endpoint = before.status.endpoint
       /\ pc \in UpToCA => pass.ca = 0
       /\ pc \in UpToCert => pass.cert = 0
       /\ pc \in UpToKey => pass.key = 0
       /\ pc \in UpToAcquire => pass.topology = 0

\* The condition c has been set.
Told(c) == instance.status.conds[c] = "True"

\* The key is not queued, and no event of the kind k is due.
Unheard(k) == ~queued /\ k \notin news

(* What each stage has found or made, once it is past, is still so unless    *)
(* the key has been queued since, or will be.                                *)
RbacHolds == Past(UpToRbac) => Told("Rbac") /\ (Unheard("Rbac") => rbac)

SecretHolds ==
  Past(UpToSecret) =>
    /\ Told("Input") /\ instance.spec.secret /\ pass.secret # 0
    /\ ~queued => pass.secret = inputs.secret

MemcachedHolds ==
  Past(UpToMemcached) =>
    /\ Told("Memcached") /\ pass.memcached # 0
    /\ ~queued => pass.memcached = inputs.memcached

CAHolds ==
  Past(UpToCA) => /\ instance.spec.ca <=> pass.ca # 0
                  /\ ~queued /\ instance.spec.ca => pass.ca = inputs.ca

CertHolds ==
  Past(UpToCert) => /\ Told("TLSInput")
                    /\ instance.spec.tls <=> pass.cert # 0
                    /\ ~queued /\ instance.spec.tls => pass.cert = inputs.cert

\* The configuration of the pass, rendered for the endpoint e.
RenderedFor(e) ==
  [httpd    |-> [tls |-> instance.spec.tls, endpoint |-> e],
   settings |-> [endpoint |-> e, keystone |-> inputs.keystone, memcached |-> pass.memcached],
   custom   |-> instance.spec.config]

\* A pass that has patched the ConfigMap on a late copy may hash a mixture of
\* files; but then an event of the ConfigMap is due.
ConfigHolds ==
  Past(UpToConfig) =>
    /\ pass.config \in Configs
    /\ ~queued => inputs.keystone # 0
    /\ Unheard("ConfigMap") =>
         configMap = pass.config /\ pass.config = RenderedFor(before.status.endpoint)

KeyHolds == Past(UpToKey) /\ Unheard("Secret") => secretKey # 0 /\ pass.key = 0

HashHolds == Past(UpToHash) => Told("ServiceConfig")

ServicesHold == Past(UpToServices) /\ ~queued => pass.services = inputs.services

InitHolds ==
  Past(UpToInit) =>
    /\ Told("CreateService")
    /\ instance.status.endpoint = APIEndpoint(instance.spec)
    /\ Unheard("Service") => service = (IF instance.spec.tls THEN "https" ELSE "http")

NADHolds ==
  Past(UpToNAD) =>
    /\ Told("NetworkAttachments")
    /\ pass.networks => instance.spec.networks /\ (~queued => inputs.nad = "ready")

TopologyHolds ==
  Past(UpToAcquire) =>
    /\ instance.status.topology = instance.spec.topologyRef
    /\ instance.spec.topologyRef \in protected \cup {None}
    /\ ~queued => pass.topology = Constraints(instance.spec)

DeployHolds ==
  Past(UpToDeploy) /\ Unheard("Deployment") =>
    /\ pass.depl = deployment
    /\ deployment.template = DeploymentTemplate(instance, pass)
    /\ deployment.rollout # "unseen" => instance.status.readyCount = deployment.up

\* The Topology condition cannot go stale: Init forgets it, or nobody ever
\* refers to a Topology.
TopologyTold == ~InitKeepsUnlisted \/ \A s \in Specs : s.topologyRef = None

\* A pass that went through all stages has found nothing wrong.
VerifyHolds ==
  Completed =>
    /\ before.life = "live" /\ before.finalizer
    /\ Unheard("Deployment") /\ deployment.rollout = "complete" =>
         /\ AttachesNetworks(instance.spec) => pass.networks
         /\ TopologyTold => Told("Ready")

Holds ==
  /\ RbacHolds /\ SecretHolds /\ MemcachedHolds /\ CAHolds /\ CertHolds /\ ConfigHolds
  /\ KeyHolds /\ HashHolds /\ ServicesHold /\ InitHolds /\ NADHolds /\ TopologyHolds
  /\ DeployHolds /\ VerifyHolds

\* A secret for TLS is named and missing: only its creation wakes the operator.
LacksTLS(s) == (s.ca /\ inputs.ca = 0) \/ (s.tls /\ inputs.cert = 0)

\* The pass stopped there, and says so.
Waiting ==
  /\ instance.status.conds["TLSInput"] = "False"
  /\ ~Told("Ready") /\ before.life = "live"
  /\ ~queued => LacksTLS(instance.spec)

\* A pass that stopped early without an error has something to write, whose
\* event brings the next pass, or it waits for a secret.
Stopped ==
  pc \in {"patch", "status"} /\ pass.result = "done" /\ pass.depl = None =>
    \/ before.life = "deleting"
    \/ instance.finalizer # before.finalizer
    \/ instance.status.conds["Rbac"] # before.status.conds["Rbac"]
    \/ instance.status.hash # before.status.hash
    \/ Waiting

\* What a pass has found.
Findings == NotYet /\ Holds /\ Stopped

\* No stage works with a Topology condition an earlier pass has left False.
TopologyHonest ==
  TopologyTold /\ pc \in WorkStages => instance.status.conds["Topology"] \in {"Absent", "True"}

\* Where nobody refers to a Topology, none is recorded.
Untouched(h) ==
  /\ h.spec \in Specs
  /\ (\A s \in Specs : s.topologyRef = None)
       => h.status.topology = None /\ h.status.conds["Topology"] = "Absent"

TopologyUnused ==
  Untouched(cr) /\ Untouched(seen) /\ (pc # "idle" => Untouched(before) /\ Untouched(instance))

-----------------------------------------------------------------------------
(* The owned objects, their copies, and the Topologies.                      *)

\* Whatever is made or lost of a kind, without being queued, is news.
OwnedKept ==
  /\ "Rbac" \notin news' => "Rbac" \notin news /\ rbac' = rbac
  /\ "ConfigMap" \notin news' => "ConfigMap" \notin news /\ configMap' = configMap
  /\ "Secret" \notin news' => "Secret" \notin news /\ secretKey' = secretKey
  /\ "Service" \notin news' => "Service" \notin news /\ service' = service
  /\ "Deployment" \notin news' => "Deployment" \notin news /\ deployment' = deployment

\* A change of an owned object queues the key or is news.
LEMMA OwnedEventsKeep ==
  ASSUME OwnedEvents
  PROVE  /\ queued => queued'
         /\ ~queued' => OwnedKept /\ timer' = timer
  <1>1. /\ news' = news \cup {k \in Lagging : Made'[k] # Made[k]}
        /\ queued' = (queued \/ \E k \in OwnedKinds \ Lagging : Made'[k] # Made[k])
        /\ timer' = timer
    BY DEF OwnedEvents, CopiesFollow, Enqueue
  <1>2. ASSUME ~queued'
        PROVE  \A k \in OwnedKinds : k \notin news' => k \notin news /\ Made'[k] = Made[k]
    BY <1>1, <1>2
  <1>3. /\ Made.Rbac = rbac /\ Made.ConfigMap = configMap /\ Made.Secret = secretKey
        /\ Made.Service = service /\ Made.Deployment = deployment
    BY DEF Made
  <1>4. /\ Made'.Rbac = rbac' /\ Made'.ConfigMap = configMap' /\ Made'.Secret = secretKey'
        /\ Made'.Service = service' /\ Made'.Deployment = deployment'
    BY DEF Made
  <1>5. OwnedKinds = {"Rbac", "ConfigMap", "Secret", "Service", "Deployment"}
    BY DEF OwnedKinds
  <1> QED BY <1>1, <1>2, <1>3, <1>4, <1>5 DEF OwnedKept

\* The copies are as recent as they were.
LEMMA OwnedEventsShow ==
  ASSUME Typed, ShownUnlessNews, OwnedEvents
  PROVE  ShownUnlessNews'
  <1> SUFFICES ASSUME NEW k \in OwnedKinds, k \notin news'
               PROVE  shown'[k] = Made'[k]
    BY DEF ShownUnlessNews
  <1>1. /\ shown' = [j \in OwnedKinds |-> IF j \in Lagging THEN shown[j] ELSE Made'[j]]
        /\ k \notin news
        /\ k \in Lagging => Made'[k] = Made[k]
    BY DEF OwnedEvents, CopiesFollow
  <1> QED BY <1>1 DEF ShownUnlessNews

\* What is shown, kind by kind, when nothing about it is due.
LEMMA ShownKinds ==
  ASSUME ShownUnlessNews
  PROVE  /\ "Rbac" \notin news => shown.Rbac = rbac
         /\ "ConfigMap" \notin news => shown.ConfigMap = configMap
         /\ "Secret" \notin news => shown.Secret = secretKey
         /\ "Service" \notin news => shown.Service = service
         /\ "Deployment" \notin news => shown.Deployment = deployment
  BY DEF ShownUnlessNews, Made, OwnedKinds

\* Actions that touch neither an owned object, nor a copy of one, nor any
\* Topology.
LEMMA Untouching ==
  ASSUME \/ GetNotFound \/ Get \/ CheckSecret \/ CheckMemcached \/ CheckCA \/ CheckCert
         \/ CheckHash \/ CheckKeystoneServices \/ EnsureNAD \/ VerifyAndFinish
         \/ PatchMetadata \/ PatchStatus
         \/ TimerFires \/ DeliverHorizon \/ EditSpec \/ DeleteHorizon \/ ChangeInput
         \/ UNCHANGED vars
  PROVE  UNCHANGED <<ownedVars, copies, topoVars>>
  <1>1. CASE GetNotFound \/ Get
    BY <1>1 DEF GetNotFound, Get, cacheVars
  <1>2. CASE Reads
    BY <1>2 DEF Reads, Unowned, Fixed, topoVars
  <1>3. CASE PatchMetadata \/ PatchStatus
    BY <1>3 DEF PatchMetadata, PatchStatus, cacheVars
  <1>4. CASE \/ TimerFires \/ DeliverHorizon \/ EditSpec \/ DeleteHorizon \/ ChangeInput
             \/ UNCHANGED vars
    BY <1>4 DEF TimerFires, DeliverHorizon, EditSpec, DeleteHorizon, ChangeInput, vars, cacheVars
  <1> QED
    BY <1>1, <1>2, <1>3, <1>4 DEF CheckSecret, CheckMemcached, CheckCA, CheckCert,
       CheckHash, CheckKeystoneServices, EnsureNAD, VerifyAndFinish

\* The actions that write owned objects.
Writes ==
  \/ ReconcileRbac \/ GenerateConfigMaps \/ EnsureHorizonSecret \/ ReconcileInit
  \/ CreateOrPatchDeployment \/ RollOut \/ PodFails \/ CollectGarbage \/ LoseOwned

LEMMA WritesHeard ==
  ASSUME Writes
  PROVE  OwnedEvents /\ UNCHANGED <<topologies, protected, inputs, seen>>
  BY DEF Writes, ReconcileRbac, GenerateConfigMaps, EnsureHorizonSecret, ReconcileInit,
     CreateOrPatchDeployment, RollOut, PodFails, CollectGarbage, LoseOwned, Fixed, topoVars

\* What is complete runs as many pods as it asks for.
LEMMA DeploymentSteps ==
  ASSUME Typed, CompleteIsUp, Writes
  PROVE  CompleteIsUp'
  <1>1. deployment \in Deployments \cup {None}
    BY DEF Typed, TypeOK
  <1>2. CASE CreateOrPatchDeployment
    <2> DEFINE new == DeploymentTemplate(instance, pass)
               fresh == [template |-> new, rollout |-> "unseen", up |-> 0]
               patched == Patch(shown.Deployment.template, new, deployment)
    <2>1. deployment # None => patched = deployment \/ patched.rollout = "unseen"
      <3> HIDE DEF new
      <3> QED BY <1>1 DEF Patch, Deployments
    <2>2. fresh.rollout = "unseen"
      OBVIOUS
    <2>3. ~Refused("Deployment") => (shown.Deployment = None <=> deployment = None)
      BY DEF Refused, Absent, Made
    <2> HIDE DEF new, fresh, patched
    <2>4. \/ deployment' = deployment
          \/ deployment' = fresh
          \/ shown.Deployment # None /\ ~Refused("Deployment") /\ deployment' = patched
      BY <1>2 DEF CreateOrPatchDeployment, new, fresh, patched
    <2> QED BY <2>1, <2>2, <2>3, <2>4 DEF CompleteIsUp
  <1>3. CASE RollOut
    <2>1. /\ [deployment EXCEPT !.rollout = "rolling"].rollout = "rolling"
          /\ LET d == [deployment EXCEPT !.rollout = "complete",
                                         !.up = deployment.template.replicas]
             IN  d.up = d.template.replicas
      BY <1>1, <1>3 DEF Deployments, RollOut
    <2> QED BY <1>3, <2>1 DEF RollOut, CompleteIsUp
  <1>4. CASE PodFails
    <2>1. [deployment EXCEPT !.rollout = "rolling", !.up = @ - 1].rollout = "rolling"
      BY <1>1, <1>4 DEF Deployments, PodFails
    <2> QED BY <1>4, <2>1 DEF PodFails, CompleteIsUp
  <1>5. CASE CollectGarbage \/ LoseOwned
    BY <1>5 DEF CollectGarbage, LoseOwned, CompleteIsUp
  <1>6. CASE ReconcileRbac \/ GenerateConfigMaps \/ EnsureHorizonSecret \/ ReconcileInit
    BY <1>6 DEF ReconcileRbac, GenerateConfigMaps, EnsureHorizonSecret, ReconcileInit, CompleteIsUp
  <1> QED BY <1>2, <1>3, <1>4, <1>5, <1>6 DEF Writes

\* Only Topologies that exist get the finalizer, and one that has it stays.
LEMMA TopologySteps ==
  ASSUME Typed, HeldExists,
         ReconcileDelete \/ ReleaseTopology \/ AcquireTopology \/ ChangeTopology
  PROVE  UNCHANGED <<ownedVars, copies>> /\ HeldExists'
  <1> USE DEF HeldExists, Exists
  <1>1. CASE ReconcileDelete
    BY <1>1 DEF ReconcileDelete, Unowned, Fixed
  <1>2. CASE ReleaseTopology
    BY <1>2 DEF ReleaseTopology, Unowned, Fixed
  <1>3. CASE AcquireTopology
    BY <1>3 DEF AcquireTopology, Unowned, Fixed
  <1>4. CASE ChangeTopology
    <2>1. topologies \in [Topologies -> Versions]
      BY DEF Typed, TypeOK
    <2>2. PICK t \in Topologies, v \in Versions :
            /\ v = 0 => t \notin protected
            /\ topologies' = [topologies EXCEPT ![t] = v]
      BY <1>4 DEF ChangeTopology
    <2>3. protected' = protected /\ protected \subseteq Topologies
      BY <1>4 DEF ChangeTopology, Typed, TypeOK
    <2>4. UNCHANGED <<ownedVars, copies>>
      BY <1>4 DEF ChangeTopology, cacheVars
    <2> QED BY <2>1, <2>2, <2>3, <2>4
  <1> QED BY <1>1, <1>2, <1>3, <1>4

\* What a reader of the cluster takes for granted survives every step.
LEMMA NextFits ==
  ASSUME Typed, ClusterFits, [Next]_vars
  PROVE  ClusterFits'
  <1> USE DEF ClusterFits
  <1>1. UNCHANGED <<ownedVars, copies>> => ShownUnlessNews' /\ CompleteIsUp'
    BY DEF ownedVars, copies, ShownUnlessNews, Made, CompleteIsUp
  <1>2. UNCHANGED topoVars => HeldExists'
    BY DEF topoVars, HeldExists, Exists
  <1>3. CASE UNCHANGED <<ownedVars, copies, topoVars>>
    BY <1>1, <1>2, <1>3
  <1>4. CASE Writes
    BY <1>2, <1>4, WritesHeard, OwnedEventsShow, DeploymentSteps DEF topoVars
  <1>5. CASE ReconcileDelete \/ ReleaseTopology \/ AcquireTopology \/ ChangeTopology
    BY <1>1, <1>5, TopologySteps
  <1>6. ASSUME NEW k \in OwnedKinds, DeliverOwned(k)
        PROVE  ClusterFits'
    <2>1. /\ UNCHANGED <<ownedVars, topoVars>> /\ news' = news \ {k}
          /\ shown' = [shown EXCEPT ![k] = Made[k]]
      BY <1>6 DEF DeliverOwned
    <2>2. Made' = Made /\ CompleteIsUp'
      BY <2>1 DEF ownedVars, Made, CompleteIsUp
    <2>3. shown \in OwnedObjects
      BY DEF Typed, TypeOK
    <2>4. \A j \in OwnedKinds : shown'[j] = IF j = k THEN Made[k] ELSE shown[j]
      BY <2>1, <2>3 DEF OwnedObjects, OwnedKinds
    <2>5. ShownUnlessNews'
      BY <2>1, <2>2, <2>4 DEF ShownUnlessNews
    <2> QED BY <1>2, <2>1, <2>2, <2>5
  <1>7. CASE Crash
    BY <1>2, <1>7 DEF Crash, ownedVars, Made, CompleteIsUp, ShownUnlessNews
  <1> QED
    BY <1>3, <1>4, <1>5, <1>6, <1>7, Untouching
       DEF Next, Worker, Machinery, Environment, Writes

-----------------------------------------------------------------------------
(* The copies of a pass.                                                     *)

\* Only the beginning of a pass takes the key from the queue.
LEMMA QueueKept ==
  ASSUME [Next]_vars, queued, ~queued'
  PROVE  Get \/ GetNotFound \/ Crash
  <1>0. ~Writes
    BY WritesHeard, OwnedEventsKeep
  <1>1. ~Stage
    <2>1. ~Unowned
      BY DEF Unowned, queueVars
    <2> QED
      BY <1>0, <2>1 DEF Stage, Writes, CheckSecret, CheckMemcached, CheckCA, CheckCert,
         CheckHash, CheckKeystoneServices, EnsureNAD, VerifyAndFinish, ReleaseTopology,
         AcquireTopology, Reads
  <1>2. ~ReconcileDelete /\ ~PatchMetadata /\ ~PatchStatus
    BY DEF ReconcileDelete, PatchMetadata, PatchStatus, EndPass, Unowned, queueVars
  <1>3. ~Elsewhere
    <2>1. ~TimerFires /\ (\A k \in OwnedKinds : ~DeliverOwned(k))
      BY DEF TimerFires, DeliverOwned, Enqueue
    <2>2. ~ChangeInput /\ ~ChangeTopology
      BY DEF ChangeInput, ChangeTopology, Enqueue
    <2> QED BY <1>0, <2>1, <2>2 DEF Elsewhere, Writes
  <1>4. ~DeliverHorizon /\ ~EditSpec /\ ~DeleteHorizon /\ ~UNCHANGED vars
    BY DEF DeliverHorizon, EditSpec, DeleteHorizon, Enqueue, queueVars, vars
  <1> QED BY <1>1, <1>2, <1>3, <1>4, NextCases

\* The object in memory when a pass begins differs in conditions, observed
\* generation and finalizer only.
LEMMA GetFields ==
  ASSUME Typed, Get
  PROVE  /\ instance'.life = seen.life /\ instance'.generation = seen.generation
         /\ instance'.spec = seen.spec
         /\ instance'.status.hash = seen.status.hash
         /\ instance'.status.endpoint = seen.status.endpoint
         /\ instance'.status.topology = seen.status.topology
         /\ instance'.status.conds = InitConds(seen.status.conds)
         /\ pass' = NoPass
  <1> DEFINE conds == InitConds(seen.status.conds)
  <1>1. seen \in Horizons
    BY DEF Typed, TypeOK
  <1>2. /\ instance' = [seen EXCEPT !.status.conds = conds,
                                    !.status.observed = seen.generation,
                                    !.finalizer = @ \/ AddsFinalizer(seen)]
        /\ pass' = NoPass
    BY DEF Get, GoOn
  <1> HIDE DEF conds
  <1>3. seen.status \in Statuses
    BY <1>1 DEF Horizons
  <1>4. instance'.status = [seen.status EXCEPT !.conds = conds, !.observed = seen.generation]
    BY <1>1, <1>2 DEF Horizons
  <1>5. /\ instance'.status.hash = seen.status.hash
        /\ instance'.status.endpoint = seen.status.endpoint
        /\ instance'.status.topology = seen.status.topology
        /\ instance'.status.conds = conds
    BY <1>3, <1>4 DEF Statuses
  <1> QED BY <1>1, <1>2, <1>5 DEF Horizons, conds

\* Whatever a pass does to the object in memory, life, generation and spec stay.
LEMMA PassKeeps ==
  ASSUME Typed, ReconcileDelete \/ Stage \/ PatchMetadata \/ PatchStatus, pc' # "idle"
  PROVE  /\ UNCHANGED <<seen, before>>
         /\ instance'.life = instance.life /\ instance'.generation = instance.generation
         /\ instance'.spec = instance.spec
  <1>1. CASE Stage
    BY <1>1, StageLemma DEF Advance
  <1>2. CASE ReconcileDelete
    <2>1. instance \in Horizons /\ UNCHANGED <<seen, before>>
      BY <1>2, ReconcileDeleteStep DEF Typed, TypeOK
    <2>2. instance' \in {instance, [instance EXCEPT !.finalizer = FALSE]}
      BY <1>2 DEF ReconcileDelete, Return, GoOn
    <2> QED BY <2>1, <2>2 DEF Horizons
  <1>3. CASE PatchMetadata
    <2>1. instance \in Horizons
      BY <1>3 DEF Typed, TypeOK, PatchMetadata
    <2>2. instance' = Mirrored(instance) /\ UNCHANGED <<seen, before>>
      BY <1>3 DEF PatchMetadata, GoOn, EndPass, cacheVars
    <2>3. Mirror(instance.status.conds) \in CondStatus
      BY MirrorLemma
    <2> QED BY <2>1, <2>2, <2>3, MarkLemma DEF Mirrored, CondTypes, ListedConds
  <1>4. CASE PatchStatus
    BY <1>4, PatchStatusStep
  <1> QED BY <1>1, <1>2, <1>3, <1>4

\* A pass keeps what it was started with, and only a step that queues the key
\* brings another copy into the cache.
LEMMA NextCopied ==
  ASSUME Typed, Copied, [Next]_vars
  PROVE  Copied'
  <1> USE DEF Copied
  <1>1. CASE Get
    BY <1>1, GetStep, GetFields
  <1>2. CASE ReconcileDelete \/ Stage \/ PatchMetadata \/ PatchStatus
    <2>1. pc # "idle"
      BY <1>2, StageLemma DEF ReconcileDelete, PatchMetadata, PatchStatus, Advance, WorkStages
    <2> QED BY <1>2, <2>1, PassKeeps, QueueKept DEF ReconcileDelete, Get, GetNotFound, Crash
  <1>3. CASE DeliverHorizon
    BY <1>3, DeliverHorizonStep DEF DeliverHorizon, Enqueue
  <1>4. CASE EditSpec \/ DeleteHorizon \/ Elsewhere \/ UNCHANGED vars
    <2>1. UNCHANGED <<seen, pc, before, instance>>
      BY <1>4, EditSpecStep, DeleteHorizonStep, ElsewhereStep, StutterLemma
    <2> QED BY <1>4, <2>1, QueueKept DEF Get, GetNotFound, Crash
  <1>5. CASE GetNotFound \/ Crash
    BY <1>5 DEF GetNotFound, Crash, workerVars
  <1> QED BY <1>1, <1>2, <1>3, <1>4, <1>5, NextCases

\* What a metadata patch that worked has done.
LEMMA MetadataWorks ==
  ASSUME Typed, PatchMetadata, pc' # "idle"
  PROVE  /\ pc = "patch" /\ pc' = "status"
         /\ instance' = Mirrored(instance) /\ instance'.finalizer = instance.finalizer
         /\ pass' = pass /\ before' = before
         /\ instance.finalizer # before.finalizer /\ cr'.life # "gone"
              => cr'.finalizer = instance.finalizer
  <1>1. /\ pc = "patch" /\ pc' = "status"
        /\ instance' = Mirrored(instance) /\ pass' = pass /\ before' = before
        /\ cr' = IF instance.finalizer # before.finalizer /\ cr.life # "gone"
                 THEN WithFinalizer(cr, instance.finalizer) ELSE cr
    BY DEF PatchMetadata, GoOn, EndPass
  <1>2. instance'.finalizer = instance.finalizer
    BY <1>1, PatchMetadataStep
  <1>3. instance.finalizer \in BOOLEAN /\ cr \in Horizons
    BY <1>1, Generations DEF Typed, TypeOK
  <1> QED BY <1>1, <1>2, <1>3, FinalizerLemma

\* Only the patch of the metadata leads to that of the status.
LEMMA NextFinalizerWritten ==
  ASSUME Typed, FinalizerWritten, [Next]_vars
  PROVE  FinalizerWritten'
  <1> USE DEF FinalizerWritten
  <1>1. CASE PatchMetadata
    BY <1>1, MetadataWorks DEF EndPass
  <1>2. CASE ReconcileDelete \/ Stage
    BY <1>2, StageLemma, ReconcileDeleteStep DEF Advance, WorkStages
  <1>3. CASE Get
    BY <1>3, GetStep DEF FirstStage
  <1>4. CASE PatchStatus \/ Crash \/ GetNotFound
    BY <1>4, PatchStatusStep DEF Crash, GetNotFound, workerVars
  <1>5. CASE EditSpec \/ DeleteHorizon \/ DeliverHorizon \/ Elsewhere \/ UNCHANGED vars
    <2>1. /\ UNCHANGED <<pc, before, instance>>
          /\ cr'.finalizer = cr.finalizer /\ (cr.life = "gone" => cr'.life = "gone")
      BY <1>5, EditSpecStep, DeleteHorizonStep, DeliverHorizonStep, ElsewhereStep,
         StutterLemma DEF DeleteHorizon
    <2> QED BY <2>1
  <1> QED BY <1>1, <1>2, <1>3, <1>4, <1>5, NextCases

-----------------------------------------------------------------------------
(* What may happen around a pass, or a rest, without a request.              *)

Around == DeliverHorizon \/ EditSpec \/ DeleteHorizon \/ Elsewhere \/ UNCHANGED vars

\* The inputs that concern the spec s keep their contents.
InputsKept(s) ==
  /\ s.secret => inputs'.secret = inputs.secret
  /\ s.ca => inputs'.ca = inputs.ca
  /\ s.tls => inputs'.cert = inputs.cert
  /\ s.networks => inputs'.nad = inputs.nad
  /\ inputs'.keystone = inputs.keystone
  /\ inputs'.memcached = inputs.memcached
  /\ inputs'.services = inputs.services
  /\ s.topologyRef # None => topologies'[s.topologyRef] = topologies[s.topologyRef]

\* As long as the key is not queued nothing has changed that concerns the
\* cached object, owned objects apart, and these are news.
LEMMA AroundQuietly ==
  ASSUME Typed, Around, ~queued'
  PROVE  /\ ~queued /\ UNCHANGED <<timer, seen, protected>> /\ OwnedKept
         /\ seen.life # "gone" => InputsKept(seen.spec)
  <1>0. UNCHANGED <<inputs, topologies>> => InputsKept(seen.spec)
    BY DEF InputsKept
  <1>1. UNCHANGED <<ownedVars, copies>> => OwnedKept
    BY DEF OwnedKept, ownedVars, copies
  <1>2. ~DeliverHorizon /\ ~TimerFires /\ (\A k \in OwnedKinds : ~DeliverOwned(k))
    BY DEF DeliverHorizon, TimerFires, DeliverOwned, Enqueue
  <1>3. CASE EditSpec \/ DeleteHorizon \/ UNCHANGED vars
    <2>1. UNCHANGED <<queued, timer, inputs, topologies, seen, protected, ownedVars, copies>>
      BY <1>3 DEF EditSpec, DeleteHorizon, vars, topoVars, cacheVars, queueVars
    <2> QED BY <1>0, <1>1, <2>1
  <1>4. CASE Writes
    <2>1. OwnedEvents /\ UNCHANGED <<topologies, protected, inputs, seen>>
      BY <1>4, WritesHeard
    <2>2. ~queued /\ OwnedKept /\ timer' = timer
      BY <2>1, OwnedEventsKeep
    <2> QED BY <1>0, <2>1, <2>2
  <1>5. CASE ChangeTopology
    <2>1. PICK t \in Topologies :
            /\ \E v \in Versions \ {topologies[t]} : topologies' = [topologies EXCEPT ![t] = v]
            /\ Enqueue(seen.life # "gone" /\ seen.spec.topologyRef = t)
      BY <1>5 DEF ChangeTopology
    <2>2. /\ UNCHANGED <<inputs, protected, seen, ownedVars, copies>>
          /\ topologies \in [Topologies -> Versions]
          /\ seen.spec.topologyRef \in Topologies \cup {None}
      BY <1>5 DEF ChangeTopology, cacheVars, Typed, TypeOK, Horizons, HorizonSpecs
    <2>3. ~queued /\ timer' = timer /\ (seen.life # "gone" => seen.spec.topologyRef # t)
      BY <2>1 DEF Enqueue
    <2>4. seen.life # "gone" /\ seen.spec.topologyRef # None
            => topologies'[seen.spec.topologyRef] = topologies[seen.spec.topologyRef]
      BY <2>1, <2>2, <2>3
    <2> QED BY <1>1, <2>2, <2>3, <2>4 DEF InputsKept
  <1>6. CASE ChangeInput
    <2>1. PICK f \in Volatile :
            /\ \E v \in InputValues(f) \ {inputs[f]} : inputs' = [inputs EXCEPT ![f] = v]
            /\ Enqueue(Requests(f))
      BY <1>6 DEF ChangeInput
    <2>2. ~queued /\ timer' = timer /\ ~Requests(f) /\ f \in InputNames
      BY <2>1, ConstantAssumptions DEF Enqueue, ConstantAssumptions
    <2>3. inputs \in Inputs
      BY DEF Typed, TypeOK
    <2>4. \A g \in InputNames : g # f => inputs'[g] = inputs[g]
      BY <2>1, <2>3 DEF Inputs, InputNames
    <2>5. UNCHANGED <<topologies, protected, seen, ownedVars, copies>>
      BY <1>6 DEF ChangeInput, topoVars, cacheVars
    <2>6. seen.life # "gone" => InputsKept(seen.spec)
      BY <2>2, <2>4, <2>5 DEF Requests, Concerns, InputsKept, InputNames
    <2> QED BY <1>1, <2>2, <2>3, <2>5, <2>6
  <1> QED BY <1>2, <1>3, <1>4, <1>5, <1>6 DEF Around, Elsewhere, Writes

\* Around a pass nothing touches what it holds, nor the finalizers of Topologies.
LEMMA AroundStep ==
  ASSUME Typed, Around
  PROVE  /\ Typed' /\ UNCHANGED <<pc, before, instance, pass, protected>>
         /\ queued => queued'
  <1>1. Outside \/ UNCHANGED vars
    BY DEF Around, Elsewhere, DeliverHorizon, EditSpec, DeleteHorizon, TimerFires,
       DeliverOwned, RollOut, CollectGarbage, ChangeInput, ChangeTopology, LoseOwned,
       PodFails
  <1>2. UNCHANGED <<pc, before, instance, pass>>
    BY <1>1 DEF Outside, vars, workerVars
  <1> QED
    BY <1>2, ElsewhereStep, DeliverHorizonStep, EditSpecStep, DeleteHorizonStep,
       StutterLemma, AroundQuietly DEF Around, Typed, TypeOK

-----------------------------------------------------------------------------
(* What a pass has found stays true, or the key is queued.                   *)

\* What others do leaves a pass alone, and what it has found holds or queues it.
LEMMA AroundPass ==
  ASSUME Typed, Guarded, Copied, Findings, Around
  PROVE  Findings'
  <1>1. UNCHANGED <<pc, before, instance, pass, protected>>
    BY AroundStep
  <1>2. /\ WorkStages' = WorkStages
        /\ Completed' <=> Completed
        /\ \A st : Past(st)' <=> Past(st)
    BY <1>1 DEF Completed, Past, WorkStages
  <1>3. NotYet'
    BY <1>1 DEF Findings, NotYet
  <1>4. ~queued' /\ pc # "idle" /\ before.life = "live" =>
          ~queued /\ OwnedKept /\ InputsKept(instance.spec)
    BY AroundQuietly DEF Copied
  <1>5. /\ pc \in WorkStages => pc # "idle" /\ before.life = "live"
        /\ Completed => pc # "idle" /\ before.life = "live"
    BY DEF Guarded, PassGuarded, Findings, Holds, VerifyHolds, Completed, WorkStages
  <1>6. \A st : Past(st) /\ ~queued' => ~queued /\ OwnedKept /\ InputsKept(instance.spec)
    BY <1>4, <1>5 DEF Past
  <1>7. Holds'
    <2> USE DEF Findings, Holds, InputsKept, OwnedKept, Unheard
    <2>1. RbacHolds' /\ SecretHolds' /\ MemcachedHolds'
      BY <1>1, <1>2, <1>6 DEF RbacHolds, SecretHolds, MemcachedHolds, Told
    <2>2. CAHolds' /\ CertHolds' /\ ConfigHolds'
      BY <1>1, <1>2, <1>6 DEF CAHolds, CertHolds, ConfigHolds, RenderedFor, Told
    <2>3. KeyHolds' /\ HashHolds' /\ ServicesHold'
      BY <1>1, <1>2, <1>6 DEF KeyHolds, HashHolds, ServicesHold, Told
    <2>4. InitHolds' /\ NADHolds' /\ TopologyHolds'
      BY <1>1, <1>2, <1>6 DEF InitHolds, NADHolds, TopologyHolds, Constraints, Told
    <2>5. DeployHolds'
      BY <1>1, <1>2, <1>6 DEF DeployHolds
    <2>6. VerifyHolds'
      BY <1>1, <1>2, <1>4, <1>5 DEF VerifyHolds, Told, Completed
    <2> QED BY <2>1, <2>2, <2>3, <2>4, <2>5, <2>6
  <1>8. Stopped'
    BY <1>1, <1>4 DEF Findings, Stopped, Waiting, Told, LacksTLS, InputsKept
  <1> QED BY <1>3, <1>7, <1>8 DEF Findings

\* A pass that returns an error, or asks to be called again, claims nothing.
LEMMA ReturnedPass ==
  ASSUME pc' = "patch", pass'.result # "done"
  PROVE  Findings'
  BY DEF Findings, NotYet, Holds, Stopped, Completed, Past, WorkStages, RbacHolds,
     SecretHolds, MemcachedHolds, CAHolds, CertHolds, ConfigHolds, KeyHolds, HashHolds,
     ServicesHold, InitHolds, NADHolds, TopologyHolds, DeployHolds, VerifyHolds

\* A stage that returns with an error or a requeue leaves a pass with no claims.
LEMMA ReturnedBad ==
  ASSUME Typed, NEW i, NEW r \in {"error", "later"}, Return(r, i)
  PROVE  Findings'
  <1>1. pass \in Passes
    BY DEF Typed, TypeOK
  <1>2. pc' = "patch" /\ pass'.result = r
    BY <1>1 DEF Return, GoOn, Passes
  <1> QED BY <1>2, ReturnedPass

\* The object in memory after a stage that marks a condition, and goes on.
Marking(c) ==
  /\ instance'.spec = instance.spec
  /\ instance'.status.hash = instance.status.hash
  /\ instance'.status.endpoint = instance.status.endpoint
  /\ instance'.status.topology = instance.status.topology
  /\ instance'.status.readyCount = instance.status.readyCount
  /\ \A x \in CondTypes :
       instance'.status.conds[x] = IF x = c THEN "True" ELSE instance.status.conds[x]

\* To mark a condition touches no other field of the status, and no other
\* condition.
LEMMA MarkFields ==
  ASSUME NEW i \in Horizons, NEW c \in CondTypes, NEW s \in CondStatus
  PROVE  /\ Mark(i, c, s).status.hash = i.status.hash
         /\ Mark(i, c, s).status.endpoint = i.status.endpoint
         /\ Mark(i, c, s).status.topology = i.status.topology
         /\ Mark(i, c, s).status.readyCount = i.status.readyCount
         /\ \A x \in CondTypes :
              Mark(i, c, s).status.conds[x] = IF x = c THEN s ELSE i.status.conds[x]
  <1>1. i.status \in Statuses /\ i.status.conds \in [CondTypes -> CondStatus]
    BY DEF Horizons, Statuses
  <1>2. Mark(i, c, s).status = [i.status EXCEPT !.conds = [i.status.conds EXCEPT ![c] = s]]
    BY DEF Mark, Horizons
  <1>3. \A x \in CondTypes : [i.status.conds EXCEPT ![c] = s][x]
                                = IF x = c THEN s ELSE i.status.conds[x]
    BY <1>1
  <1> DEFINE conds == [i.status.conds EXCEPT ![c] = s]
  <1>4. Mark(i, c, s).status = [i.status EXCEPT !.conds = conds]
    BY <1>2
  <1> HIDE DEF conds
  <1>5. /\ Mark(i, c, s).status.hash = i.status.hash
        /\ Mark(i, c, s).status.endpoint = i.status.endpoint
        /\ Mark(i, c, s).status.topology = i.status.topology
        /\ Mark(i, c, s).status.readyCount = i.status.readyCount
        /\ Mark(i, c, s).status.conds = conds
    BY <1>1, <1>4 DEF Statuses
  <1> QED BY <1>3, <1>5 DEF conds

\* A marked condition has the value it was marked with.
LEMMA MarkMarks ==
  ASSUME Typed, pc # "idle", NEW c \in CondTypes, instance' = Mark(instance, c, "True")
  PROVE  Marking(c)
  <1>1. instance \in Horizons /\ "True" \in CondStatus
    BY DEF Typed, TypeOK, CondStatus
  <1> QED BY <1>1, MarkFields, MarkLemma DEF Marking

\* What the pass has collected after a stage that adds v.
Adding(f, v) ==
  /\ pass'[f] = v
  /\ \A g \in {"secret", "memcached", "ca", "cert", "config", "key", "services", "networks",
               "topology", "depl", "result"} \ {f} : pass'[g] = pass[g]

\* What is recorded in one field of a pass leaves the other fields.
LEMMA PassFields ==
  ASSUME pass \in Passes, NEW v
  PROVE  /\ pass' = [pass EXCEPT !.secret = v] => Adding("secret", v)
         /\ pass' = [pass EXCEPT !.memcached = v] => Adding("memcached", v)
         /\ pass' = [pass EXCEPT !.ca = v] => Adding("ca", v)
         /\ pass' = [pass EXCEPT !.cert = v] => Adding("cert", v)
         /\ pass' = [pass EXCEPT !.config = v] => Adding("config", v)
         /\ pass' = [pass EXCEPT !.key = v] => Adding("key", v)
         /\ pass' = [pass EXCEPT !.services = v] => Adding("services", v)
         /\ pass' = [pass EXCEPT !.networks = v] => Adding("networks", v)
         /\ pass' = [pass EXCEPT !.topology = v] => Adding("topology", v)
         /\ pass' = [pass EXCEPT !.depl = v] => Adding("depl", v)
         /\ pass' = [pass EXCEPT !.result = v] => Adding("result", v)
  BY DEF Passes, Adding

\* An object j that differs from i in one field of the status.
Setting(i, j, f, v) ==
  /\ j.spec = i.spec /\ j.status[f] = v
  /\ \A g \in {"conds", "hash", "endpoint", "topology", "readyCount"} \ {f} :
       j.status[g] = i.status[g]

\* The same for the fields of the status in memory.
LEMMA StatusFields ==
  ASSUME NEW i \in Horizons, NEW v
  PROVE  /\ Setting(i, [i EXCEPT !.status.hash = v], "hash", v)
         /\ Setting(i, [i EXCEPT !.status.endpoint = v], "endpoint", v)
         /\ Setting(i, [i EXCEPT !.status.topology = v], "topology", v)
         /\ Setting(i, [i EXCEPT !.status.readyCount = v], "readyCount", v)
  <1>1. i.status \in Statuses
    BY DEF Horizons
  <1>2. /\ [i EXCEPT !.status.hash = v].status = [i.status EXCEPT !.hash = v]
        /\ [i EXCEPT !.status.endpoint = v].status = [i.status EXCEPT !.endpoint = v]
        /\ [i EXCEPT !.status.topology = v].status = [i.status EXCEPT !.topology = v]
        /\ [i EXCEPT !.status.readyCount = v].status = [i.status EXCEPT !.readyCount = v]
    BY DEF Horizons
  <1>3. /\ [i EXCEPT !.status.hash = v].spec = i.spec
        /\ [i EXCEPT !.status.endpoint = v].spec = i.spec
        /\ [i EXCEPT !.status.topology = v].spec = i.spec
        /\ [i EXCEPT !.status.readyCount = v].spec = i.spec
    BY DEF Horizons
  <1> QED BY <1>1, <1>2, <1>3 DEF Setting, Statuses

\* A patch that is computed on what the server holds gives what was wanted.
LEMMA PatchGives ==
  ASSUME NEW new \in Templates, NEW d \in Deployments
  PROVE  Patch(d.template, new, d).template = new
  <1>1. PatchedTemplate(d.template, new, d.template) = new
    BY DEF PatchedTemplate, Patched, Templates, Deployments
  <1> QED BY <1>1 DEF Patch, Deployments

\* The same for the files of the ConfigMap.
LEMMA PatchedConfigGives ==
  ASSUME NEW new \in Configs, NEW c \in Configs
  PROVE  PatchedConfig(c, new, c) = new
  BY DEF PatchedConfig, Patched, Configs

\* A stage that writes while nothing is queued or due has written nothing new.
LEMMA WritesQuietly ==
  ASSUME ClusterFits, Writes, ~queued'
  PROVE  /\ ~queued /\ OwnedKept
         /\ "Rbac" \notin news' => shown.Rbac = rbac'
         /\ "ConfigMap" \notin news' => shown.ConfigMap = configMap'
         /\ "Secret" \notin news' => shown.Secret = secretKey'
         /\ "Service" \notin news' => shown.Service = service'
         /\ "Deployment" \notin news' => shown.Deployment = deployment'
  BY WritesHeard, OwnedEventsKeep, ShownKinds DEF ClusterFits, OwnedKept

\* What the ConfigMap stage leaves behind when it goes on.
LEMMA Configuring ==
  ASSUME Typed, ClusterFits, GenerateConfigMaps
  PROVE  \/ Return("error", Mark(instance, "ServiceConfig", "False"))
         \/ \E c \in Configs :
              /\ inputs.keystone # 0 /\ GoOn("key", instance, [pass EXCEPT !.config = c])
              /\ ~queued' /\ "ConfigMap" \notin news'
                   => configMap' = c /\ c = Render(instance, pass)
  <1> DEFINE new == Render(instance, pass)
             patched == PatchedConfig(shown.ConfigMap, new, configMap)
             bad == Mark(instance, "ServiceConfig", "False")
  <1>1. pc = "config" /\ pc \in WorkStages
    BY DEF GenerateConfigMaps, WorkStages
  <1>2. /\ instance \in Horizons /\ pass \in Passes /\ inputs \in Inputs
        /\ configMap \in Configs \cup {None} /\ shown.ConfigMap \in Configs \cup {None}
    BY <1>1, StageTyped, ShownTyped DEF ClusterTyped
  <1>3. new \in Configs
    BY <1>2, RenderLemma
  <1>4. ~queued' /\ "ConfigMap" \notin news'
          => shown.ConfigMap = configMap' /\ configMap' = configMap
    BY WritesQuietly DEF Writes, OwnedKept
  <1>5. ~Refused("ConfigMap") => (shown.ConfigMap = None <=> configMap = None)
    BY DEF Refused, Absent, Made
  <1>6. shown.ConfigMap # None /\ ~Refused("ConfigMap") => patched \in Configs
    BY <1>2, <1>3, <1>5, PatchedConfigLemma
  <1>7. shown.ConfigMap # None /\ shown.ConfigMap = configMap => patched = new
    BY <1>2, <1>3, PatchedConfigGives
  <1> HIDE DEF new, patched, bad
  <1>8. \/ /\ inputs.keystone # 0 /\ shown.ConfigMap = new /\ UNCHANGED configMap
           /\ GoOn("key", instance, [pass EXCEPT !.config = new])
        \/ /\ inputs.keystone # 0 /\ ~Refused("ConfigMap") /\ shown.ConfigMap = None
           /\ configMap' = new /\ GoOn("key", instance, [pass EXCEPT !.config = new])
        \/ /\ inputs.keystone # 0 /\ ~Refused("ConfigMap") /\ shown.ConfigMap # None
           /\ configMap' = patched /\ GoOn("key", instance, [pass EXCEPT !.config = patched])
        \/ Return("error", bad)
    BY DEF GenerateConfigMaps, new, patched, bad
  <1>9. CASE /\ inputs.keystone # 0 /\ shown.ConfigMap # None /\ ~Refused("ConfigMap")
             /\ configMap' = patched /\ GoOn("key", instance, [pass EXCEPT !.config = patched])
    <2>1. ~queued' /\ "ConfigMap" \notin news' => configMap' = patched /\ patched = new
      BY <1>4, <1>7, <1>9
    <2> QED BY <1>6, <1>9, <2>1 DEF new
  <1>10. CASE /\ inputs.keystone # 0 /\ GoOn("key", instance, [pass EXCEPT !.config = new])
              /\ configMap' = new \/ (configMap' = configMap /\ shown.ConfigMap = new)
    <2>1. ~queued' /\ "ConfigMap" \notin news' => configMap' = new
      BY <1>4, <1>10
    <2> QED BY <1>3, <1>10, <2>1 DEF new
  <1> QED BY <1>8, <1>9, <1>10 DEF bad

\* The template depends on the spec and on what the pass has collected, not on
\* the Deployment it has found.
LEMMA SameTemplate ==
  ASSUME instance'.spec = instance.spec, NEW d, Adding("depl", d)
  PROVE  DeploymentTemplate(instance, pass)' = DeploymentTemplate(instance, pass)
  BY DEF Adding, DeploymentTemplate, InputHash

\* What the Deployment stage leaves behind when it goes on.
LEMMA Deploying ==
  ASSUME Typed, ClusterFits, CreateOrPatchDeployment
  PROVE  \/ \E r \in {"error", "later"} : Return(r, Mark(instance, "Deployment", "False"))
         \/ \E d \in Deployments :
              /\ Deployed(d)
              /\ ~queued' /\ "Deployment" \notin news'
                   => d = deployment' /\ d.template = DeploymentTemplate(instance, pass)
  <1> DEFINE new == DeploymentTemplate(instance, pass)
             bad == Mark(instance, "Deployment", "False")
             fresh == [template |-> new, rollout |-> "unseen", up |-> 0]
             patched == Patch(shown.Deployment.template, new, deployment)
             written == IF shown.Deployment = None THEN fresh ELSE patched
  <1>1. pc = "deploy" /\ pc \in WorkStages /\ pc \in ConfigStages
    BY DEF CreateOrPatchDeployment, WorkStages, ConfigStages
  <1>2. /\ instance \in Horizons /\ pass \in Passes /\ pass.config \in Configs
        /\ deployment \in Deployments \cup {None}
        /\ shown.Deployment \in Deployments \cup {None}
    BY <1>1, StageTyped, ShownTyped DEF ClusterTyped
  <1>3. new \in Templates
    BY <1>2, TemplateLemma
  <1>4. ~Refused("Deployment") => written \in Deployments
    BY <1>1, WrittenDeployment
  <1>5. ~queued' /\ "Deployment" \notin news' => shown.Deployment = deployment
    BY WritesQuietly DEF Writes, OwnedKept
  <1> HIDE DEF new
  <1>6. fresh.template = new
    OBVIOUS
  <1>7. shown.Deployment # None /\ shown.Deployment = deployment => patched.template = new
    BY <1>2, <1>3, PatchGives
  <1> HIDE DEF fresh, patched, bad
  <1>8. shown.Deployment = deployment => written.template = new
    BY <1>6, <1>7
  <1> HIDE DEF written
  <1>9. \/ \E r \in {"error", "later"} : Return(r, bad)
        \/ ~Refused("Deployment") /\ deployment' = written /\ Deployed(written)
    BY DEF CreateOrPatchDeployment, new, fresh, patched, written, bad
  <1>10. CASE ~Refused("Deployment") /\ deployment' = written /\ Deployed(written)
    <2>1. ~queued' /\ "Deployment" \notin news' => written = deployment' /\ written.template = new
      BY <1>5, <1>8, <1>10
    <2> QED BY <1>4, <1>10, <2>1 DEF new
  <1> QED BY <1>9, <1>10 DEF bad

\* An object j that differs from i in its conditions only, and there not in
\* those outside of cs.
Marked(i, j, cs) ==
  /\ j \in Horizons /\ j.spec = i.spec
  /\ j.status.hash = i.status.hash /\ j.status.endpoint = i.status.endpoint
  /\ j.status.topology = i.status.topology /\ j.status.readyCount = i.status.readyCount
  /\ \A x \in CondTypes \ cs : j.status.conds[x] = i.status.conds[x]

\* An object whose condition is marked keeps what Marked says, and shows it.
LEMMA MarkedLemma ==
  ASSUME NEW i \in Horizons, NEW c \in CondTypes, NEW s \in CondStatus
  PROVE  Marked(i, Mark(i, c, s), {c}) /\ Mark(i, c, s).status.conds[c] = s
  <1>1. Mark(i, c, s) \in Horizons /\ Mark(i, c, s).spec = i.spec
    BY MarkLemma
  <1>2. /\ Mark(i, c, s).status.hash = i.status.hash
        /\ Mark(i, c, s).status.endpoint = i.status.endpoint
        /\ Mark(i, c, s).status.topology = i.status.topology
        /\ Mark(i, c, s).status.readyCount = i.status.readyCount
        /\ \A x \in CondTypes :
             Mark(i, c, s).status.conds[x] = IF x = c THEN s ELSE i.status.conds[x]
    BY MarkFields
  <1> QED BY <1>1, <1>2 DEF Marked

\* What the last stage leaves behind when it reaches the end.
LEMMA Finishing ==
  ASSUME Typed, VerifyAndFinish, instance.status.conds["NetworkAttachments"] = "True"
  PROVE  \/ Return("error", Mark(instance, "NetworkAttachments", "False"))
         \/ /\ pc' = "patch" /\ pass' = [pass EXCEPT !.result = "done"]
            /\ instance.spec.replicas = 0 \/ TRUE \in NetworkReady(instance)
            /\ Marked(instance, instance', {"Ready", "Deployment"})
            /\ /\ IsReady(pass.depl)
               /\ \A x \in CondTypes \ {"Ready", "Deployment"} :
                    instance.status.conds[x] \in {"True", "Absent"}
               => instance'.status.conds["Ready"] = "True"
  <1> DEFINE nets == IF instance.spec.replicas = 0 THEN instance
                     ELSE Mark(instance, "NetworkAttachments", "True")
             ready == IF IsReady(pass.depl) THEN "True" ELSE "False"
             depl == Mark(nets, "Deployment", ready)
             fin == IF AllSubConditionIsTrue(depl.status.conds)
                    THEN Mark(depl, "Ready", "True") ELSE depl
  <1>1. instance \in Horizons
    BY DEF VerifyAndFinish, Typed, TypeOK
  <1>2. /\ "NetworkAttachments" \in CondTypes /\ "Deployment" \in CondTypes
        /\ "Ready" \in CondTypes /\ "True" \in CondStatus /\ ready \in CondStatus
    BY DEF CondTypes, ListedConds, CondStatus
  <1> HIDE DEF ready
  <1>3. Marked(instance, nets, {})
    <2>1. Marked(instance, instance, {})
      BY <1>1 DEF Marked
    <2>2. LET m == Mark(instance, "NetworkAttachments", "True")
          IN  /\ Marked(instance, m, {"NetworkAttachments"})
              /\ m.status.conds["NetworkAttachments"] = "True"
      BY <1>1, <1>2, MarkedLemma
    <2>3. Marked(instance, Mark(instance, "NetworkAttachments", "True"), {})
      BY <2>2 DEF Marked
    <2> QED BY <2>1, <2>3
  <1> HIDE DEF nets
  <1>4. Marked(nets, depl, {"Deployment"}) /\ depl.status.conds["Deployment"] = ready
    BY <1>2, <1>3, MarkedLemma DEF Marked
  <1> HIDE DEF depl
  <1>5. Marked(instance, depl, {"Deployment"})
    BY <1>3, <1>4 DEF Marked
  <1>6. /\ Marked(depl, Mark(depl, "Ready", "True"), {"Ready"})
        /\ Mark(depl, "Ready", "True").status.conds["Ready"] = "True"
    BY <1>2, <1>5, MarkedLemma DEF Marked
  <1>7. Marked(instance, fin, {"Ready", "Deployment"})
    BY <1>5, <1>6 DEF Marked
  <1>8. /\ IsReady(pass.depl)
        /\ \A x \in CondTypes \ {"Ready", "Deployment"} :
             instance.status.conds[x] \in {"True", "Absent"}
        => AllSubConditionIsTrue(depl.status.conds)
    BY <1>4, <1>5 DEF Marked, AllSubConditionIsTrue, SubConds, ready
  <1>9. \/ Return("error", Mark(instance, "NetworkAttachments", "False"))
        \/ /\ Return("done", fin)
           /\ instance.spec.replicas = 0 \/ TRUE \in NetworkReady(instance)
    BY DEF VerifyAndFinish, nets, ready, depl, fin
  <1> QED BY <1>6, <1>7, <1>8, <1>9 DEF Return, GoOn

\* Mirroring decides an overall state that is still open, and nothing else.
LEMMA MirroredLemma ==
  ASSUME NEW i \in Horizons
  PROVE  /\ Marked(i, Mirrored(i), {"Ready"})
         /\ i.status.conds["Ready"] = "True" => Mirrored(i).status.conds["Ready"] = "True"
         /\ i.status.conds["TLSInput"] = "False" /\ i.status.conds["Ready"] # "True"
              => Mirrored(i).status.conds["Ready"] # "True"
  <1> DEFINE s == Mirror(i.status.conds)
             m == Mark(i, "Ready", s)
  <1>1. "Ready" \in CondTypes /\ s \in CondStatus
    BY MirrorLemma DEF CondTypes, ListedConds
  <1>2. i.status.conds["TLSInput"] = "False" => s = "False"
    BY DEF Mirror, SubConds, CondTypes, ListedConds
  <1> HIDE DEF s
  <1>3. Marked(i, m, {"Ready"}) /\ m.status.conds["Ready"] = s
    BY <1>1, MarkedLemma
  <1>4. Mirrored(i) = IF i.status.conds["Ready"] = "Unknown" THEN m ELSE i
    BY DEF Mirrored, s
  <1>5. Marked(i, i, {"Ready"})
    BY DEF Marked
  <1> HIDE DEF m
  <1> QED BY <1>2, <1>3, <1>4, <1>5

-----------------------------------------------------------------------------
(* Stage by stage.                                                           *)

USE DEF Findings, NotYet, Holds, Stopped, Completed, Past, WorkStages, Told, RbacHolds,
  SecretHolds, MemcachedHolds, CAHolds, CertHolds, ConfigHolds, KeyHolds, HashHolds,
  ServicesHold, InitHolds, NADHolds, TopologyHolds, DeployHolds, VerifyHolds, Unheard,
  UpToRbac, UpToSecret, UpToMemcached, UpToCA, UpToCert, UpToConfig, UpToKey, UpToHash,
  UpToServices, UpToInit, UpToNAD, UpToRelease, UpToAcquire, UpToDeploy,
  CondTypes, ListedConds, Marking, Adding

\* What configureHorizonRbac establishes, and leaves of earlier findings.
LEMMA RbacFinds ==
  ASSUME Typed, ClusterFits, Findings, ReconcileRbac
  PROVE  Findings'
  <1>1. pc = "rbac" /\ before' = before
    BY DEF ReconcileRbac, Fixed
  <1>2. CASE GoOn("secret", Mark(instance, "Rbac", "True"), pass)
    <2>1. Marking("Rbac") /\ pc' = "secret" /\ pass' = pass
      BY <1>1, <1>2, MarkMarks DEF GoOn
    <2>2. rbac' = (rbac \/ ~shown.Rbac)
      BY <1>2 DEF ReconcileRbac, Return, GoOn
    <2>3. ~queued' /\ "Rbac" \notin news' => shown.Rbac = rbac'
      BY WritesQuietly DEF Writes
    <2>4. rbac' \in BOOLEAN /\ shown.Rbac \in BOOLEAN
      BY <2>2, ShownTyped DEF Typed, TypeOK
    <2>5. ~queued' /\ "Rbac" \notin news' => rbac'
      BY <2>2, <2>3, <2>4
    <2> QED BY <1>1, <1>2, <2>1, <2>5
  <1>3. CASE Return("error", Mark(instance, "Rbac", "False"))
    BY <1>3, ReturnedBad
  <1> QED BY <1>2, <1>3 DEF ReconcileRbac

\* What the check of the OpenStack secret establishes, and leaves of earlier findings.
LEMMA SecretFinds ==
  ASSUME Typed, Findings, CheckSecret
  PROVE  Findings'
  <1>1. pc = "secret" /\ pass \in Passes /\ UNCHANGED <<before, inputs, queued, news, rbac>>
    BY DEF CheckSecret, Reads, Unowned, Fixed, Typed, TypeOK, ownedVars, copies,
       queueVars
  <1>2. CASE /\ instance.spec.secret /\ inputs.secret # 0
             /\ GoOn("memcached", Mark(instance, "Input", "True"),
                     [pass EXCEPT !.secret = inputs.secret])
    <2>1. Marking("Input") /\ pc' = "memcached" /\ Adding("secret", inputs.secret)
      BY <1>1, <1>2, MarkMarks, PassFields DEF GoOn
    <2> QED BY <1>1, <1>2, <2>1
  <1>3. CASE \E r \in {"later", "error"} : Return(r, Mark(instance, "Input", "False"))
    BY <1>3, ReturnedBad
  <1> QED BY <1>2, <1>3 DEF CheckSecret

\* What the check of Memcached establishes, and leaves of earlier findings.
LEMMA MemcachedFinds ==
  ASSUME Typed, Findings, CheckMemcached
  PROVE  Findings'
  <1>1. pc = "memcached" /\ pass \in Passes /\ UNCHANGED <<before, inputs, queued, news, rbac>>
    BY DEF CheckMemcached, Reads, Unowned, Fixed, Typed, TypeOK, ownedVars, copies,
       queueVars
  <1>2. CASE /\ inputs.memcached # 0
             /\ GoOn("ca", Mark(instance, "Memcached", "True"),
                     [pass EXCEPT !.memcached = inputs.memcached])
    <2>1. Marking("Memcached") /\ pc' = "ca" /\ Adding("memcached", inputs.memcached)
      BY <1>1, <1>2, MarkMarks, PassFields DEF GoOn
    <2> QED BY <1>1, <1>2, <2>1
  <1>3. CASE \E r \in {"later", "error"} : Return(r, Mark(instance, "Memcached", "False"))
    BY <1>3, ReturnedBad
  <1> QED BY <1>2, <1>3 DEF CheckMemcached

\* A missing secret for TLS ends the pass: it waits for the secret's events.
LEMMA WaitsForTLS ==
  ASSUME Typed, Guarded, Findings, pc \in {"ca", "cert"}, UNCHANGED before,
         LacksTLS(instance.spec), UNCHANGED inputs,
         Return("done", Mark(instance, "TLSInput", "False"))
  PROVE  Findings'
  <1>1. pass \in Passes /\ instance \in Horizons /\ before.life = "live"
    BY DEF Typed, TypeOK, Guarded, PassGuarded
  <1>2. /\ pc' = "patch" /\ instance' = Mark(instance, "TLSInput", "False")
        /\ Adding("result", "done")
    BY <1>1, PassFields DEF Return, GoOn
  <1>3. /\ "TLSInput" \in CondTypes /\ "Ready" \in CondTypes /\ "TLSInput" # "Ready"
        /\ "False" \in CondStatus
    BY DEF CondStatus
  <1>4. instance'.spec = instance.spec
    BY <1>1, <1>2, <1>3, MarkLemma
  <1>5. \A x \in CondTypes : instance'.status.conds[x]
                               = IF x = "TLSInput" THEN "False" ELSE instance.status.conds[x]
    BY <1>1, <1>2, <1>3, MarkFields
  <1>6. /\ instance'.status.conds["TLSInput"] = "False"
        /\ instance'.status.conds["Ready"] = instance.status.conds["Ready"]
    BY <1>3, <1>5
  <1> QED BY <1>1, <1>2, <1>4, <1>6 DEF Waiting, LacksTLS

\* What the check of the CA bundle establishes, and leaves of earlier findings.
LEMMA CAFinds ==
  ASSUME Typed, Guarded, Findings, CheckCA
  PROVE  Findings'
  <1>1. pc = "ca" /\ pass \in Passes /\ UNCHANGED <<before, inputs, queued, news, rbac>>
    BY DEF CheckCA, Reads, Unowned, Fixed, Typed, TypeOK, ownedVars, copies,
       queueVars
  <1>2. CASE ~instance.spec.ca /\ GoOn("cert", instance, pass)
    BY <1>1, <1>2 DEF GoOn
  <1>3. CASE /\ instance.spec.ca /\ inputs.ca # 0
             /\ GoOn("cert", instance, [pass EXCEPT !.ca = inputs.ca])
    <2>1. instance' = instance /\ pc' = "cert" /\ Adding("ca", inputs.ca)
      BY <1>1, <1>3, PassFields DEF GoOn
    <2> QED BY <1>1, <1>3, <2>1
  <1>4. CASE /\ instance.spec.ca /\ inputs.ca = 0
             /\ Return("done", Mark(instance, "TLSInput", "False"))
    BY <1>1, <1>4, WaitsForTLS DEF LacksTLS
  <1>5. CASE Return("error", Mark(instance, "TLSInput", "False"))
    BY <1>5, ReturnedBad
  <1> QED BY <1>2, <1>3, <1>4, <1>5 DEF CheckCA

\* What the check of the certificate establishes, and leaves of earlier findings.
LEMMA CertFinds ==
  ASSUME Typed, Guarded, Findings, CheckCert
  PROVE  Findings'
  <1>1. pc = "cert" /\ pass \in Passes /\ UNCHANGED <<before, inputs, queued, news, rbac>>
    BY DEF CheckCert, Reads, Unowned, Fixed, Typed, TypeOK, ownedVars, copies,
       queueVars
  <1> DEFINE ok == Mark(instance, "TLSInput", "True")
  <1>2. CASE ~instance.spec.tls /\ GoOn("config", ok, pass)
    <2>1. Marking("TLSInput") /\ pc' = "config" /\ pass' = pass
      BY <1>1, <1>2, MarkMarks DEF GoOn
    <2> QED BY <1>1, <1>2, <2>1
  <1>3. CASE /\ instance.spec.tls /\ inputs.cert # 0
             /\ GoOn("config", ok, [pass EXCEPT !.cert = inputs.cert])
    <2>1. Marking("TLSInput") /\ pc' = "config"
      BY <1>1, <1>3, MarkMarks DEF GoOn
    <2>2. Adding("cert", inputs.cert)
      BY <1>1, <1>3, PassFields DEF GoOn
    <2> QED BY <1>1, <1>3, <2>1, <2>2
  <1>4. CASE /\ instance.spec.tls /\ inputs.cert = 0
             /\ Return("done", Mark(instance, "TLSInput", "False"))
    BY <1>1, <1>4, WaitsForTLS DEF LacksTLS
  <1>5. CASE Return("error", Mark(instance, "TLSInput", "False"))
    BY <1>5, ReturnedBad
  <1> QED BY <1>2, <1>3, <1>4, <1>5 DEF CheckCert

\* What generateServiceConfigMaps establishes, and leaves of earlier findings.
LEMMA ConfigFinds ==
  ASSUME Typed, ClusterFits, Findings, GenerateConfigMaps
  PROVE  Findings'
  <1>1. pc = "config" /\ pass \in Passes /\ UNCHANGED <<before, inputs>>
    BY DEF GenerateConfigMaps, Fixed, Typed, TypeOK
  <1>2. ~queued' => ~queued /\ ("Rbac" \notin news' => "Rbac" \notin news /\ rbac' = rbac)
    BY WritesQuietly DEF Writes, OwnedKept
  <1>3. CASE \E c \in Configs :
               /\ inputs.keystone # 0 /\ GoOn("key", instance, [pass EXCEPT !.config = c])
               /\ ~queued' /\ "ConfigMap" \notin news'
                    => configMap' = c /\ c = Render(instance, pass)
    <2> PICK c \in Configs :
               /\ inputs.keystone # 0 /\ GoOn("key", instance, [pass EXCEPT !.config = c])
               /\ ~queued' /\ "ConfigMap" \notin news'
                    => configMap' = c /\ c = Render(instance, pass)
      BY <1>3
    <2>1. instance' = instance /\ pc' = "key" /\ Adding("config", c)
      BY <1>1, PassFields DEF GoOn
    <2>2. Render(instance, pass) = RenderedFor(before.status.endpoint)'
      BY <1>1, <2>1 DEF Render, RenderedFor
    <2> QED BY <1>1, <1>2, <2>1, <2>2
  <1>4. CASE Return("error", Mark(instance, "ServiceConfig", "False"))
    BY <1>4, ReturnedBad
  <1> QED BY <1>3, <1>4, Configuring

\* What ensureHorizonSecret establishes, and leaves of earlier findings.
LEMMA KeyFinds ==
  ASSUME Typed, ClusterFits, Findings, EnsureHorizonSecret
  PROVE  Findings'
  <1>1. /\ pc = "key" /\ pass \in Passes /\ secretKey \in Nat /\ keysMade \in Nat
        /\ UNCHANGED <<before, inputs>>
    BY DEF EnsureHorizonSecret, Fixed, Typed, TypeOK
  <1>2. ~queued' =>
          /\ ~queued
          /\ "Rbac" \notin news' => "Rbac" \notin news /\ rbac' = rbac
          /\ "ConfigMap" \notin news' => "ConfigMap" \notin news /\ configMap' = configMap
          /\ "Secret" \notin news' => shown.Secret = secretKey'
    BY WritesQuietly DEF Writes, OwnedKept
  <1>3. CASE shown.Secret # 0 /\ GoOn("hash", instance, pass)
    BY <1>1, <1>2, <1>3 DEF GoOn, RenderedFor
  <1>4. CASE /\ shown.Secret = 0 /\ NewKey
             /\ GoOn("hash", instance, [pass EXCEPT !.key = keysMade'])
    <2>1. instance' = instance /\ pc' = "hash" /\ Adding("key", keysMade')
      BY <1>1, <1>4, PassFields DEF GoOn
    <2>2. queued' \/ "Secret" \in news'
      BY <1>1, <1>2, <1>4 DEF NewKey
    <2> QED BY <1>1, <1>2, <2>1, <2>2 DEF RenderedFor
  <1>5. CASE Return("error", Mark(instance, "ServiceConfig", "False"))
    BY <1>5, ReturnedBad
  <1> QED BY <1>3, <1>4, <1>5 DEF EnsureHorizonSecret

\* What the comparison of hashes establishes, and leaves of earlier findings.
LEMMA HashFinds ==
  ASSUME Typed, Findings, CheckHash
  PROVE  Findings'
  <1>1. /\ pc = "hash" /\ pass \in Passes /\ instance \in Horizons
        /\ UNCHANGED <<before, inputs, queued, news, rbac, configMap, secretKey, service>>
    BY DEF CheckHash, Reads, Unowned, Fixed, Typed, TypeOK, ownedVars, copies,
       queueVars
  <1>2. CASE GoOn("services", Mark(instance, "ServiceConfig", "True"), pass)
    <2>1. Marking("ServiceConfig") /\ pc' = "services" /\ pass' = pass
      BY <1>1, <1>2, MarkMarks DEF GoOn
    <2> QED BY <1>1, <2>1 DEF RenderedFor
  <1>3. CASE /\ instance.status.hash # InputHash(pass)
             /\ Return("done", [instance EXCEPT !.status.hash = InputHash(pass)])
    <2>1. /\ pc' = "patch" /\ pass' = [pass EXCEPT !.result = "done"]
          /\ instance' = [instance EXCEPT !.status.hash = InputHash(pass)]
      BY <1>3 DEF Return, GoOn
    <2>2. Adding("result", "done")
      BY <1>1, <2>1, PassFields
    <2>3. Setting(instance, instance', "hash", InputHash(pass))
      BY <1>1, <2>1, StatusFields
    <2>4. instance'.status.hash = InputHash(pass)
      BY <2>3 DEF Setting
    <2> QED BY <1>1, <1>3, <2>1, <2>2, <2>4
  <1> QED BY <1>2, <1>3 DEF CheckHash

\* What the choice of the keystone services establishes, and leaves of earlier
\* findings.
LEMMA ServicesFind ==
  ASSUME Typed, Findings, CheckKeystoneServices
  PROVE  Findings'
  <1>1. /\ pc = "services" /\ pass \in Passes
        /\ UNCHANGED <<before, inputs, queued, news, rbac, configMap, secretKey, service>>
    BY DEF CheckKeystoneServices, Reads, Unowned, Fixed, Typed, TypeOK, ownedVars, copies,
       queueVars
  <1>2. CASE GoOn("init", instance, [pass EXCEPT !.services = inputs.services])
    <2>1. instance' = instance /\ pc' = "init" /\ Adding("services", inputs.services)
      BY <1>1, <1>2, PassFields DEF GoOn
    <2> QED BY <1>1, <2>1 DEF RenderedFor
  <1>3. CASE Return("error", instance)
    BY <1>3, ReturnedBad
  <1> QED BY <1>2, <1>3 DEF CheckKeystoneServices

\* What reconcileInit establishes, and leaves of earlier findings.
LEMMA InitFinds ==
  ASSUME Typed, ClusterFits, Findings, ReconcileInit
  PROVE  Findings'
  <1> DEFINE marked == Mark(instance, "CreateService", "True")
             e == APIEndpoint(instance.spec)
             wanted == IF instance.spec.tls THEN "https" ELSE "http"
  <1>1. pc = "init" /\ instance \in Horizons /\ UNCHANGED <<before, inputs>>
    BY DEF ReconcileInit, Fixed, Typed, TypeOK
  <1>0. ~queued' =>
          /\ ~queued
          /\ "Rbac" \notin news' => "Rbac" \notin news /\ rbac' = rbac
          /\ "ConfigMap" \notin news' => "ConfigMap" \notin news /\ configMap' = configMap
          /\ "Secret" \notin news' => "Secret" \notin news /\ secretKey' = secretKey
          /\ "Service" \notin news' => shown.Service = service'
    BY WritesQuietly DEF Writes, OwnedKept
  <1>2. CASE /\ service' = (IF shown.Service = wanted THEN service ELSE wanted)
             /\ GoOn("nad", [marked EXCEPT !.status.endpoint = e], pass)
    <2>1. "CreateService" \in CondTypes /\ "True" \in CondStatus
      BY DEF CondStatus
    <2>2. marked \in Horizons /\ marked.spec = instance.spec
      BY <1>1, <2>1, MarkLemma
    <2>3. \A x \in CondTypes : marked.status.conds[x]
                                 = IF x = "CreateService" THEN "True" ELSE instance.status.conds[x]
      BY <1>1, <2>1, MarkFields
    <2>4. marked.status.hash = instance.status.hash
      BY <1>1, <2>1, MarkFields
    <2> HIDE DEF marked, e
    <2>5. /\ pc' = "nad" /\ pass' = pass
          /\ instance' = [marked EXCEPT !.status.endpoint = e]
      BY <1>2 DEF GoOn
    <2>6. Setting(marked, instance', "endpoint", e)
      BY <2>2, <2>5, StatusFields
    <2>7. /\ instance'.status.endpoint = e /\ instance'.spec = marked.spec
          /\ instance'.status.hash = marked.status.hash
          /\ instance'.status.conds = marked.status.conds
      BY <2>6 DEF Setting
    <2>8. \A x \in CondTypes : instance'.status.conds[x]
                                 = IF x = "CreateService" THEN "True" ELSE instance.status.conds[x]
      BY <2>3, <2>7
    <2>9. /\ instance'.status.endpoint = APIEndpoint(instance'.spec)
          /\ instance'.spec = instance.spec /\ instance'.status.hash = instance.status.hash
      BY <2>2, <2>4, <2>7 DEF e
    <2>10. ~queued' /\ "Service" \notin news' => service' = wanted
      BY <1>0, <1>2
    <2> QED BY <1>0, <1>1, <2>5, <2>8, <2>9, <2>10 DEF RenderedFor
  <1>3. CASE \E r \in {"error", "later"} : Return(r, Mark(instance, "CreateService", "False"))
    BY <1>3, ReturnedBad
  <1> QED BY <1>2, <1>3 DEF ReconcileInit

\* What ensureNAD establishes, and leaves of earlier findings.
LEMMA NADFinds ==
  ASSUME Typed, Findings, EnsureNAD
  PROVE  Findings'
  <1>1. /\ pc = "nad" /\ pass \in Passes
        /\ UNCHANGED <<before, inputs, queued, news, rbac, configMap, secretKey, service>>
    BY DEF EnsureNAD, Reads, Unowned, Fixed, Typed, TypeOK, ownedVars, copies,
       queueVars
  <1>2. \/ Return("error", Mark(instance, "NetworkAttachments", "False"))
        \/ \E nets \in {instance.spec.networks /\ inputs.nad = "ready", FALSE} :
             GoOn("release", Mark(instance, "NetworkAttachments", "True"),
                  [pass EXCEPT !.networks = nets])
    BY DEF EnsureNAD
  <1>3. CASE \E nets \in {instance.spec.networks /\ inputs.nad = "ready", FALSE} :
               GoOn("release", Mark(instance, "NetworkAttachments", "True"),
                    [pass EXCEPT !.networks = nets])
    <2>1. PICK nets \in {instance.spec.networks /\ inputs.nad = "ready", FALSE} :
            GoOn("release", Mark(instance, "NetworkAttachments", "True"),
                 [pass EXCEPT !.networks = nets])
      BY <1>3
    <2>2. Marking("NetworkAttachments") /\ pc' = "release"
      BY <1>1, <2>1, MarkMarks DEF GoOn
    <2>3. Adding("networks", nets)
      BY <1>1, <2>1, PassFields DEF GoOn
    <2>4. pass'.networks => instance.spec.networks /\ inputs.nad = "ready"
      BY <2>1, <2>3
    <2> HIDE DEF Adding
    <2>5. \A g \in {"secret", "memcached", "ca", "cert", "config", "key", "services",
                    "topology", "depl", "result"} : pass'[g] = pass[g]
      BY <2>3 DEF Adding
    <2> QED BY <1>1, <2>2, <2>4, <2>5 DEF RenderedFor
  <1>4. CASE Return("error", Mark(instance, "NetworkAttachments", "False"))
    BY <1>4, ReturnedBad
  <1> QED BY <1>2, <1>3, <1>4

\* What the release of a Topology establishes, and leaves of earlier findings.
LEMMA ReleaseFinds ==
  ASSUME Typed, Findings, ReleaseTopology
  PROVE  Findings'
  <1>1. /\ pc = "release"
        /\ UNCHANGED <<before, inputs, queued, news, rbac, configMap, secretKey, service>>
    BY DEF ReleaseTopology, Unowned, Fixed, ownedVars, copies, queueVars
  <1>2. CASE GoOn("acquire", instance, pass)
    BY <1>1, <1>2 DEF GoOn, RenderedFor
  <1>3. CASE Return("error", Mark(instance, "Topology", "False"))
    BY <1>3, ReturnedBad
  <1> QED BY <1>2, <1>3 DEF ReleaseTopology

\* What the acquisition of a Topology establishes, and leaves of earlier findings.
LEMMA AcquireFinds ==
  ASSUME Typed, Findings, AcquireTopology
  PROVE  Findings'
  <1> DEFINE ref == instance.spec.topologyRef
             recorded == Recorded(instance)
             marked == Mark(recorded, "Topology", "True")
  <1>1. /\ pc = "acquire" /\ instance \in Horizons /\ pass \in Passes
        /\ ref \in Topologies \cup {None}
        /\ UNCHANGED <<before, inputs, queued, news, rbac, configMap, secretKey, service,
                       topologies>>
    BY DEF AcquireTopology, Unowned, Fixed, Typed, TypeOK, Horizons, HorizonSpecs, ownedVars,
       copies, queueVars
  <1>2. Setting(instance, recorded, "topology", ref)
    BY <1>1, StatusFields DEF Recorded
  <1>3. recorded \in Horizons
    BY <1>1, StatusLemma DEF Recorded
  <1>4. /\ recorded.spec = instance.spec /\ recorded.status.topology = ref
        /\ recorded.status.endpoint = instance.status.endpoint
        /\ recorded.status.hash = instance.status.hash
        /\ recorded.status.conds = instance.status.conds
    BY <1>2 DEF Setting
  <1>5. /\ marked.spec = recorded.spec /\ marked.status.topology = recorded.status.topology
        /\ marked.status.endpoint = recorded.status.endpoint
        /\ marked.status.hash = recorded.status.hash
        /\ \A x \in CondTypes \ {"Topology"} :
             marked.status.conds[x] = recorded.status.conds[x]
    <2> HIDE DEF recorded
    <2>1. "Topology" \in CondTypes /\ "True" \in CondStatus
      BY DEF CondStatus
    <2>2. marked.spec = recorded.spec
      BY <1>3, <2>1, MarkLemma
    <2>3. /\ marked.status.topology = recorded.status.topology
          /\ marked.status.endpoint = recorded.status.endpoint
          /\ marked.status.hash = recorded.status.hash
      BY <1>3, <2>1, MarkFields
    <2>4. \A x \in CondTypes \ {"Topology"} :
            marked.status.conds[x] = recorded.status.conds[x]
      BY <1>3, <2>1, MarkFields
    <2> QED BY <2>2, <2>3, <2>4
  <1> HIDE DEF recorded, marked
  <1>6. CASE /\ instance' \in {recorded, marked} /\ pc' = "deploy"
             /\ pass' = pass \/ Adding("topology", pass'.topology)
             /\ pass'.topology = Constraints(instance.spec)
             /\ ref \in protected' \cup {None}
    <2>1. /\ instance'.spec = instance.spec /\ instance'.status.topology = ref
          /\ instance'.status.endpoint = instance.status.endpoint
          /\ instance'.status.hash = instance.status.hash
          /\ \A x \in CondTypes \ {"Topology"} :
               instance'.status.conds[x] = instance.status.conds[x]
      BY <1>4, <1>5, <1>6
    <2>2. pass'.topology = Constraints(instance.spec)'
      BY <1>1, <1>6, <2>1 DEF Constraints
    <2>3. \A g \in {"secret", "memcached", "ca", "cert", "config", "key", "services",
                    "networks", "depl", "result"} : pass'[g] = pass[g]
      BY <1>6
    <2> HIDE DEF Adding
    <2> QED BY <1>1, <1>6, <2>1, <2>2, <2>3 DEF RenderedFor
  <1>7. CASE Return("error", Mark(instance, "Topology", "False"))
    BY <1>7, ReturnedBad
  <1>8. CASE ref = None /\ UNCHANGED protected /\ GoOn("deploy", recorded, pass)
    BY <1>1, <1>6, <1>8 DEF GoOn, Constraints
  <1>9. CASE /\ ref # None /\ protected' = protected \cup {ref}
             /\ GoOn("deploy", marked, [pass EXCEPT !.topology = topologies[ref]])
    <2>1. Adding("topology", topologies[ref])
      BY <1>1, <1>9, PassFields DEF GoOn
    <2> QED BY <1>1, <1>6, <1>9, <2>1 DEF GoOn, Constraints
  <1> QED BY <1>7, <1>8, <1>9 DEF AcquireTopology, recorded, marked

\* The Deployment is what the pass asks for, unless news about it are due.
LEMMA DeployFinds ==
  ASSUME Typed, ClusterFits, Findings, CreateOrPatchDeployment
  PROVE  Findings'
  <1>1. /\ pc = "deploy" /\ instance \in Horizons /\ pass \in Passes
        /\ UNCHANGED <<before, inputs, protected, topologies>>
    BY DEF CreateOrPatchDeployment, Fixed, Typed, TypeOK
  <1>0. ~queued' => ~queued /\ OwnedKept
    BY WritesQuietly DEF Writes
  <1>2. CASE \E r \in {"error", "later"} : Return(r, Mark(instance, "Deployment", "False"))
    BY <1>2, ReturnedBad
  <1>3. CASE \E d \in Deployments :
               /\ Deployed(d)
               /\ ~queued' /\ "Deployment" \notin news'
                    => d = deployment' /\ d.template = DeploymentTemplate(instance, pass)
    <2> PICK d \in Deployments :
               /\ Deployed(d)
               /\ ~queued' /\ "Deployment" \notin news'
                    => d = deployment' /\ d.template = DeploymentTemplate(instance, pass)
      BY <1>3
    <2> DEFINE counted == [instance EXCEPT !.status.readyCount = d.up]
    <2>1. /\ pc' = "verify" /\ pass' = [pass EXCEPT !.depl = d]
          /\ instance' = IF d.rollout = "unseen" THEN instance ELSE counted
      BY DEF Deployed, GoOn
    <2>2. Adding("depl", d)
      BY <1>1, <2>1, PassFields
    <2>3. Setting(instance, counted, "readyCount", d.up)
      BY <1>1, StatusFields
    <2>4. /\ counted.spec = instance.spec /\ counted.status.readyCount = d.up
          /\ counted.status.conds = instance.status.conds
          /\ counted.status.hash = instance.status.hash
          /\ counted.status.endpoint = instance.status.endpoint
          /\ counted.status.topology = instance.status.topology
      BY <2>3 DEF Setting
    <2> HIDE DEF counted
    <2>5. /\ instance'.spec = instance.spec
          /\ d.rollout # "unseen" => instance'.status.readyCount = d.up
          /\ instance'.status.conds = instance.status.conds
          /\ instance'.status.hash = instance.status.hash
          /\ instance'.status.endpoint = instance.status.endpoint
          /\ instance'.status.topology = instance.status.topology
      BY <2>1, <2>4
    <2>6. DeploymentTemplate(instance, pass)' = DeploymentTemplate(instance, pass)
      BY <2>2, <2>5, SameTemplate
    <2>7. d # None /\ pass'.depl = d
      BY <2>2, NoneIsNothing DEF NoneIsNothing
    <2>8. DeployHolds'
      BY <2>5, <2>6, <2>7
    <2>9. \A g \in {"secret", "memcached", "ca", "cert", "config", "key", "services",
                    "networks", "topology", "result"} : pass'[g] = pass[g]
      BY <2>2
    <2> HIDE DEF DeployHolds, Adding
    <2>10. ConfigHolds' /\ TopologyHolds'
      BY <1>0, <1>1, <2>1, <2>5, <2>9 DEF OwnedKept, RenderedFor, Constraints
    <2> HIDE DEF ConfigHolds, TopologyHolds
    <2> QED BY <1>0, <1>1, <2>1, <2>5, <2>7, <2>8, <2>9, <2>10 DEF OwnedKept
  <1> QED BY <1>2, <1>3, Deploying

\* A pass that comes to its end has found all conditions true, and the
\* Deployment rolled out with the networks, unless something is due.
LEMMA VerifyFinds ==
  ASSUME Typed, Guarded, ClusterFits, TopologyHonest, Findings, VerifyAndFinish
  PROVE  Findings'
  <1>1. /\ pc = "verify" /\ instance \in Horizons /\ pass \in Passes
        /\ before.life = "live" /\ before.finalizer
        /\ UNCHANGED <<before, inputs, queued, rbac, configMap, secretKey, service,
                       protected, topologies, deployment, news>>
    BY DEF VerifyAndFinish, Reads, Unowned, Fixed, Typed, TypeOK, Guarded, PassGuarded,
       queueVars, ownedVars, copies
  <1>2. CASE Return("error", Mark(instance, "NetworkAttachments", "False"))
    BY <1>2, ReturnedBad
  <1>3. CASE /\ pc' = "patch" /\ pass' = [pass EXCEPT !.result = "done"]
             /\ instance.spec.replicas = 0 \/ TRUE \in NetworkReady(instance)
             /\ Marked(instance, instance', {"Ready", "Deployment"})
             /\ /\ IsReady(pass.depl)
                /\ \A x \in CondTypes \ {"Ready", "Deployment"} :
                     instance.status.conds[x] \in {"True", "Absent"}
                => instance'.status.conds["Ready"] = "True"
    <2>1. Adding("result", "done")
      BY <1>1, <1>3, PassFields
    <2>2. pc' = "patch" /\ pass'.result = "done" /\ pass.result = "done"
      BY <1>1, <1>3, <2>1
    <2>3. \A g \in {"secret", "memcached", "ca", "cert", "config", "key", "services",
                    "networks", "topology", "depl"} : pass'[g] = pass[g]
      BY <2>1
    <2>4. /\ instance'.spec = instance.spec
          /\ instance'.status.hash = instance.status.hash
          /\ instance'.status.endpoint = instance.status.endpoint
          /\ instance'.status.topology = instance.status.topology
          /\ instance'.status.readyCount = instance.status.readyCount
          /\ \A x \in CondTypes \ {"Ready", "Deployment"} :
               instance'.status.conds[x] = instance.status.conds[x]
      BY <1>3 DEF Marked
    <2>5. DeploymentTemplate(instance, pass)' = DeploymentTemplate(instance, pass)
      BY <2>3, <2>4 DEF DeploymentTemplate, InputHash
    <2>6. ASSUME ~queued, "Deployment" \notin news, deployment.rollout = "complete"
          PROVE  /\ AttachesNetworks(instance.spec) => pass.networks
                 /\ TopologyTold => instance'.status.conds["Ready"] = "True"
      <3>1. /\ deployment = pass.depl /\ deployment # None
            /\ deployment.template = DeploymentTemplate(instance, pass)
            /\ instance.status.readyCount = deployment.up
        BY <1>1, <2>6
      <3>2. /\ deployment.template.replicas = instance.spec.replicas
            /\ deployment.template.networks = pass.networks
        BY <3>1 DEF DeploymentTemplate
      <3>3. deployment.up = instance.spec.replicas
        BY <2>6, <3>1, <3>2 DEF ClusterFits, CompleteIsUp
      <3>4. AttachesNetworks(instance.spec) => pass.networks
        BY <1>3, <2>6, <3>1, <3>2, <3>3 DEF NetworkReady, AttachesNetworks
      <3>5. TopologyTold => \A x \in CondTypes \ {"Ready", "Deployment"} :
                               instance.status.conds[x] \in {"True", "Absent"}
        BY <1>1 DEF TopologyHonest
      <3>6. IsReady(pass.depl)
        BY <2>6, <3>1 DEF IsReady
      <3> QED BY <1>3, <3>4, <3>5, <3>6
    <2> HIDE DEF Adding
    <2>7. RbacHolds' /\ SecretHolds' /\ MemcachedHolds' /\ CAHolds' /\ CertHolds'
      BY <1>1, <2>2, <2>3, <2>4
    <2>8. ConfigHolds' /\ KeyHolds' /\ HashHolds' /\ ServicesHold' /\ InitHolds'
      BY <1>1, <2>2, <2>3, <2>4 DEF RenderedFor
    <2>9. NADHolds' /\ TopologyHolds'
      BY <1>1, <2>2, <2>3, <2>4 DEF Constraints
    <2>10. DeployHolds'
      BY <1>1, <2>2, <2>3, <2>4, <2>5
    <2>11. VerifyHolds'
      BY <1>1, <2>2, <2>3, <2>4, <2>6
    <2>12. pass'.depl # None
      BY <1>1, <2>3
    <2> HIDE DEF RbacHolds, SecretHolds, MemcachedHolds, CAHolds, CertHolds, ConfigHolds,
      KeyHolds, HashHolds, ServicesHold, InitHolds, NADHolds, TopologyHolds, DeployHolds,
      VerifyHolds
    <2> QED BY <2>2, <2>7, <2>8, <2>9, <2>10, <2>11, <2>12
  <1>4. instance.status.conds["NetworkAttachments"] = "True"
    BY <1>1
  <1> QED BY <1>2, <1>3, <1>4, Finishing

\* A pass that begins has found nothing yet; one that only initialises the
\* object has a change to write.
LEMMA GetFinds ==
  ASSUME Typed, Get
  PROVE  Findings'
  <1>1. /\ pc' = FirstStage(seen) /\ before' = seen
        /\ instance'.finalizer = (seen.finalizer \/ AddsFinalizer(seen))
    BY GetStep
  <1>2. /\ instance'.status.hash = seen.status.hash
        /\ instance'.status.endpoint = seen.status.endpoint
        /\ instance'.status.conds = InitConds(seen.status.conds)
        /\ pass' = NoPass
    BY GetFields
  <1>3. /\ NoPass.depl = None /\ NoPass.result = "done"
        /\ NoPass.ca = 0 /\ NoPass.cert = 0 /\ NoPass.key = 0 /\ NoPass.topology = 0
    BY DEF NoPass
  <1>4. /\ instance'.status.conds["Ready"] = "Unknown"
        /\ instance'.status.conds["Rbac"] = "Unknown"
    BY <1>2 DEF InitConds
  <1>5. CASE FirstStage(seen) = "patch"
    <2>1. AddsFinalizer(seen) \/ seen.status.conds["Rbac"] = "Absent"
      BY <1>5 DEF FirstStage, NoConds
    <2>2. Stopped'
      BY <1>1, <1>4, <2>1 DEF AddsFinalizer
    <2> QED BY <1>1, <1>2, <1>3, <1>5, <2>2
  <1>6. CASE FirstStage(seen) \in {"delete", "rbac"}
    BY <1>1, <1>2, <1>3, <1>4, <1>6
  <1> QED BY <1>5, <1>6 DEF FirstStage

\* A deletion finds nothing and claims nothing.
LEMMA DeleteFinds ==
  ASSUME Typed, Guarded, Findings, ReconcileDelete
  PROVE  Findings'
  <1>1. /\ pc = "delete" /\ before.life = "deleting" /\ before' = before
        /\ pass \in Passes /\ pass.depl = None
    BY DEF ReconcileDelete, Guarded, PassGuarded, Unowned, Fixed, Typed, TypeOK
  <1>2. CASE Return("error", instance)
    BY <1>2, ReturnedBad
  <1>3. CASE Return("done", [instance EXCEPT !.finalizer = FALSE])
    <2>1. pc' = "patch" /\ pass' = [pass EXCEPT !.result = "done"]
      BY <1>3 DEF Return, GoOn
    <2>2. pass'.depl = None
      BY <1>1, <2>1, PassFields
    <2> QED BY <1>1, <2>1, <2>2
  <1> QED BY <1>2, <1>3 DEF ReconcileDelete

\* The overall state that is written is the one the findings amount to.
LEMMA MetadataFinds ==
  ASSUME Typed, Findings, PatchMetadata
  PROVE  Findings'
  <1>1. CASE pc' = "idle"
    BY <1>1
  <1>2. CASE pc' # "idle"
    <2>1. /\ pc = "patch" /\ pc' = "status" /\ instance' = Mirrored(instance)
          /\ instance'.finalizer = instance.finalizer /\ pass' = pass /\ before' = before
      BY <1>2, MetadataWorks
    <2>2. UNCHANGED <<inputs, queued, rbac, configMap, secretKey, service, protected,
                      topologies, deployment, news>>
      BY <1>2 DEF PatchMetadata, EndPass, topoVars, ownedVars, cacheVars, copies, queueVars
    <2>3. /\ Marked(instance, instance', {"Ready"})
          /\ instance.status.conds["Ready"] = "True"
               => instance'.status.conds["Ready"] = "True"
          /\ instance.status.conds["TLSInput"] = "False"
             /\ instance.status.conds["Ready"] # "True"
               => instance'.status.conds["Ready"] # "True"
      BY <2>1, MirroredLemma DEF Typed, TypeOK
    <2>4. /\ instance'.spec = instance.spec
          /\ instance'.status.hash = instance.status.hash
          /\ instance'.status.endpoint = instance.status.endpoint
          /\ instance'.status.topology = instance.status.topology
          /\ instance'.status.readyCount = instance.status.readyCount
          /\ \A x \in CondTypes \ {"Ready"} :
               instance'.status.conds[x] = instance.status.conds[x]
      BY <2>3 DEF Marked
    <2>5. DeploymentTemplate(instance, pass)' = DeploymentTemplate(instance, pass)
      BY <2>1, <2>4 DEF DeploymentTemplate, InputHash
    <2>6. Stopped'
      BY <2>1, <2>2, <2>3, <2>4 DEF Waiting, LacksTLS
    <2> HIDE DEF Stopped
    <2>7. RbacHolds' /\ SecretHolds' /\ MemcachedHolds' /\ CAHolds' /\ CertHolds'
      BY <2>1, <2>2, <2>4
    <2>8. ConfigHolds' /\ KeyHolds' /\ HashHolds' /\ ServicesHold' /\ InitHolds'
      BY <2>1, <2>2, <2>4 DEF RenderedFor
    <2>9. NADHolds' /\ TopologyHolds'
      BY <2>1, <2>2, <2>4 DEF Constraints
    <2>10. DeployHolds'
      BY <2>1, <2>2, <2>4, <2>5
    <2>11. VerifyHolds'
      BY <2>1, <2>2, <2>3, <2>4
    <2>12. NotYet'
      BY <2>1
    <2> HIDE DEF RbacHolds, SecretHolds, MemcachedHolds, CAHolds, CertHolds, ConfigHolds,
      KeyHolds, HashHolds, ServicesHold, InitHolds, NADHolds, TopologyHolds, DeployHolds,
      VerifyHolds, NotYet
    <2> QED BY <2>6, <2>7, <2>8, <2>9, <2>10, <2>11, <2>12
  <1> QED BY <1>1, <1>2

\* Every finding of a pass survives every step of the loop, its own and those
\* of others.
LEMMA NextFinds ==
  ASSUME Typed, Guarded, Copied, ClusterFits, TopologyHonest, Findings, [Next]_vars
  PROVE  Findings'
  <1>1. CASE Around
    BY <1>1, AroundPass
  <1>2. CASE Stage
    BY <1>2, RbacFinds, SecretFinds, MemcachedFinds, CAFinds, CertFinds, ConfigFinds,
       KeyFinds, HashFinds, ServicesFind, InitFinds, NADFinds, ReleaseFinds, AcquireFinds,
       DeployFinds, VerifyFinds DEF Stage
  <1>3. CASE Get \/ ReconcileDelete \/ PatchMetadata
    BY <1>3, GetFinds, DeleteFinds, MetadataFinds
  <1>4. CASE PatchStatus \/ Crash \/ GetNotFound
    <2>1. pc' = "idle"
      BY <1>4, PatchStatusStep, CrashStep, GetNotFoundStep DEF GetNotFound
    <2> QED BY <2>1
  <1> QED BY <1>1, <1>2, <1>3, <1>4, NextCases DEF Around

HIDE DEF Findings, NotYet, Holds, Stopped, Completed, Past, WorkStages, Told, RbacHolds,
  SecretHolds, MemcachedHolds, CAHolds, CertHolds, ConfigHolds, KeyHolds, HashHolds,
  ServicesHold, InitHolds, NADHolds, TopologyHolds, DeployHolds, VerifyHolds, Unheard,
  UpToRbac, UpToSecret, UpToMemcached, UpToCA, UpToCert, UpToConfig, UpToKey, UpToHash,
  UpToServices, UpToInit, UpToNAD, UpToRelease, UpToAcquire, UpToDeploy,
  CondTypes, ListedConds, Marking, Adding
=============================================================================
