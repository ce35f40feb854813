------------------------- MODULE HorizonQuietProofs -------------------------
(***************************************************************************)
(* Theorems about HorizonReconcile at rest: when nothing is queued, under  *)
(* way or rolling out, the cluster is what the current spec and the        *)
(* current inputs ask for, and the object is Ready exactly then.           *)
(*                                                                         *)
(* A pass that ends with nothing left to do has written nothing, so the    *)
(* object it has read says all it has found (EndsAtRest); what it has      *)
(* found is still true (HorizonPassProofs); and a rest that goes on is     *)
(* disturbed by nothing that concerns the object (AroundRest).             *)
(***************************************************************************)
EXTENDS HorizonPassProofs

-----------------------------------------------------------------------------
(* The inductive invariant, second part.                                     *)

\* Nothing is queued or under way, for a live object.
Rested == pc = "idle" /\ ~queued /\ ~timer /\ seen = cr /\ news = {} /\ cr.life = "live"

\* What every pass must find to come to its end.
InputsFound(s) ==
  /\ s.secret /\ inputs.secret # 0 /\ inputs.memcached # 0 /\ inputs.keystone # 0
  /\ ~LacksTLS(s)

\* The cluster is what a pass that came to its end has made it, the rollout of
\* the Deployment apart.
Fulfilled ==
  /\ cr.finalizer /\ cr.status.observed = cr.generation
  /\ cr.status.endpoint = APIEndpoint(cr.spec)
  /\ rbac /\ service = (IF cr.spec.tls THEN "https" ELSE "http") /\ secretKey # 0
  /\ configMap = WantedConfig(cr.spec)
  /\ InputsFound(cr.spec)
  /\ cr.status.topology = cr.spec.topologyRef
  /\ cr.spec.topologyRef \in protected \cup {None}
  /\ deployment # None
  /\ \E nets \in BOOLEAN :
       /\ deployment.template = WantedTemplate(cr.spec, nets)
       /\ nets => cr.spec.networks /\ inputs.nad = "ready"
       /\ AttachesNetworks(cr.spec) /\ deployment.rollout = "complete" => nets
  /\ deployment.rollout # "unseen" => cr.status.readyCount = deployment.up
  /\ TopologyTold /\ deployment.rollout = "complete" => Published = "True"

\* At rest the cluster is fulfilled, or the object waits for a secret.
Resting == Rested => Fulfilled \/ (LacksTLS(cr.spec) /\ Published # "True")

QuietInv == ClusterFits /\ Copied /\ FinalizerWritten /\ Findings /\ Resting

-----------------------------------------------------------------------------
(* At rest.                                                                  *)

\* Nothing that is owned changes while no news are made.
LEMMA NoNews ==
  ASSUME Typed, OwnedKept, news' = {}
  PROVE  news = {} /\ UNCHANGED <<rbac, configMap, secretKey, service, deployment>>
  <1>1. news \subseteq {"Rbac", "ConfigMap", "Secret", "Service", "Deployment"}
    BY ConstantAssumptions DEF ConstantAssumptions, OwnedKinds, Typed, TypeOK
  <1> QED BY <1>1 DEF OwnedKept

\* A rest that nobody disturbs goes on, and the cluster is what it was.
LEMMA AroundRest ==
  ASSUME Typed, Guarded, Resting, Around
  PROVE  Resting'
  <1> SUFFICES ASSUME Rested'
               PROVE  (Fulfilled \/ (LacksTLS(cr.spec) /\ Published # "True"))'
    BY DEF Resting
  <1>1. /\ pc' = "idle" /\ ~queued' /\ ~timer' /\ seen' = cr' /\ news' = {} /\ cr'.life = "live"
    BY DEF Rested
  <1>2. /\ ~queued /\ UNCHANGED <<timer, seen, protected, rbac, configMap, secretKey, service>>
        /\ deployment' = deployment /\ news = {}
        /\ InputsKept(seen.spec)
    BY <1>1, AroundQuietly, NoNews
  <1>3. pc = "idle"
    BY <1>1, AroundStep
  <1>4. cr' = cr
    <2>1. ~DeliverHorizon
      BY <1>1 DEF DeliverHorizon, Enqueue
    <2>2. ~EditSpec /\ ~DeleteHorizon
      <3>1. cr'.generation <= cr.generation
        BY <1>1, <1>2 DEF Guarded, GenerationsInOrder
      <3>2. cr.generation \in Nat
        BY Generations
      <3> QED BY <3>1, <3>2, EditSpecStep, DeleteHorizonStep
    <2> QED BY <2>1, <2>2, ElsewhereStep, StutterLemma DEF Around
  <1>5. Fulfilled \/ (LacksTLS(cr.spec) /\ Published # "True")
    BY <1>1, <1>2, <1>3, <1>4 DEF Resting, Rested
  <1>6. LacksTLS(cr.spec)' = LacksTLS(cr.spec)
    BY <1>1, <1>2, <1>4 DEF InputsKept, LacksTLS
  <1>7. CASE LacksTLS(cr.spec) /\ Published # "True"
    BY <1>4, <1>6, <1>7 DEF Published
  <1>8. CASE Fulfilled
    <2>1. InputsFound(cr.spec)'
      BY <1>1, <1>2, <1>4, <1>6, <1>8 DEF Fulfilled, InputsFound, InputsKept
    <2>2. WantedConfig(cr.spec)' = WantedConfig(cr.spec)
      BY <1>1, <1>2, <1>4 DEF WantedConfig, InputsKept, APIEndpoint
    <2>3. \A nets : WantedTemplate(cr.spec, nets)' = WantedTemplate(cr.spec, nets)
      <3>1. /\ inputs'.secret = inputs.secret /\ inputs'.services = inputs.services
            /\ (IF cr.spec.ca THEN inputs.ca ELSE 0)' = IF cr.spec.ca THEN inputs.ca ELSE 0
            /\ (IF cr.spec.tls THEN inputs.cert ELSE 0)' = IF cr.spec.tls THEN inputs.cert ELSE 0
        BY <1>1, <1>2, <1>4, <1>8 DEF InputsKept, Fulfilled, InputsFound
      <3>2. Constraints(cr.spec)' = Constraints(cr.spec)
        BY <1>1, <1>2, <1>4 DEF InputsKept, Constraints
      <3> QED BY <1>4, <2>2, <3>1, <3>2 DEF WantedTemplate
    <2>4. PICK nets \in BOOLEAN :
            /\ deployment.template = WantedTemplate(cr.spec, nets)
            /\ nets => cr.spec.networks /\ inputs.nad = "ready"
            /\ AttachesNetworks(cr.spec) /\ deployment.rollout = "complete" => nets
      BY <1>8 DEF Fulfilled
    <2>5. /\ deployment'.template = WantedTemplate(cr.spec, nets)'
          /\ nets => cr'.spec.networks /\ inputs'.nad = "ready"
          /\ AttachesNetworks(cr'.spec) /\ deployment'.rollout = "complete" => nets
      BY <1>1, <1>2, <1>4, <2>3, <2>4 DEF InputsKept
    <2>6. Fulfilled'
      BY <1>1, <1>2, <1>4, <1>8, <2>1, <2>2, <2>5 DEF Fulfilled, Published, APIEndpoint
    <2> QED BY <2>6
  <1> QED BY <1>5, <1>7, <1>8

\* A status patch that changes nothing finds every field as it was read.
LEMMA NothingPatched ==
  ASSUME NEW old \in Statuses, NEW new \in Statuses, NEW current,
         PatchedStatus(old, new, current) = old
  PROVE  /\ new.conds = old.conds /\ new.observed = old.observed
         /\ new.hash = old.hash /\ new.endpoint = old.endpoint
         /\ new.topology = old.topology /\ new.readyCount = old.readyCount
  BY DEF PatchedStatus, Patched

\* When a pass ends and nothing is left to do, what it has found is what the
\* object says.
LEMMA EndsAtRest ==
  ASSUME Typed, Guarded, Copied, FinalizerWritten, PatchStatus, Rested'
  PROVE  /\ pc = "status" /\ pass.result = "done" /\ ~queued /\ news = {}
         /\ cr' = before /\ instance.finalizer = before.finalizer
         /\ instance.spec = before.spec
         /\ before.status.observed = before.generation
         /\ instance.status.conds = before.status.conds
         /\ instance.status.hash = before.status.hash
         /\ instance.status.endpoint = before.status.endpoint
         /\ instance.status.topology = before.status.topology
         /\ instance.status.readyCount = before.status.readyCount
         /\ UNCHANGED <<inputs, topologies, protected, rbac, configMap, secretKey, service, deployment>>
  <1> DEFINE status == PatchedStatus(before.status, instance.status, cr.status)
  <1>1. /\ pc = "status" /\ before \in Horizons /\ instance \in Horizons /\ cr \in Horizons
    BY DEF PatchStatus, Typed, TypeOK
  <1>2. /\ ~queued' /\ ~timer' /\ seen' = cr' /\ news' = {} /\ cr'.life = "live"
    BY DEF Rested
  <1>3. UNCHANGED <<inputs, topoVars, ownedVars, cacheVars>>
    BY DEF PatchStatus
  <1>4. /\ cr'.life = cr.life /\ cr'.finalizer = cr.finalizer /\ seen' = seen
    BY PatchStatusStep
  <1>5. /\ cr' = [cr EXCEPT !.status = PatchedStatus(before.status, instance.status, @)]
        /\ EndPass(pass.result # "done")
    BY <1>2, <1>4 DEF PatchStatus, EndPass
  <1>6. pass.result = "done" /\ ~queued /\ news = {}
    BY <1>2, <1>3, <1>5 DEF EndPass, cacheVars, copies
  <1>7. cr' = before /\ instance.spec = before.spec
    BY <1>1, <1>2, <1>4, <1>6 DEF Copied
  <1>8. cr'.status = status
    BY <1>1, <1>5 DEF Horizons
  <1>9. status = before.status
    BY <1>7, <1>8
  <1>10. before.status \in Statuses /\ instance.status \in Statuses
    BY <1>1 DEF Horizons
  <1>11. instance.finalizer = before.finalizer
    BY <1>1, <1>2, <1>4, <1>7 DEF FinalizerWritten
  <1>12. instance.status.observed = before.generation
    BY <1>1 DEF Guarded, GenerationsInOrder
  <1> QED
    BY <1>1, <1>3, <1>6, <1>7, <1>9, <1>10, <1>11, <1>12, NothingPatched
       DEF topoVars, ownedVars

\* A pass that has come to its end leaves a cluster that is what the object
\* asks for.
LEMMA CompletedRests ==
  ASSUME Typed, Guarded, Copied, FinalizerWritten, Findings, PatchStatus, Rested',
         pass.depl # None
  PROVE  Fulfilled'
  <1>1. /\ pc = "status" /\ pass.result = "done" /\ ~queued /\ news = {}
        /\ cr' = before
        /\ instance.spec = before.spec /\ before.status.observed = before.generation
        /\ instance.status.conds = before.status.conds
        /\ instance.status.endpoint = before.status.endpoint
        /\ instance.status.topology = before.status.topology
        /\ instance.status.readyCount = before.status.readyCount
        /\ UNCHANGED <<inputs, topologies, protected, rbac, configMap, secretKey, service, deployment>>
    BY EndsAtRest
  <1>0. \A k : Unheard(k)
    BY <1>1 DEF Unheard
  <1>2. Completed /\ \A st : Past(st)
    BY <1>1 DEF Completed, Past
  <1> DEFINE s == instance.spec
             e == APIEndpoint(s)
  <1>3. cr'.finalizer /\ cr'.status.observed = cr'.generation
    BY <1>1, <1>2 DEF Findings, Holds, VerifyHolds
  <1>4. instance.status.endpoint = e
    BY <1>2 DEF Findings, Holds, InitHolds
  <1>5. rbac /\ service = (IF s.tls THEN "https" ELSE "http") /\ secretKey # 0
    BY <1>0, <1>2 DEF Findings, Holds, RbacHolds, InitHolds, KeyHolds
  <1>6. configMap = pass.config /\ pass.config = RenderedFor(e) /\ inputs.keystone # 0
    <2>1. ConfigHolds
      BY DEF Findings, Holds
    <2> QED BY <1>0, <1>1, <1>2, <1>4, <2>1 DEF ConfigHolds
  <1>7. configMap = WantedConfig(s)
    <2>1. pass.memcached = inputs.memcached
      BY <1>1, <1>2 DEF Findings, Holds, MemcachedHolds
    <2> QED BY <1>6, <2>1 DEF RenderedFor, WantedConfig
  <1>8. /\ pass.secret = inputs.secret /\ pass.secret # 0 /\ s.secret
        /\ pass.ca = IF s.ca THEN inputs.ca ELSE 0
        /\ pass.cert = IF s.tls THEN inputs.cert ELSE 0
        /\ s.ca => inputs.ca # 0
        /\ s.tls => inputs.cert # 0
        /\ inputs.memcached # 0 /\ pass.key = 0 /\ pass.services = inputs.services
    BY <1>0, <1>1, <1>2 DEF Findings, Holds, SecretHolds, MemcachedHolds, CAHolds, CertHolds,
       KeyHolds, ServicesHold
  <1>9. /\ InputsFound(s)
    BY <1>6, <1>8 DEF InputsFound, LacksTLS
  <1>10. /\ s.topologyRef \in protected \cup {None} /\ instance.status.topology = s.topologyRef
         /\ pass.topology = Constraints(s)
    BY <1>1, <1>2 DEF Findings, Holds, TopologyHolds
  <1>11. /\ deployment # None /\ deployment.template = DeploymentTemplate(instance, pass)
         /\ deployment.rollout # "unseen" => instance.status.readyCount = deployment.up
    BY <1>0, <1>2, NoneIsNothing DEF Findings, Holds, DeployHolds
  <1>12. deployment.template = WantedTemplate(s, pass.networks)
    BY <1>6, <1>7, <1>8, <1>10, <1>11 DEF DeploymentTemplate, InputHash, WantedTemplate
  <1>13. /\ pass.networks \in BOOLEAN
         /\ pass.networks => s.networks /\ inputs.nad = "ready"
         /\ AttachesNetworks(s) /\ deployment.rollout = "complete" => pass.networks
    BY <1>0, <1>1, <1>2 DEF Findings, Holds, NADHolds, VerifyHolds, Typed, TypeOK, Passes
  <1>14. TopologyTold /\ deployment.rollout = "complete"
           => instance.status.conds["Ready"] = "True"
    BY <1>0, <1>2 DEF Findings, Holds, VerifyHolds, Told
  <1> HIDE DEF e
  <1>15. /\ cr'.spec = s /\ cr'.status.endpoint = APIEndpoint(s)
         /\ cr'.status.topology = s.topologyRef
         /\ cr'.status.conds = instance.status.conds
         /\ cr'.status.readyCount = instance.status.readyCount
    BY <1>1, <1>4, <1>10 DEF e
  <1> HIDE DEF s
  <1>16. /\ InputsFound(cr.spec)' /\ configMap' = WantedConfig(cr.spec)'
    BY <1>1, <1>7, <1>9, <1>15 DEF InputsFound, LacksTLS, WantedConfig, APIEndpoint
  <1>17. \A nets : WantedTemplate(cr.spec, nets)' = WantedTemplate(s, nets)
    BY <1>1, <1>15 DEF WantedTemplate, WantedConfig, APIEndpoint, Constraints
  <1>18. \E nets \in BOOLEAN :
           /\ deployment'.template = WantedTemplate(cr.spec, nets)'
           /\ nets => cr'.spec.networks /\ inputs'.nad = "ready"
           /\ AttachesNetworks(cr'.spec) /\ deployment'.rollout = "complete" => nets
    BY <1>1, <1>12, <1>13, <1>15, <1>17
  <1>19. /\ cr'.status.endpoint = APIEndpoint(cr'.spec)
         /\ rbac' /\ service' = (IF cr'.spec.tls THEN "https" ELSE "http") /\ secretKey' # 0
         /\ cr'.status.topology = cr'.spec.topologyRef
         /\ cr'.spec.topologyRef \in protected' \cup {None}
         /\ deployment' # None
         /\ deployment'.rollout # "unseen" => cr'.status.readyCount = deployment'.up
         /\ TopologyTold /\ deployment'.rollout = "complete"
              => cr'.status.conds["Ready"] = "True"
    BY <1>1, <1>5, <1>10, <1>11, <1>14, <1>15
  <1> QED BY <1>3, <1>16, <1>18, <1>19 DEF Fulfilled, Published, APIEndpoint

\* A pass that has stopped early without an error, and left nothing to do,
\* waits for a secret; and the object says so.
LEMMA StoppedRests ==
  ASSUME Typed, Guarded, Copied, FinalizerWritten, Findings, PatchStatus, Rested',
         pass.depl = None
  PROVE  (LacksTLS(cr.spec) /\ Published # "True")'
  <1>1. /\ pc = "status" /\ pass.result = "done" /\ ~queued
        /\ cr' = before /\ instance.finalizer = before.finalizer
        /\ instance.spec = before.spec /\ instance.status.conds = before.status.conds
        /\ instance.status.hash = before.status.hash /\ inputs' = inputs
    BY EndsAtRest
  <1>2. before.life # "deleting"
    BY <1>1 DEF Rested
  <1>3. Waiting
    BY <1>1, <1>2 DEF Findings, Stopped
  <1> QED BY <1>1, <1>3 DEF Waiting, Told, LacksTLS, Published

\* Rest is disturbed by no step that leaves the key out of the queue.
LEMMA NextRests ==
  ASSUME Typed, Guarded, Copied, FinalizerWritten, Findings, Resting, [Next]_vars
  PROVE  Resting'
  <1>1. CASE Around
    BY <1>1, AroundRest
  <1>2. CASE PatchStatus
    BY <1>2, CompletedRests, StoppedRests DEF Resting
  <1>3. CASE Get \/ ReconcileDelete \/ Stage
    <2>1. pc' # "idle"
      BY <1>3, GetStep, ReconcileDeleteStep, StageLemma DEF FirstStage, Advance, WorkStages
    <2> QED BY <2>1 DEF Resting, Rested
  <1>4. CASE PatchMetadata
    <2>1. pc' # "idle" \/ timer'
      BY <1>4 DEF PatchMetadata, GoOn, EndPass
    <2> QED BY <2>1 DEF Resting, Rested
  <1>5. CASE GetNotFound
    <2>1. seen'.life = "gone"
      BY <1>5 DEF GetNotFound, cacheVars
    <2> QED BY <2>1 DEF Resting, Rested
  <1>6. CASE Crash
    <2>1. queued' = (cr'.life # "gone")
      BY <1>6 DEF Crash
    <2> QED BY <2>1 DEF Resting, Rested
  <1> QED BY <1>1, <1>2, <1>3, <1>4, <1>5, <1>6, NextCases DEF Around

-----------------------------------------------------------------------------
(* The Topology condition.  Init does not list it: a pass may begin with what *)
(* an earlier one has left.  No harm comes of it where Init forgets what it   *)
(* does not list, or where nobody refers to a Topology.                       *)

\* An object that says of its Topology what the one in memory says.
SaysOfTopology(i) ==
  /\ i.spec = instance.spec
  /\ i.status.topology = instance.status.topology
  /\ i.status.conds["Topology"] = instance.status.conds["Topology"]

\* To mark another condition leaves what is said of the Topology.
LEMMA MarkSays ==
  ASSUME NEW i \in Horizons, SaysOfTopology(i),
         NEW c \in CondTypes \ {"Topology"}, NEW s \in CondStatus
  PROVE  Mark(i, c, s) \in Horizons /\ SaysOfTopology(Mark(i, c, s))
  <1>1. Mark(i, c, s).status.conds["Topology"] = i.status.conds["Topology"]
    BY MarkFields DEF CondTypes
  <1> QED BY <1>1, MarkLemma DEF SaysOfTopology

\* Two stages deal with the Topology: one may fail, the other records it.
LEMMA StageSays ==
  ASSUME Typed, Stage
  PROVE  \/ SaysOfTopology(instance')
         \/ /\ pc' = "patch"
            /\ instance.status.topology # None \/ instance.spec.topologyRef # None
         \/ /\ instance.spec.topologyRef # None
            /\ instance'.status.conds["Topology"] = "True"
         \/ instance.spec.topologyRef = None /\ instance' = Recorded(instance)
  <1>1. instance \in Horizons /\ pass \in Passes
    BY StageLemma DEF Typed, TypeOK, Advance, WorkStages
  <1>2. SaysOfTopology(instance)
    BY DEF SaysOfTopology
  <1>3. \A c \in CondTypes \ {"Topology"}, s \in CondStatus :
          Mark(instance, c, s) \in Horizons /\ SaysOfTopology(Mark(instance, c, s))
    BY <1>1, <1>2, MarkSays
  <1>4. /\ CondTypes \ {"Topology"} = ListedConds \cup {"NetworkAttachments"}
        /\ {"True", "False"} \subseteq CondStatus
    BY DEF CondTypes, ListedConds, CondStatus
  <1>5. \A c \in ListedConds \cup {"NetworkAttachments"}, s \in {"True", "False"} :
          Mark(instance, c, s) \in Horizons /\ SaysOfTopology(Mark(instance, c, s))
    BY <1>3, <1>4
  <1>6. CASE ReconcileRbac \/ CheckSecret \/ CheckMemcached \/ CheckCA \/ CheckCert
             \/ GenerateConfigMaps \/ EnsureHorizonSecret \/ CheckKeystoneServices \/ EnsureNAD
    <2>1. instance' = instance \/ \E c \in ListedConds \cup {"NetworkAttachments"},
                                     s \in {"True", "False"} : instance' = Mark(instance, c, s)
      BY <1>6 DEF ReconcileRbac, CheckSecret, CheckMemcached, CheckCA, CheckCert,
         GenerateConfigMaps, EnsureHorizonSecret, CheckKeystoneServices, EnsureNAD,
         Return, GoOn, ListedConds
    <2> QED BY <1>2, <1>5, <2>1
  <1>7. CASE CheckHash
    <2> DEFINE h == InputHash(pass)
    <2>1. \/ instance' = Mark(instance, "ServiceConfig", "True")
          \/ instance' = [instance EXCEPT !.status.hash = h]
      BY <1>7 DEF CheckHash, Return, GoOn
    <2> HIDE DEF h
    <2>2. Setting(instance, [instance EXCEPT !.status.hash = h], "hash", h)
      BY <1>1, StatusFields
    <2>3. SaysOfTopology([instance EXCEPT !.status.hash = h])
      BY <2>2 DEF Setting, SaysOfTopology
    <2> QED BY <1>5, <2>1, <2>3 DEF ListedConds
  <1>8. CASE ReconcileInit
    <2> DEFINE m == Mark(instance, "CreateService", "True")
               e == APIEndpoint(instance.spec)
    <2>1. \/ instance' = Mark(instance, "CreateService", "False")
          \/ instance' = [m EXCEPT !.status.endpoint = e]
      BY <1>8 DEF ReconcileInit, Return, GoOn
    <2>2. m \in Horizons /\ SaysOfTopology(m)
      BY <1>5 DEF ListedConds
    <2> HIDE DEF m, e
    <2>3. Setting(m, [m EXCEPT !.status.endpoint = e], "endpoint", e)
      BY <2>2, StatusFields
    <2>4. SaysOfTopology([m EXCEPT !.status.endpoint = e])
      BY <2>2, <2>3 DEF Setting, SaysOfTopology
    <2> QED BY <1>5, <2>1, <2>4 DEF ListedConds
  <1>9. CASE CreateOrPatchDeployment
    <2>1. \/ instance' = Mark(instance, "Deployment", "False") \/ instance' = instance
          \/ \E d : instance' = [instance EXCEPT !.status.readyCount = d.up]
      BY <1>9 DEF CreateOrPatchDeployment, Deployed, Return, GoOn
    <2>2. ASSUME NEW n
          PROVE  SaysOfTopology([instance EXCEPT !.status.readyCount = n])
      <3>1. Setting(instance, [instance EXCEPT !.status.readyCount = n], "readyCount", n)
        BY <1>1, StatusFields
      <3> QED BY <3>1 DEF Setting, SaysOfTopology
    <2> QED BY <1>2, <1>5, <2>1, <2>2 DEF ListedConds
  <1>10. CASE VerifyAndFinish
    <2> DEFINE nets == IF instance.spec.replicas = 0 THEN instance
                       ELSE Mark(instance, "NetworkAttachments", "True")
               ready == IF IsReady(pass.depl) THEN "True" ELSE "False"
               depl == Mark(nets, "Deployment", ready)
               fin == IF AllSubConditionIsTrue(depl.status.conds)
                      THEN Mark(depl, "Ready", "True") ELSE depl
    <2>1. nets \in Horizons /\ SaysOfTopology(nets)
      BY <1>1, <1>2, <1>5
    <2>2. ready \in CondStatus /\ "True" \in CondStatus
          /\ {"Deployment", "Ready"} \subseteq CondTypes \ {"Topology"}
      BY DEF CondStatus, CondTypes, ListedConds
    <2> HIDE DEF nets, ready
    <2>3. depl \in Horizons /\ SaysOfTopology(depl)
      BY <2>1, <2>2, MarkSays
    <2> HIDE DEF depl
    <2>4. SaysOfTopology(fin)
      BY <2>2, <2>3, MarkSays
    <2>5. instance' = fin \/ instance' = Mark(instance, "NetworkAttachments", "False")
      BY <1>10 DEF VerifyAndFinish, Return, GoOn, fin, depl, ready, nets
    <2> QED BY <1>5, <2>4, <2>5
  <1>11. CASE ReleaseTopology
    <2>1. instance' = instance \/ (pc' = "patch" /\ instance.status.topology # None)
      BY <1>11 DEF ReleaseTopology, Return, GoOn
    <2> QED BY <1>2, <2>1
  <1>12. CASE AcquireTopology
    <2>1. CASE instance.spec.topologyRef = None
      <3>1. instance' = Recorded(instance)
        BY <1>12, <2>1 DEF AcquireTopology, GoOn
      <3> QED BY <2>1, <3>1
    <2>2. CASE instance.spec.topologyRef # None
      <3> DEFINE r == Recorded(instance)
      <3>1. \/ instance' = Mark(r, "Topology", "True")
            \/ pc' = "patch"
        BY <1>12, <2>2 DEF AcquireTopology, GoOn, Return
      <3>2. r \in Horizons
        BY <1>1, StatusLemma DEF Recorded, Horizons, HorizonSpecs
      <3> HIDE DEF r
      <3>3. Mark(r, "Topology", "True").status.conds["Topology"] = "True"
        BY <3>2, MarkFields DEF CondTypes, CondStatus
      <3> QED BY <1>12, <2>2, <3>1, <3>3
    <2> QED BY <2>1, <2>2
  <1> QED BY <1>6, <1>7, <1>8, <1>9, <1>10, <1>11, <1>12 DEF Stage

\* To record an acquired Topology changes nothing else of the object.
LEMMA RecordedSays ==
  ASSUME NEW i \in Horizons
  PROVE  /\ Recorded(i).spec = i.spec /\ Recorded(i).status.topology = i.spec.topologyRef
         /\ Recorded(i).status.conds = i.status.conds
  <1>1. Setting(i, Recorded(i), "topology", i.spec.topologyRef)
    BY StatusFields DEF Recorded
  <1> QED BY <1>1 DEF Setting

\* What the pass leaves in memory.
LEMMA StageUntouched ==
  ASSUME Typed, Stage, Untouched(instance)
  PROVE  Untouched(instance')
  <1>1. instance'.spec = instance.spec /\ instance \in Horizons
    BY StageLemma DEF Advance, Typed, TypeOK, WorkStages
  <1>2. ASSUME \A s \in Specs : s.topologyRef = None
        PROVE  /\ instance'.status.topology = None
               /\ instance'.status.conds["Topology"] = "Absent"
    <2>1. /\ instance.spec.topologyRef = None /\ instance.status.topology = None
          /\ instance.status.conds["Topology"] = "Absent"
      BY <1>2 DEF Untouched
    <2>2. SaysOfTopology(instance') \/ instance' = Recorded(instance)
      BY <2>1, StageSays
    <2> QED BY <1>1, <2>1, <2>2, RecordedSays DEF SaysOfTopology
  <1> QED BY <1>1, <1>2 DEF Untouched

\* Where nobody refers to a Topology, its condition is never set.
LEMMA NextUnused ==
  ASSUME Typed, TopologyUnused, [Next]_vars
  PROVE  TopologyUnused'
  <1> USE DEF TopologyUnused
  <1>1. CASE Elsewhere \/ UNCHANGED vars \/ GetNotFound
    BY <1>1, ElsewhereStep, StutterLemma, GetNotFoundStep
  <1>2. CASE DeliverHorizon \/ Crash
    BY <1>2, DeliverHorizonStep, CrashStep
  <1>3. CASE EditSpec \/ DeleteHorizon
    <2>1. UNCHANGED <<seen, pc, before, instance>> /\ cr'.status = cr.status
      BY <1>3, EditSpecStep, DeleteHorizonStep
    <2>2. cr'.spec \in Specs
      <3>1. cr \in Horizons
        BY DEF Typed, TypeOK
      <3>2. cr.spec \in Specs
        BY DEF Untouched
      <3> QED BY <1>3, <3>1, <3>2 DEF EditSpec, DeleteHorizon, Horizons
    <2> QED BY <2>1, <2>2 DEF Untouched
  <1>4. CASE Get
    <2>1. /\ before' = seen /\ UNCHANGED <<cr, seen>> /\ instance'.spec = seen.spec
          /\ instance'.status.topology = seen.status.topology
          /\ instance'.status.conds = InitConds(seen.status.conds)
      BY <1>4, GetStep, GetFields
    <2>2. seen.status.conds["Topology"] = "Absent"
            => InitConds(seen.status.conds)["Topology"] = "Absent"
      BY DEF InitConds, CondTypes, ListedConds
    <2> QED BY <2>1, <2>2 DEF Untouched
  <1>5. CASE Stage
    <2>1. pc # "idle" /\ UNCHANGED <<cr, seen, before>>
      BY <1>5, StageLemma DEF Advance, WorkStages
    <2> QED BY <1>5, <2>1, StageUntouched
  <1>6. CASE ReconcileDelete
    <2>1. /\ pc # "idle" /\ pc' # "idle" /\ instance'.status = instance.status
          /\ UNCHANGED <<cr, seen, before>>
      BY <1>6, ReconcileDeleteStep
    <2>2. instance'.spec = instance.spec
      BY <1>6, <2>1, PassKeeps
    <2> QED BY <2>1, <2>2 DEF Untouched
  <1>7. CASE PatchMetadata
    <2>1. pc = "patch" /\ seen' = seen
      BY <1>7, PatchMetadataStep
    <2>2. Untouched(cr')
      <3>1. cr \in Horizons /\ (cr' = cr \/ cr' = WithFinalizer(cr, instance.finalizer))
        BY <1>7, PatchMetadataStep DEF Typed, TypeOK
      <3>2. WithFinalizer(cr, instance.finalizer).spec = cr.spec
            /\ WithFinalizer(cr, instance.finalizer).status = cr.status
        BY DEF WithFinalizer, Typed, TypeOK, Horizons
      <3> QED BY <3>1, <3>2 DEF Untouched
    <2>3. pc' # "idle" => Untouched(before') /\ Untouched(instance')
      <3> SUFFICES ASSUME pc' # "idle" PROVE Untouched(before') /\ Untouched(instance')
        OBVIOUS
      <3>1. instance' = Mirrored(instance) /\ before' = before /\ instance \in Horizons
        BY <1>7, <2>1, MetadataWorks DEF Typed, TypeOK
      <3>2. Marked(instance, instance', {"Ready"})
        BY <3>1, MirroredLemma
      <3> QED BY <2>1, <3>1, <3>2 DEF Marked, Untouched, CondTypes
    <2> QED BY <2>1, <2>2, <2>3
  <1>8. CASE PatchStatus
    <2>1. pc = "status" /\ pc' = "idle" /\ seen' = seen
      BY <1>8, PatchStatusStep
    <2> DEFINE status == PatchedStatus(before.status, instance.status, cr.status)
    <2>2. /\ status.topology \in {instance.status.topology, cr.status.topology}
          /\ status.conds \in {instance.status.conds, cr.status.conds}
      BY DEF PatchedStatus, Patched
    <2>3. cr' = cr \/ cr' = [cr EXCEPT !.status = status]
      <3>1. [cr EXCEPT !.status = status]
              = [cr EXCEPT !.status = PatchedStatus(before.status, instance.status, @)]
        BY DEF Typed, TypeOK, Horizons
      <3> HIDE DEF status
      <3> QED BY <1>8, <3>1 DEF PatchStatus
    <2> HIDE DEF status
    <2>4. [cr EXCEPT !.status = status].spec = cr.spec
          /\ [cr EXCEPT !.status = status].status = status
      BY DEF Typed, TypeOK, Horizons
    <2>5. Untouched(cr')
      BY <2>1, <2>2, <2>3, <2>4 DEF Untouched
    <2> QED BY <2>1, <2>5
  <1> QED BY <1>1, <1>2, <1>3, <1>4, <1>5, <1>6, <1>7, <1>8, NextCases

\* Every stage finds a Topology condition that is absent or True: one that is
\* not ends the pass, and the next pass starts without it.
LEMMA NextHonest ==
  ASSUME Typed, TopologyUnused, TopologyHonest, [Next]_vars
  PROVE  TopologyHonest'
  <1> SUFFICES ASSUME TopologyTold, pc' \in WorkStages
               PROVE  instance'.status.conds["Topology"] \in {"Absent", "True"}
    BY DEF TopologyHonest, TopologyTold, WorkStages
  <1>1. CASE Get
    <2>1. instance'.status.conds = InitConds(seen.status.conds)
      BY <1>1, GetFields
    <2>2. InitConds(seen.status.conds)["Topology"] = "Absent"
      BY DEF TopologyTold, TopologyUnused, Untouched, InitConds, CondTypes, ListedConds
    <2> QED BY <2>1, <2>2
  <1>2. CASE Stage
    <2>1. pc \in WorkStages /\ instance \in Horizons
      BY <1>2, StageLemma DEF Advance, Typed, TypeOK, WorkStages
    <2>2. instance.status.conds["Topology"] \in {"Absent", "True"}
      BY <2>1 DEF TopologyHonest
    <2> QED BY <1>2, <2>1, <2>2, StageSays, RecordedSays DEF SaysOfTopology, WorkStages
  <1>3. CASE ReconcileDelete \/ PatchMetadata \/ PatchStatus \/ Crash
    <2>1. pc' \in {"patch", "status", "idle"}
      BY <1>3, ReconcileDeleteStep, PatchMetadataStep, PatchStatusStep, CrashStep
    <2> QED BY <2>1 DEF WorkStages
  <1>4. CASE Around \/ GetNotFound
    <2>1. UNCHANGED <<pc, instance>>
      BY <1>4, AroundStep, GetNotFoundStep
    <2> QED BY <2>1 DEF TopologyHonest
  <1> QED BY <1>1, <1>2, <1>3, <1>4, NextCases DEF Around

-----------------------------------------------------------------------------
(* Always.                                                                   *)

\* Before the first pass nothing has been found and the key is queued.
LEMMA InitQuiet == Init => QuietInv /\ TopologyUnused /\ TopologyHonest
  <1> SUFFICES ASSUME Init PROVE QuietInv /\ TopologyUnused /\ TopologyHonest
    OBVIOUS
  <1>1. /\ pc = "idle" /\ queued /\ seen = cr /\ protected = {}
        /\ deployment = None /\ shown = Made
    BY DEF Init, Absent, Made
  <1>2. ClusterFits /\ Copied /\ FinalizerWritten /\ Resting
    BY <1>1 DEF ClusterFits, ShownUnlessNews, CompleteIsUp, HeldExists, Copied,
       FinalizerWritten, Resting, Rested
  <1>3. \A st : ~Past(st)
    BY <1>1 DEF Past, Completed, WorkStages
  <1>4. NotYet /\ Stopped /\ TopologyHonest
    BY <1>1 DEF NotYet, Stopped, TopologyHonest, WorkStages
  <1>5. Holds
    BY <1>1, <1>3 DEF Holds, Completed, RbacHolds, SecretHolds, MemcachedHolds, CAHolds,
       CertHolds, ConfigHolds, KeyHolds, HashHolds, ServicesHold, InitHolds, NADHolds,
       TopologyHolds, DeployHolds, VerifyHolds
  <1>6. Untouched(cr)
    <2>1. cr.spec \in Specs /\ cr.status = NewStatus
      BY ConstantAssumptions DEF ConstantAssumptions, Init
    <2>2. /\ NewStatus.topology = None
          /\ NewStatus.conds["Topology"] = "Absent"
      BY DEF NewStatus, NoConds, CondTypes
    <2> QED BY <2>1, <2>2 DEF Untouched
  <1> QED BY <1>1, <1>2, <1>4, <1>5, <1>6 DEF QuietInv, Findings, TopologyUnused

\* All that is invariant of the loop.
Settling == Typed /\ Guarded /\ QuietInv /\ TopologyUnused /\ TopologyHonest

\* It holds in every reachable state.
LEMMA AlwaysSettling == Spec => []Settling
  <1>1. Init => Settling
    BY InitTyped, InitGuarded, InitQuiet DEF Settling
  <1>2. Settling /\ [Next]_vars => Settling'
    BY NextTyped, NextGuarded, NextFits, NextCopied, NextFinalizerWritten, NextFinds,
       NextRests, NextUnused, NextHonest DEF Settling, QuietInv
  <1> QED BY <1>1, <1>2, PTL DEF Spec

\* What the invariant says of a quiet cluster.
LEMMA QuietRests ==
  ASSUME Settling, Quiet, cr.life = "live"
  PROVE  \/ LacksTLS(cr.spec) /\ Published # "True"
         \/ Fulfilled /\ deployment.rollout = "complete"
  BY DEF Settling, QuietInv, Quiet, Resting, Rested, Fulfilled

\* Whenever nothing is queued, under way or rolling out and every input of a
\* live object is there, all that the operator makes is what the current spec
\* and the current inputs ask for, and the status says so.
THEOREM QuietClusterIsCurrent ==
  Spec => [](Quiet /\ cr.life = "live" /\ InputsPresent(cr.spec) => UpToDate)
  <1>1. Settling => (Quiet /\ cr.life = "live" /\ InputsPresent(cr.spec) => UpToDate)
    <2> SUFFICES ASSUME Settling, Quiet, cr.life = "live", InputsPresent(cr.spec)
                 PROVE  UpToDate
      OBVIOUS
    <2>1. Fulfilled /\ deployment.rollout = "complete"
      BY QuietRests DEF InputsPresent, InputsNeeded, LacksTLS
    <2>2. PICK nets \in BOOLEAN :
            /\ deployment.template = WantedTemplate(cr.spec, nets)
            /\ nets => cr.spec.networks /\ inputs.nad = "ready"
            /\ AttachesNetworks(cr.spec) => nets
      BY <2>1 DEF Fulfilled
    <2>3. /\ cr.spec.networks \in BOOLEAN
          /\ AttachesNetworks(cr.spec) => cr.spec.networks
      BY DEF Settling, Typed, TypeOK, Horizons, HorizonSpecs, AttachesNetworks
    <2>4. AttachesNetworks(cr.spec) \in BOOLEAN
      BY <2>3 DEF AttachesNetworks
    <2>5. nets = cr.spec.networks \/ nets = AttachesNetworks(cr.spec)
      BY <2>2, <2>3, <2>4
    <2>6. deployment.template.replicas = cr.spec.replicas
      BY <2>2 DEF WantedTemplate
    <2>7. cr.status.readyCount = cr.spec.replicas
      BY <2>1, <2>6 DEF Fulfilled, Settling, QuietInv, ClusterFits, CompleteIsUp
    <2> QED BY <2>1, <2>2, <2>5, <2>7 DEF Fulfilled, UpToDate
  <1> QED BY <1>1, AlwaysSettling, PTL

\* And such an object is Ready, where an old Topology condition cannot get in
\* the way of it: Init forgets the conditions it does not list, or nobody
\* refers to a Topology.
THEOREM QuietObjectIsReady == TopologyTold /\ Spec => []QuietIsCurrent
  <1>1. TopologyTold /\ Settling
          => (Quiet /\ cr.life = "live" /\ InputsPresent(cr.spec) => Published = "True")
    <2> SUFFICES ASSUME TopologyTold, Settling, Quiet, cr.life = "live",
                        InputsPresent(cr.spec)
                 PROVE  Published = "True"
      OBVIOUS
    <2>1. Fulfilled /\ deployment.rollout = "complete"
      BY QuietRests DEF InputsPresent, InputsNeeded, LacksTLS
    <2> QED BY <2>1 DEF Fulfilled
  <1>2. TopologyTold => []TopologyTold
    <2>1. TopologyTold => TopologyTold'
      BY DEF TopologyTold
    <2> QED BY <2>1, PTL
  <1>3. TopologyTold /\ Settling
        /\ (Quiet /\ cr.life = "live" /\ InputsPresent(cr.spec) => UpToDate)
          => QuietIsCurrent
    BY <1>1 DEF QuietIsCurrent
  <1> QED BY <1>2, <1>3, AlwaysSettling, QuietClusterIsCurrent, PTL

\* Whenever nothing is queued, under way or rolling out and an input of a live
\* object is missing, the object is not Ready: no loss goes unnoticed.
THEOREM QuietObjectIsHonest == Spec => []QuietIsHonest
  <1>1. Settling => QuietIsHonest
    <2> SUFFICES ASSUME Settling, Quiet, cr.life = "live", Fulfilled,
                        deployment.rollout = "complete"
                 PROVE  InputsNeeded(cr.spec)
      BY QuietRests DEF QuietIsHonest
    <2>1. AttachesNetworks(cr.spec) => inputs.nad = "ready"
      BY DEF Fulfilled
    <2>2. cr.spec.topologyRef # None => Exists(cr.spec.topologyRef)
      BY DEF Fulfilled, Settling, QuietInv, ClusterFits, HeldExists
    <2> QED BY <2>1, <2>2 DEF Fulfilled, InputsFound, InputsNeeded, LacksTLS
  <1> QED BY <1>1, AlwaysSettling, PTL
=============================================================================
