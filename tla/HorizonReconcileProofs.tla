------------------------ MODULE HorizonReconcileProofs ------------------------
(***************************************************************************)
(* Theorems about HorizonReconcile, for every value of its constants:      *)
(* type correctness; nothing is made for an object without finalizer; the  *)
(* recorded Topology is released before the object goes; the observed      *)
(* generation never goes back.                                             *)
(*                                                                         *)
(* First the operators the handlers are built from, then type correctness, *)
(* then one inductive invariant, Guarded, from which the rest follows.     *)
(***************************************************************************)
EXTENDS HorizonReconcile, TLAPS

-----------------------------------------------------------------------------
(* What the helpers return.                                                  *)

\* Setting a condition keeps everything else of the object.
LEMMA MarkLemma ==
  ASSUME NEW i \in Horizons, NEW c \in CondTypes, NEW s \in CondStatus
  PROVE  /\ Mark(i, c, s) \in Horizons
         /\ Mark(i, c, s).finalizer = i.finalizer
         /\ Mark(i, c, s).spec = i.spec
         /\ Mark(i, c, s).life = i.life
         /\ Mark(i, c, s).generation = i.generation
         /\ Mark(i, c, s).status.observed = i.status.observed
         /\ Mark(i, c, s).status.topology = i.status.topology
  <1>1. i.status.conds \in [CondTypes -> CondStatus]
    BY DEF Horizons, Statuses
  <1> DEFINE conds == [i.status.conds EXCEPT ![c] = s]
             status == [i.status EXCEPT !.conds = conds]
  <1>2. conds \in [CondTypes -> CondStatus]
    BY <1>1
  <1>3. status \in Statuses /\ status.observed = i.status.observed
                            /\ status.topology = i.status.topology
    <2> HIDE DEF conds
    <2> QED BY <1>2 DEF Horizons, Statuses
  <1>4. Mark(i, c, s) = [i EXCEPT !.status = status]
    BY DEF Mark
  <1> HIDE DEF status
  <1> QED BY <1>3, <1>4 DEF Horizons

\* So do the other writes of the handlers to the status.
LEMMA StatusLemma ==
  ASSUME NEW i \in Horizons
  PROVE  /\ \A h \in Hashes :
              LET j == [i EXCEPT !.status.hash = h]
              IN  /\ j \in Horizons /\ j.finalizer = i.finalizer
                  /\ j.life = i.life /\ j.generation = i.generation /\ j.spec = i.spec
                  /\ j.status.observed = i.status.observed
         /\ \A e \in Endpoints :
              LET j == [i EXCEPT !.status.endpoint = e]
              IN  /\ j \in Horizons /\ j.finalizer = i.finalizer
                  /\ j.life = i.life /\ j.generation = i.generation /\ j.spec = i.spec
                  /\ j.status.observed = i.status.observed
         /\ \A t \in Topologies \cup {None} :
              LET j == [i EXCEPT !.status.topology = t]
              IN  /\ j \in Horizons /\ j.finalizer = i.finalizer
                  /\ j.life = i.life /\ j.generation = i.generation /\ j.spec = i.spec
                  /\ j.status.observed = i.status.observed
         /\ \A n \in 0 .. MaxReplicas :
              LET j == [i EXCEPT !.status.readyCount = n]
              IN  /\ j \in Horizons /\ j.finalizer = i.finalizer
                  /\ j.life = i.life /\ j.generation = i.generation /\ j.spec = i.spec
                  /\ j.status.observed = i.status.observed
  BY DEF Horizons, Statuses

\* Conditions.Init and Conditions.Mirror return conditions.
LEMMA InitCondsLemma ==
  ASSUME NEW old \in [CondTypes -> CondStatus], ConstantAssumptions
  PROVE  InitConds(old) \in [CondTypes -> CondStatus]
  BY DEF InitConds, CondStatus

LEMMA MirrorLemma == ASSUME NEW conds PROVE Mirror(conds) \in CondStatus
  BY DEF Mirror, CondStatus

\* What is rendered, hashed and deployed has the type of a result.
LEMMA RenderLemma ==
  ASSUME NEW i \in Horizons, NEW p \in Passes, inputs \in Inputs
  PROVE  Render(i, p) \in Configs
  BY DEF Render, Configs, Horizons, HorizonSpecs, Statuses, Inputs, Passes

LEMMA PatchedConfigLemma ==
  ASSUME NEW old \in Configs, NEW new \in Configs, NEW current \in Configs
  PROVE  PatchedConfig(old, new, current) \in Configs
  BY DEF PatchedConfig, Patched, Configs

LEMMA HashLemma ==
  ASSUME NEW p \in Passes, p.config \in Configs
  PROVE  InputHash(p) \in Hashes
  BY DEF InputHash, Hashes, Passes

LEMMA TemplateLemma ==
  ASSUME NEW i \in Horizons, NEW p \in Passes, p.config \in Configs
  PROVE  DeploymentTemplate(i, p) \in Templates
  <1>1. InputHash(p) \in Hashes
    BY HashLemma
  <1> QED BY <1>1 DEF DeploymentTemplate, Templates, Containers, Horizons, HorizonSpecs, Passes

LEMMA PatchLemma ==
  ASSUME NEW old \in Templates, NEW new \in Templates, NEW d \in Deployments
  PROVE  Patch(old, new, d) \in Deployments
  <1>1. PatchedTemplate(old, new, d.template) \in Templates
    BY DEF PatchedTemplate, Patched, Templates, Deployments
  <1> QED BY <1>1 DEF Patch, Deployments

\* A status patch takes each field from the pass or leaves it as it was.
LEMMA PatchedStatusLemma ==
  ASSUME NEW old \in Statuses, NEW new \in Statuses, NEW current \in Statuses
  PROVE  /\ PatchedStatus(old, new, current) \in Statuses
         /\ PatchedStatus(old, new, current).observed \in {new.observed, current.observed}
  BY DEF PatchedStatus, Patched, Statuses

LEMMA PassLemma ==
  ASSUME NEW p \in Passes
  PROVE  /\ \A r \in {"done", "later", "error"} : [p EXCEPT !.result = r] \in Passes
         /\ \A v \in Versions : /\ [p EXCEPT !.secret = v] \in Passes
                                /\ [p EXCEPT !.memcached = v] \in Passes
                                /\ [p EXCEPT !.ca = v] \in Passes
                                /\ [p EXCEPT !.cert = v] \in Passes
                                /\ [p EXCEPT !.topology = v] \in Passes
                                /\ [p EXCEPT !.topology = v].config = p.config
         /\ \A c \in Configs : /\ [p EXCEPT !.config = c] \in Passes
                               /\ [p EXCEPT !.config = c].config = c
         /\ \A k \in Nat : /\ [p EXCEPT !.key = k] \in Passes
                           /\ [p EXCEPT !.key = k].config = p.config
         /\ \A b \in BOOLEAN : /\ [p EXCEPT !.services = b] \in Passes
                               /\ [p EXCEPT !.services = b].config = p.config
                               /\ [p EXCEPT !.networks = b] \in Passes
                               /\ [p EXCEPT !.networks = b].config = p.config
         /\ \A d \in Deployments : [p EXCEPT !.depl = d] \in Passes
  BY DEF Passes

-----------------------------------------------------------------------------
(* Type correctness.                                                         *)

\* Stages that are only reached with a rendered configuration.
ConfigStages == {"key", "hash", "services", "init", "nad", "release", "acquire", "deploy"}

ConfigKnown == pc \in ConfigStages => pass.config \in Configs

Typed == TypeOK /\ ConfigKnown

\* The conjuncts of TypeOK that are not about the worker.
ClusterTyped ==
  /\ cr \in Horizons /\ seen \in Horizons
  /\ inputs \in Inputs
  /\ topologies \in [Topologies -> Versions] /\ protected \subseteq Topologies
  /\ rbac \in BOOLEAN /\ configMap \in Configs \cup {None}
  /\ secretKey \in Nat /\ keysMade \in Nat
  /\ service \in {"none", "http", "https"}
  /\ deployment \in Deployments \cup {None}
  /\ shown \in OwnedObjects /\ news \subseteq Lagging
  /\ queued \in BOOLEAN /\ timer \in BOOLEAN
  /\ left \in [Kinds -> Nat]

WorkerTyped ==
  /\ pc \in Stages
  /\ pc # "idle" => before \in Horizons /\ instance \in Horizons
  /\ pass \in Passes
  /\ ConfigKnown

LEMMA TypedParts == Typed <=> ClusterTyped /\ WorkerTyped
  BY DEF Typed, TypeOK, ClusterTyped, WorkerTyped

\* The stages of reconcileNormal.
Stage ==
  \/ ReconcileRbac \/ CheckSecret \/ CheckMemcached \/ CheckCA \/ CheckCert
  \/ GenerateConfigMaps \/ EnsureHorizonSecret \/ CheckHash
  \/ CheckKeystoneServices \/ ReconcileInit \/ EnsureNAD
  \/ ReleaseTopology \/ AcquireTopology \/ CreateOrPatchDeployment \/ VerifyAndFinish

\* What each of them does to the pass: it goes on or returns, and touches
\* neither the finalizer nor the observed generation.
Advance ==
  /\ pc \in WorkStages /\ pc' \in WorkStages \cup {"patch"}
  /\ instance' \in Horizons
  /\ instance'.finalizer = instance.finalizer
  /\ instance'.life = instance.life /\ instance'.generation = instance.generation
  /\ instance'.spec = instance.spec
  /\ instance'.status.observed = instance.status.observed
  /\ pass' \in Passes /\ ConfigKnown'
  /\ UNCHANGED <<cr, seen, before>>

\* An object that differs from the one in memory in its status at most, and
\* there not in the observed generation.
Kept(i) ==
  /\ i \in Horizons
  /\ i.finalizer = instance.finalizer
  /\ i.life = instance.life /\ i.generation = instance.generation
  /\ i.spec = instance.spec
  /\ i.status.observed = instance.status.observed

LEMMA KeptLemma ==
  /\ WorkerTyped /\ pc # "idle" => Kept(instance)
  /\ \A i \in Horizons, c \in CondTypes, s \in CondStatus : Kept(i) => Kept(Mark(i, c, s))
  BY MarkLemma DEF WorkerTyped, Kept

LEMMA GoOnAdvances ==
  ASSUME WorkerTyped, pc \in WorkStages, UNCHANGED <<cr, seen, before>>,
         NEW st \in WorkStages, NEW i, Kept(i), NEW p \in Passes,
         st \in ConfigStages => p.config \in Configs, GoOn(st, i, p)
  PROVE  Advance
  BY DEF Advance, Kept, GoOn, ConfigKnown

LEMMA ReturnLemma ==
  ASSUME WorkerTyped, NEW i, NEW r \in {"done", "later", "error"}, Return(r, i)
  PROVE  pc' = "patch" /\ instance' = i /\ pass' \in Passes /\ ConfigKnown'
  BY PassLemma DEF WorkerTyped, Return, GoOn, ConfigKnown, ConfigStages

LEMMA ReturnAdvances ==
  ASSUME WorkerTyped, pc \in WorkStages, UNCHANGED <<cr, seen, before>>,
         NEW i, Kept(i), NEW r \in {"done", "later", "error"}, Return(r, i)
  PROVE  Advance
  BY ReturnLemma DEF Advance, Kept

LEMMA SpendLemma ==
  ASSUME left \in [Kinds -> Nat], NEW k \in Kinds, Spend(k)
  PROVE  left' \in [Kinds -> Nat]
  BY DEF Spend

LEMMA FailsLemma ==
  ASSUME left \in [Kinds -> Nat], Works \/ Fails
  PROVE  left' \in [Kinds -> Nat]
  BY SpendLemma DEF Works, Fails, Kinds

LEMMA ReadsLemma ==
  ASSUME ClusterTyped, Reads, Works \/ Fails
  PROVE  ClusterTyped' /\ UNCHANGED <<cr, seen, before>>
  BY FailsLemma DEF ClusterTyped, Reads, Unowned, Fixed, ownedVars, copies, queueVars

\* The objects in the caches, kind by kind.
LEMMA ShownTyped ==
  ASSUME shown \in OwnedObjects
  PROVE  /\ shown.Rbac \in BOOLEAN /\ shown.ConfigMap \in Configs \cup {None}
         /\ shown.Secret \in Nat /\ shown.Service \in {"none", "http", "https"}
         /\ shown.Deployment \in Deployments \cup {None}
  BY DEF OwnedObjects

\* What is made has the type of what is shown.
MadeTyped ==
  /\ rbac \in BOOLEAN /\ configMap \in Configs \cup {None}
  /\ secretKey \in Nat /\ service \in {"none", "http", "https"}
  /\ deployment \in Deployments \cup {None}

\* The copies and the queue after a write.
LEMMA OwnedEventsTyped ==
  ASSUME ClusterTyped, MadeTyped', OwnedEvents
  PROVE  /\ shown' \in OwnedObjects /\ news' \subseteq Lagging
         /\ queued' \in BOOLEAN /\ timer' \in BOOLEAN
  <1>1. shown \in OwnedObjects /\ Made' \in OwnedObjects
    BY DEF ClusterTyped, MadeTyped, Made, OwnedObjects
  <1>2. shown' = [k \in OwnedKinds |-> IF k \in Lagging THEN shown[k] ELSE Made'[k]]
    BY DEF OwnedEvents, CopiesFollow
  <1>3. shown' \in OwnedObjects
    BY <1>1, <1>2 DEF OwnedObjects, OwnedKinds
  <1>4. news' \subseteq Lagging
    BY DEF OwnedEvents, CopiesFollow, ClusterTyped
  <1>5. queued' \in BOOLEAN /\ timer' \in BOOLEAN
    BY DEF OwnedEvents, Enqueue, ClusterTyped
  <1> QED BY <1>3, <1>4, <1>5

\* What a stage starts from.
LEMMA StageTyped ==
  ASSUME Typed, pc \in WorkStages
  PROVE  /\ ClusterTyped /\ WorkerTyped
         /\ Kept(instance) /\ instance \in Horizons
         /\ \A c \in CondTypes, s \in {"True", "False"} :
              Kept(Mark(instance, c, s)) /\ Mark(instance, c, s) \in Horizons
         /\ pass \in Passes
         /\ pc \in ConfigStages => pass.config \in Configs
  BY TypedParts, KeptLemma DEF WorkerTyped, WorkStages, Kept, ConfigKnown, CondStatus

LEMMA CheckSecretStep ==
  ASSUME Typed, CheckSecret
  PROVE  Advance /\ ClusterTyped'
  <1> DEFINE ok == Mark(instance, "Input", "True")
             bad == Mark(instance, "Input", "False")
  <1>1. pc = "secret" /\ pc \in WorkStages
    BY DEF CheckSecret, WorkStages
  <1>2. Kept(ok) /\ Kept(bad) /\ pass \in Passes /\ WorkerTyped /\ inputs.secret \in Versions
    BY <1>1, StageTyped DEF CondTypes, ListedConds, ClusterTyped, Inputs
  <1>3. ClusterTyped' /\ UNCHANGED <<cr, seen, before>>
    BY <1>1, StageTyped, ReadsLemma DEF CheckSecret
  <1> HIDE DEF ok, bad
  <1>4. CASE GoOn("memcached", ok, [pass EXCEPT !.secret = inputs.secret])
    BY <1>1, <1>2, <1>3, <1>4, PassLemma, GoOnAdvances DEF WorkStages, ConfigStages
  <1>5. CASE \E r \in {"later", "error"} : Return(r, bad)
    BY <1>1, <1>2, <1>3, <1>5, ReturnAdvances DEF WorkStages
  <1> QED BY <1>3, <1>4, <1>5 DEF CheckSecret, ok, bad

LEMMA CheckMemcachedStep ==
  ASSUME Typed, CheckMemcached
  PROVE  Advance /\ ClusterTyped'
  <1> DEFINE ok == Mark(instance, "Memcached", "True")
             bad == Mark(instance, "Memcached", "False")
  <1>1. pc = "memcached" /\ pc \in WorkStages
    BY DEF CheckMemcached, WorkStages
  <1>2. /\ Kept(ok) /\ Kept(bad) /\ pass \in Passes /\ WorkerTyped
        /\ inputs.memcached \in Versions
    BY <1>1, StageTyped DEF CondTypes, ListedConds, ClusterTyped, Inputs
  <1>3. ClusterTyped' /\ UNCHANGED <<cr, seen, before>>
    BY <1>1, StageTyped, ReadsLemma DEF CheckMemcached
  <1> HIDE DEF ok, bad
  <1>4. CASE GoOn("ca", ok, [pass EXCEPT !.memcached = inputs.memcached])
    BY <1>1, <1>2, <1>3, <1>4, PassLemma, GoOnAdvances DEF WorkStages, ConfigStages
  <1>5. CASE \E r \in {"later", "error"} : Return(r, bad)
    BY <1>1, <1>2, <1>3, <1>5, ReturnAdvances DEF WorkStages
  <1> QED BY <1>3, <1>4, <1>5 DEF CheckMemcached, ok, bad

LEMMA CheckCAStep ==
  ASSUME Typed, CheckCA
  PROVE  Advance /\ ClusterTyped'
  <1> DEFINE bad == Mark(instance, "TLSInput", "False")
  <1>1. pc = "ca" /\ pc \in WorkStages
    BY DEF CheckCA, WorkStages
  <1>2. /\ Kept(instance) /\ Kept(bad) /\ pass \in Passes /\ WorkerTyped
        /\ inputs.ca \in Versions
    BY <1>1, StageTyped DEF CondTypes, ListedConds, ClusterTyped, Inputs
  <1>3. ClusterTyped' /\ UNCHANGED <<cr, seen, before>>
    BY <1>1, StageTyped, ReadsLemma DEF CheckCA
  <1> HIDE DEF bad
  <1>4. CASE \E p \in {pass, [pass EXCEPT !.ca = inputs.ca]} : GoOn("cert", instance, p)
    BY <1>1, <1>2, <1>3, <1>4, PassLemma, GoOnAdvances DEF WorkStages, ConfigStages
  <1>5. CASE \E r \in {"done", "error"} : Return(r, bad)
    BY <1>1, <1>2, <1>3, <1>5, ReturnAdvances DEF WorkStages
  <1> QED BY <1>3, <1>4, <1>5 DEF CheckCA, bad

LEMMA CheckCertStep ==
  ASSUME Typed, CheckCert
  PROVE  Advance /\ ClusterTyped'
  <1> DEFINE ok == Mark(instance, "TLSInput", "True")
             bad == Mark(instance, "TLSInput", "False")
  <1>1. pc = "cert" /\ pc \in WorkStages
    BY DEF CheckCert, WorkStages
  <1>2. /\ Kept(ok) /\ Kept(bad) /\ pass \in Passes /\ WorkerTyped
        /\ inputs.cert \in Versions
    BY <1>1, StageTyped DEF CondTypes, ListedConds, ClusterTyped, Inputs
  <1>3. ClusterTyped' /\ UNCHANGED <<cr, seen, before>>
    BY <1>1, StageTyped, ReadsLemma DEF CheckCert
  <1> HIDE DEF ok, bad
  <1>4. CASE \E p \in {pass, [pass EXCEPT !.cert = inputs.cert]} : GoOn("config", ok, p)
    BY <1>1, <1>2, <1>3, <1>4, PassLemma, GoOnAdvances DEF WorkStages, ConfigStages
  <1>5. CASE \E r \in {"done", "error"} : Return(r, bad)
    BY <1>1, <1>2, <1>3, <1>5, ReturnAdvances DEF WorkStages
  <1> QED BY <1>3, <1>4, <1>5 DEF CheckCert, ok, bad

LEMMA CheckHashStep ==
  ASSUME Typed, CheckHash
  PROVE  Advance /\ ClusterTyped'
  <1> DEFINE ok == Mark(instance, "ServiceConfig", "True")
             new == [instance EXCEPT !.status.hash = InputHash(pass)]
  <1>1. pc = "hash" /\ pc \in WorkStages /\ pc \in ConfigStages
    BY DEF CheckHash, WorkStages, ConfigStages
  <1>2. /\ Kept(instance) /\ Kept(ok) /\ pass \in Passes /\ WorkerTyped
        /\ pass.config \in Configs
    BY <1>1, StageTyped DEF CondTypes, ListedConds
  <1>3. Kept(new)
    BY <1>2, HashLemma, StatusLemma DEF Kept
  <1>4. ClusterTyped' /\ UNCHANGED <<cr, seen, before>>
    BY <1>1, StageTyped, ReadsLemma DEF CheckHash
  <1> HIDE DEF ok, new
  <1>5. CASE GoOn("services", ok, pass)
    BY <1>1, <1>2, <1>4, <1>5, GoOnAdvances DEF WorkStages
  <1>6. CASE Return("done", new)
    BY <1>1, <1>2, <1>3, <1>4, <1>6, ReturnAdvances
  <1> QED BY <1>4, <1>5, <1>6 DEF CheckHash, ok, new

LEMMA CheckKeystoneServicesStep ==
  ASSUME Typed, CheckKeystoneServices
  PROVE  Advance /\ ClusterTyped'
  <1>1. pc = "services" /\ pc \in WorkStages /\ pc \in ConfigStages
    BY DEF CheckKeystoneServices, WorkStages, ConfigStages
  <1>2. /\ Kept(instance) /\ pass \in Passes /\ WorkerTyped /\ pass.config \in Configs
        /\ inputs.services \in BOOLEAN
    BY <1>1, StageTyped DEF ClusterTyped, Inputs
  <1>3. ClusterTyped' /\ UNCHANGED <<cr, seen, before>>
    BY <1>1, StageTyped, ReadsLemma DEF CheckKeystoneServices
  <1>4. CASE GoOn("init", instance, [pass EXCEPT !.services = inputs.services])
    BY <1>1, <1>2, <1>3, <1>4, PassLemma, GoOnAdvances DEF WorkStages
  <1>5. CASE Return("error", instance)
    BY <1>1, <1>2, <1>3, <1>5, ReturnAdvances
  <1> QED BY <1>3, <1>4, <1>5 DEF CheckKeystoneServices

LEMMA EnsureNADStep ==
  ASSUME Typed, EnsureNAD
  PROVE  Advance /\ ClusterTyped'
  <1> DEFINE ok == Mark(instance, "NetworkAttachments", "True")
             bad == Mark(instance, "NetworkAttachments", "False")
  <1>1. pc = "nad" /\ pc \in WorkStages /\ pc \in ConfigStages
    BY DEF EnsureNAD, WorkStages, ConfigStages
  <1>2. /\ Kept(ok) /\ Kept(bad) /\ pass \in Passes /\ WorkerTyped
        /\ pass.config \in Configs /\ instance.spec.networks \in BOOLEAN
    BY <1>1, StageTyped DEF CondTypes, Horizons, HorizonSpecs
  <1>3. ClusterTyped' /\ UNCHANGED <<cr, seen, before>>
    BY <1>1, StageTyped, ReadsLemma DEF EnsureNAD
  <1> HIDE DEF ok, bad
  <1>4. CASE \E nets \in BOOLEAN : GoOn("release", ok, [pass EXCEPT !.networks = nets])
    BY <1>1, <1>2, <1>3, <1>4, PassLemma, GoOnAdvances DEF WorkStages
  <1>5. CASE Return("error", bad)
    BY <1>1, <1>2, <1>3, <1>5, ReturnAdvances
  <1> QED BY <1>2, <1>3, <1>4, <1>5 DEF EnsureNAD, ok, bad

LEMMA VerifyAndFinishStep ==
  ASSUME Typed, VerifyAndFinish
  PROVE  Advance /\ ClusterTyped'
  <1> DEFINE bad == Mark(instance, "NetworkAttachments", "False")
             nets == IF instance.spec.replicas = 0 THEN instance
                     ELSE Mark(instance, "NetworkAttachments", "True")
             ready == IF IsReady(pass.depl) THEN "True" ELSE "False"
             depl == Mark(nets, "Deployment", ready)
             last == IF AllSubConditionIsTrue(depl.status.conds)
                     THEN Mark(depl, "Ready", "True") ELSE depl
  <1>1. pc = "verify" /\ pc \in WorkStages
    BY DEF VerifyAndFinish, WorkStages
  <1>2. /\ Kept(instance) /\ Kept(bad) /\ Kept(nets) /\ pass \in Passes /\ WorkerTyped
    BY <1>1, StageTyped DEF CondTypes
  <1>3. Kept(depl)
    <2> HIDE DEF nets
    <2> QED BY <1>2, KeptLemma DEF CondTypes, ListedConds, CondStatus, Kept
  <1>4. Kept(last)
    <2> HIDE DEF depl
    <2> QED BY <1>3, KeptLemma DEF CondTypes, ListedConds, CondStatus, Kept
  <1>5. ClusterTyped' /\ UNCHANGED <<cr, seen, before>>
    BY <1>1, StageTyped, ReadsLemma DEF VerifyAndFinish
  <1>6. Return("done", last) \/ Return("error", bad)
    BY DEF VerifyAndFinish
  <1> HIDE DEF bad, last
  <1> QED BY <1>1, <1>2, <1>4, <1>5, <1>6, ReturnAdvances

\* A stage that writes one owned object.
LEMMA WritesLemma ==
  ASSUME ClusterTyped, Fixed, UNCHANGED protected, Works \/ Fails,
         MadeTyped', keysMade' \in Nat, OwnedEvents
  PROVE  ClusterTyped' /\ UNCHANGED <<cr, seen, before>>
  BY FailsLemma, OwnedEventsTyped DEF ClusterTyped, Fixed, MadeTyped

LEMMA ReconcileRbacStep ==
  ASSUME Typed, ReconcileRbac
  PROVE  Advance /\ ClusterTyped'
  <1> DEFINE ok == Mark(instance, "Rbac", "True")
             bad == Mark(instance, "Rbac", "False")
  <1>1. pc = "rbac" /\ pc \in WorkStages
    BY DEF ReconcileRbac, WorkStages
  <1>2. Kept(ok) /\ Kept(bad) /\ pass \in Passes /\ WorkerTyped /\ ClusterTyped
    BY <1>1, StageTyped DEF CondTypes, ListedConds
  <1>3. rbac' \in BOOLEAN
    BY <1>2, ShownTyped DEF ReconcileRbac, ClusterTyped
  <1>4. ClusterTyped' /\ UNCHANGED <<cr, seen, before>>
    BY <1>2, <1>3, WritesLemma DEF ReconcileRbac, ClusterTyped, MadeTyped
  <1>5. GoOn("secret", ok, pass) \/ Return("error", bad)
    BY DEF ReconcileRbac
  <1> HIDE DEF ok, bad
  <1> QED
    BY <1>1, <1>2, <1>4, <1>5, GoOnAdvances, ReturnAdvances DEF WorkStages, ConfigStages

\* What GenerateConfigMaps does to the ConfigMap and to the pass.
LEMMA GenerateConfigMapsCases ==
  ASSUME Typed, GenerateConfigMaps
  PROVE  /\ configMap' \in Configs \cup {None}
         /\ \/ \E c \in Configs : GoOn("key", instance, [pass EXCEPT !.config = c])
            \/ Return("error", Mark(instance, "ServiceConfig", "False"))
  <1> DEFINE new == Render(instance, pass)
             written == IF shown.ConfigMap = None THEN new
                        ELSE PatchedConfig(shown.ConfigMap, new, configMap)
             refused == Refused("ConfigMap")
  <1>1. /\ ClusterTyped /\ instance \in Horizons /\ pass \in Passes
        /\ shown.ConfigMap \in Configs \cup {None} /\ configMap \in Configs \cup {None}
    BY StageTyped, ShownTyped DEF GenerateConfigMaps, WorkStages, ClusterTyped
  <1>2. new \in Configs
    BY <1>1, RenderLemma DEF ClusterTyped
  <1>3. ~refused => written \in Configs
    <2>1. ~refused => (shown.ConfigMap = None <=> configMap = None)
      BY DEF Refused, Absent, Made
    <2> HIDE DEF new, refused
    <2> QED BY <1>1, <1>2, <2>1, PatchedConfigLemma
  <1> HIDE DEF new, written, refused
  <1>4. CASE ~refused /\ configMap' = written
                     /\ GoOn("key", instance, [pass EXCEPT !.config = written])
    BY <1>3, <1>4
  <1>5. CASE configMap' = configMap /\ GoOn("key", instance, [pass EXCEPT !.config = new])
    BY <1>1, <1>2, <1>5
  <1>6. CASE /\ configMap' = configMap \/ (~refused /\ configMap' = written)
             /\ Return("error", Mark(instance, "ServiceConfig", "False"))
    BY <1>1, <1>3, <1>6
  <1> QED BY <1>4, <1>5, <1>6 DEF GenerateConfigMaps, new, written, refused

LEMMA GenerateConfigMapsStep ==
  ASSUME Typed, GenerateConfigMaps
  PROVE  Advance /\ ClusterTyped'
  <1> DEFINE bad == Mark(instance, "ServiceConfig", "False")
  <1>1. pc = "config" /\ pc \in WorkStages
    BY DEF GenerateConfigMaps, WorkStages
  <1>2. Kept(instance) /\ Kept(bad) /\ pass \in Passes /\ WorkerTyped /\ ClusterTyped
    BY <1>1, StageTyped DEF CondTypes, ListedConds
  <1>3. ClusterTyped' /\ UNCHANGED <<cr, seen, before>>
    BY <1>2, GenerateConfigMapsCases, WritesLemma
       DEF GenerateConfigMaps, ClusterTyped, MadeTyped
  <1>4. \/ \E c \in Configs : GoOn("key", instance, [pass EXCEPT !.config = c])
        \/ Return("error", bad)
    BY GenerateConfigMapsCases
  <1> HIDE DEF bad
  <1> QED
    BY <1>1, <1>2, <1>3, <1>4, PassLemma, GoOnAdvances, ReturnAdvances DEF WorkStages

LEMMA EnsureHorizonSecretStep ==
  ASSUME Typed, EnsureHorizonSecret
  PROVE  Advance /\ ClusterTyped'
  <1> DEFINE bad == Mark(instance, "ServiceConfig", "False")
             new == [pass EXCEPT !.key = keysMade']
  <1>1. pc = "key" /\ pc \in WorkStages /\ pc \in ConfigStages
    BY DEF EnsureHorizonSecret, WorkStages, ConfigStages
  <1>2. /\ Kept(instance) /\ Kept(bad) /\ pass \in Passes /\ WorkerTyped /\ ClusterTyped
        /\ pass.config \in Configs
    BY <1>1, StageTyped DEF CondTypes, ListedConds
  <1>3. secretKey' \in Nat /\ keysMade' \in Nat
    BY <1>2 DEF EnsureHorizonSecret, NewKey, KeepKey, ClusterTyped
  <1>4. ClusterTyped' /\ UNCHANGED <<cr, seen, before>>
    BY <1>2, <1>3, WritesLemma DEF EnsureHorizonSecret, ClusterTyped, MadeTyped
  <1>5. new \in Passes /\ new.config = pass.config
    BY <1>2, <1>3, PassLemma
  <1>6. (\E p \in {pass, new} : GoOn("hash", instance, p)) \/ Return("error", bad)
    BY DEF EnsureHorizonSecret
  <1> HIDE DEF bad, new
  <1> QED BY <1>1, <1>2, <1>4, <1>5, <1>6, GoOnAdvances, ReturnAdvances DEF WorkStages

LEMMA ReconcileInitStep ==
  ASSUME Typed, ReconcileInit
  PROVE  Advance /\ ClusterTyped'
  <1> DEFINE ok == Mark(instance, "CreateService", "True")
             new == [ok EXCEPT !.status.endpoint = APIEndpoint(instance.spec)]
             bad == Mark(instance, "CreateService", "False")
  <1>1. pc = "init" /\ pc \in WorkStages /\ pc \in ConfigStages
    BY DEF ReconcileInit, WorkStages, ConfigStages
  <1>2. /\ Kept(ok) /\ Kept(bad) /\ pass \in Passes /\ WorkerTyped /\ ClusterTyped
        /\ pass.config \in Configs /\ instance \in Horizons
    BY <1>1, StageTyped DEF CondTypes, ListedConds
  <1>3. APIEndpoint(instance.spec) \in Endpoints
    BY <1>2 DEF APIEndpoint, Endpoints, Horizons, HorizonSpecs
  <1>4. Kept(new)
    <2> HIDE DEF ok
    <2> QED BY <1>2, <1>3, StatusLemma DEF Kept
  <1>5. service' \in {"none", "http", "https"}
    BY <1>2 DEF ReconcileInit, ClusterTyped
  <1>6. ClusterTyped' /\ UNCHANGED <<cr, seen, before>>
    BY <1>2, <1>5, WritesLemma DEF ReconcileInit, ClusterTyped, MadeTyped
  <1>7. GoOn("nad", new, pass) \/ (\E r \in {"error", "later"} : Return(r, bad))
    BY DEF ReconcileInit
  <1> HIDE DEF ok, new, bad
  <1> QED BY <1>1, <1>2, <1>4, <1>6, <1>7, GoOnAdvances, ReturnAdvances DEF WorkStages

LEMMA ReleaseTopologyStep ==
  ASSUME Typed, ReleaseTopology
  PROVE  Advance /\ ClusterTyped'
  <1> DEFINE bad == Mark(instance, "Topology", "False")
  <1>1. pc = "release" /\ pc \in WorkStages /\ pc \in ConfigStages
    BY DEF ReleaseTopology, WorkStages, ConfigStages
  <1>2. /\ Kept(instance) /\ Kept(bad) /\ pass \in Passes /\ WorkerTyped /\ ClusterTyped
        /\ pass.config \in Configs
    BY <1>1, StageTyped DEF CondTypes
  <1>3. protected' \subseteq Topologies
    BY <1>2 DEF ReleaseTopology, ClusterTyped
  <1>4. ClusterTyped' /\ UNCHANGED <<cr, seen, before>>
    BY <1>2, <1>3, FailsLemma DEF ReleaseTopology, ClusterTyped, Unowned, Fixed, ownedVars,
       queueVars, copies
  <1>5. GoOn("acquire", instance, pass) \/ Return("error", bad)
    BY DEF ReleaseTopology
  <1> HIDE DEF bad
  <1> QED BY <1>1, <1>2, <1>4, <1>5, GoOnAdvances, ReturnAdvances DEF WorkStages

LEMMA AcquireTopologyStep ==
  ASSUME Typed, AcquireTopology
  PROVE  Advance /\ ClusterTyped'
  <1> DEFINE recorded == Recorded(instance)
             marked == Mark(recorded, "Topology", "True")
             taken == [pass EXCEPT !.topology = topologies[instance.spec.topologyRef]]
             bad == Mark(instance, "Topology", "False")
  <1>1. pc = "acquire" /\ pc \in WorkStages /\ pc \in ConfigStages
    BY DEF AcquireTopology, WorkStages, ConfigStages
  <1>2. /\ Kept(instance) /\ Kept(bad) /\ pass \in Passes /\ WorkerTyped /\ ClusterTyped
        /\ pass.config \in Configs
        /\ instance.spec.topologyRef \in Topologies \cup {None}
    BY <1>1, StageTyped DEF CondTypes, Kept, Horizons, HorizonSpecs
  <1>3. Kept(recorded)
    BY <1>2, StatusLemma DEF Kept, Recorded
  <1>4. Kept(marked)
    <2> HIDE DEF recorded
    <2> QED BY <1>3, KeptLemma DEF Kept, CondTypes, CondStatus
  <1>5. protected' \subseteq Topologies
    BY <1>2 DEF AcquireTopology, ClusterTyped, Exists
  <1>6. ClusterTyped' /\ UNCHANGED <<cr, seen, before>>
    BY <1>2, <1>5, FailsLemma DEF AcquireTopology, ClusterTyped, Unowned, Fixed, ownedVars,
       queueVars, copies
  <1>7. instance.spec.topologyRef # None => taken \in Passes /\ taken.config = pass.config
    BY <1>2, PassLemma DEF ClusterTyped
  <1>8. \/ GoOn("deploy", recorded, pass)
        \/ instance.spec.topologyRef # None /\ GoOn("deploy", marked, taken)
        \/ Return("error", bad)
    BY DEF AcquireTopology
  <1> HIDE DEF recorded, marked, taken, bad
  <1> QED
    BY <1>1, <1>2, <1>3, <1>4, <1>6, <1>7, <1>8, GoOnAdvances, ReturnAdvances DEF WorkStages

\* The object in memory takes over the number of ready replicas.
LEMMA DeployedAdvances ==
  ASSUME Typed, pc = "deploy", UNCHANGED <<cr, seen, before>>,
         NEW d \in Deployments, Deployed(d)
  PROVE  Advance
  <1> DEFINE counted == [instance EXCEPT !.status.readyCount = d.up]
             new == [pass EXCEPT !.depl = d]
  <1>1. Kept(instance) /\ pass \in Passes /\ WorkerTyped
    BY StageTyped DEF WorkStages
  <1>2. Kept(counted)
    BY <1>1, StatusLemma DEF Kept, Deployments
  <1>3. new \in Passes
    BY <1>1, PassLemma
  <1>4. \E i \in {instance, counted} : GoOn("verify", i, new)
    BY DEF Deployed
  <1> HIDE DEF counted, new
  <1> QED BY <1>1, <1>2, <1>3, <1>4, GoOnAdvances DEF WorkStages, ConfigStages

\* What CreateOrPatchDeployment writes is a Deployment.
LEMMA WrittenDeployment ==
  ASSUME Typed, pc = "deploy", ~Refused("Deployment")
  PROVE  (IF shown.Deployment = None
          THEN [template |-> DeploymentTemplate(instance, pass), rollout |-> "unseen", up |-> 0]
          ELSE Patch(shown.Deployment.template, DeploymentTemplate(instance, pass), deployment))
            \in Deployments
  <1> DEFINE new == DeploymentTemplate(instance, pass)
  <1>1. /\ pass \in Passes /\ ClusterTyped /\ pass.config \in Configs /\ instance \in Horizons
        /\ shown.Deployment \in Deployments \cup {None}
    BY StageTyped, ShownTyped DEF WorkStages, ConfigStages, ClusterTyped
  <1>2. new \in Templates
    BY <1>1, TemplateLemma
  <1> HIDE DEF new
  <1>3. [template |-> new, rollout |-> "unseen", up |-> 0] \in Deployments
    <2>1. 0 \in 0 .. MaxReplicas
      BY ConstantAssumptions DEF ConstantAssumptions
    <2> QED BY <1>2, <2>1 DEF Deployments
  <1>4. shown.Deployment # None /\ deployment # None
          => Patch(shown.Deployment.template, new, deployment) \in Deployments
    BY <1>1, <1>2, PatchLemma DEF ClusterTyped, Deployments
  <1>5. shown.Deployment = None <=> deployment = None
    BY DEF Refused, Absent, Made
  <1> QED BY <1>3, <1>4, <1>5 DEF new

LEMMA CreateOrPatchDeploymentStep ==
  ASSUME Typed, CreateOrPatchDeployment
  PROVE  Advance /\ ClusterTyped'
  <1> DEFINE new == DeploymentTemplate(instance, pass)
             written == IF shown.Deployment = None
                        THEN [template |-> new, rollout |-> "unseen", up |-> 0]
                        ELSE Patch(shown.Deployment.template, new, deployment)
             bad == Mark(instance, "Deployment", "False")
  <1>1. pc = "deploy" /\ pc \in WorkStages
    BY DEF CreateOrPatchDeployment, WorkStages
  <1>2. Kept(bad) /\ WorkerTyped /\ ClusterTyped
    BY <1>1, StageTyped DEF CondTypes, ListedConds
  <1>3. ~Refused("Deployment") => written \in Deployments
    BY <1>1, WrittenDeployment
  <1>4. /\ deployment' = deployment \/ (~Refused("Deployment") /\ deployment' = written)
        /\ \/ ~Refused("Deployment") /\ Deployed(written)
           \/ \E r \in {"error", "later"} : Return(r, bad)
    BY DEF CreateOrPatchDeployment
  <1> HIDE DEF written, bad
  <1>5. deployment' \in Deployments \cup {None}
    BY <1>2, <1>3, <1>4 DEF ClusterTyped
  <1>6. ClusterTyped' /\ UNCHANGED <<cr, seen, before>>
    BY <1>2, <1>5, WritesLemma DEF CreateOrPatchDeployment, ClusterTyped, MadeTyped
  <1> QED
    BY <1>1, <1>2, <1>3, <1>4, <1>6, DeployedAdvances, ReturnAdvances

\* The stages of reconcileNormal in one fact.
LEMMA StageLemma ==
  ASSUME Typed, Stage
  PROVE  Advance /\ Typed'
  <1>1. Advance /\ ClusterTyped'
    BY ReconcileRbacStep, CheckSecretStep, CheckMemcachedStep, CheckCAStep,
       CheckCertStep, GenerateConfigMapsStep, EnsureHorizonSecretStep, CheckHashStep,
       CheckKeystoneServicesStep, ReconcileInitStep, EnsureNADStep,
       ReleaseTopologyStep, AcquireTopologyStep, CreateOrPatchDeploymentStep,
       VerifyAndFinishStep DEF Stage
  <1>2. before \in Horizons
    BY <1>1 DEF Advance, Typed, TypeOK, WorkStages
  <1>3. WorkerTyped'
    BY <1>1, <1>2 DEF Advance, WorkerTyped, Stages, WorkStages
  <1> QED BY <1>1, <1>3, TypedParts DEF Typed, TypeOK, ClusterTyped, WorkerTyped

\* The object in memory when a pass begins.
LEMMA GetStep ==
  ASSUME Typed, Get
  PROVE  /\ Typed'
         /\ pc' = FirstStage(seen) /\ before' = seen
         /\ instance'.finalizer = (seen.finalizer \/ AddsFinalizer(seen))
         /\ instance'.status.observed = seen.generation
         /\ UNCHANGED <<cr, seen, protected>>
  <1> DEFINE conds == InitConds(seen.status.conds)
             status == [seen.status EXCEPT !.conds = conds, !.observed = seen.generation]
             fin == seen.finalizer \/ AddsFinalizer(seen)
             new == [seen EXCEPT !.status.conds = InitConds(@),
                                 !.status.observed = seen.generation,
                                 !.finalizer = @ \/ AddsFinalizer(seen)]
  <1>1. ClusterTyped /\ WorkerTyped /\ seen \in Horizons
    BY TypedParts DEF ClusterTyped
  <1>2. conds \in [CondTypes -> CondStatus]
    BY <1>1, InitCondsLemma, ConstantAssumptions DEF Horizons, Statuses
  <1>3. status \in Statuses /\ status.observed = seen.generation
    <2> HIDE DEF conds
    <2> QED BY <1>1, <1>2 DEF Horizons, Statuses
  <1>4. fin \in BOOLEAN
    BY <1>1 DEF Horizons, AddsFinalizer
  <1>5. new = [seen EXCEPT !.status = status, !.finalizer = fin]
    BY <1>1 DEF Horizons, Statuses
  <1>6. new \in Horizons /\ new.finalizer = fin /\ new.status.observed = seen.generation
    <2> HIDE DEF status, fin, new
    <2> QED BY <1>1, <1>3, <1>4, <1>5 DEF Horizons
  <1>7. NoPass \in Passes
    BY ConstantAssumptions DEF ConstantAssumptions, NoPass, Passes, Versions
  <1>8. FirstStage(seen) \in {"patch", "delete", "rbac"}
    BY DEF FirstStage
  <1>9. /\ before' = seen /\ GoOn(FirstStage(seen), new, NoPass) /\ queued' = FALSE
        /\ UNCHANGED <<cr, inputs, topoVars, ownedVars, cacheVars, timer, left>>
    BY DEF Get
  <1> HIDE DEF new
  <1>10. WorkerTyped'
    BY <1>1, <1>6, <1>7, <1>8, <1>9
       DEF GoOn, WorkerTyped, Stages, WorkStages, ConfigKnown, ConfigStages
  <1>11. ClusterTyped'
    BY <1>1, <1>9 DEF ClusterTyped, topoVars, ownedVars, cacheVars, copies
  <1>12. Typed'
    BY <1>10, <1>11 DEF Typed, TypeOK, ClusterTyped, WorkerTyped
  <1> QED BY <1>6, <1>9, <1>12 DEF GoOn, cacheVars, copies, topoVars

\* reconcileDelete drops the finalizer only together with the one it has put
\* on the Topology.
LEMMA ReconcileDeleteStep ==
  ASSUME Typed, ReconcileDelete
  PROVE  /\ Typed'
         /\ pc = "delete" /\ pc' = "patch"
         /\ instance'.status = instance.status
         /\ \/ instance'.finalizer = instance.finalizer
            \/ instance'.status.topology \notin protected'
         /\ UNCHANGED <<cr, seen, before>>
  <1> DEFINE new == [instance EXCEPT !.finalizer = FALSE]
  <1>1. ClusterTyped /\ WorkerTyped /\ pc = "delete"
    BY TypedParts DEF ReconcileDelete
  <1>2. before \in Horizons /\ instance \in Horizons
    BY <1>1 DEF WorkerTyped
  <1>3. new \in Horizons /\ new.status = instance.status
    BY <1>2 DEF Horizons
  <1>4. /\ protected' \subseteq Topologies
        /\ \/ Return("error", instance)
           \/ Return("done", new) /\ instance.status.topology \notin protected'
    BY <1>1 DEF ReconcileDelete, ClusterTyped
  <1>5. ClusterTyped' /\ UNCHANGED <<cr, seen, before>>
    BY <1>1, <1>4, FailsLemma DEF ReconcileDelete, ClusterTyped, Unowned, Fixed, ownedVars,
       queueVars, copies
  <1> HIDE DEF new
  <1>6. pc' = "patch" /\ instance' \in {instance, new} /\ pass' \in Passes /\ ConfigKnown'
    BY <1>1, <1>2, <1>3, <1>4, ReturnLemma
  <1>7. WorkerTyped'
    BY <1>2, <1>3, <1>5, <1>6 DEF WorkerTyped, Stages
  <1>8. Typed'
    BY <1>5, <1>7 DEF Typed, TypeOK, ClusterTyped, WorkerTyped
  <1> QED BY <1>1, <1>3, <1>4, <1>5, <1>6, <1>8 DEF Return, GoOn

\* The end of a pass leaves a typed worker.
LEMMA EndPassLemma ==
  ASSUME ClusterTyped, NEW requeue \in BOOLEAN, EndPass(requeue)
  PROVE  WorkerTyped' /\ queued' \in BOOLEAN /\ timer' \in BOOLEAN
  <1>1. NoPass \in Passes
    BY ConstantAssumptions DEF ConstantAssumptions, NoPass, Passes, Versions
  <1> QED BY <1>1 DEF EndPass, ClusterTyped, WorkerTyped, Stages, ConfigKnown, ConfigStages

LEMMA FinalizerLemma ==
  ASSUME NEW h \in Horizons, NEW f \in BOOLEAN
  PROVE  /\ WithFinalizer(h, f) \in Horizons
         /\ WithFinalizer(h, f).finalizer = f
         /\ WithFinalizer(h, f).generation = h.generation
         /\ WithFinalizer(h, f).status = h.status
         /\ WithFinalizer(h, f).life = IF h.life = "deleting" /\ ~f THEN "gone" ELSE h.life
  BY DEF WithFinalizer, Horizons

\* The metadata patch writes the finalizer of the object in memory, if it
\* differs from what was read.
LEMMA PatchMetadataStep ==
  ASSUME Typed, PatchMetadata
  PROVE  /\ Typed' /\ pc = "patch"
         /\ \/ cr' = cr
            \/ /\ instance.finalizer # before.finalizer /\ cr.life # "gone"
               /\ cr' = WithFinalizer(cr, instance.finalizer)
         /\ \/ /\ pc' = "status" /\ instance'.finalizer = instance.finalizer
               /\ instance'.status.observed = instance.status.observed
               /\ before' = before
            \/ pc' = "idle"
         /\ UNCHANGED <<seen, protected>>
  <1> DEFINE changes == instance.finalizer # before.finalizer
             written == IF changes /\ cr.life # "gone"
                        THEN WithFinalizer(cr, instance.finalizer) ELSE cr
  <1>1. ClusterTyped /\ WorkerTyped /\ pc = "patch"
    BY TypedParts DEF PatchMetadata
  <1>2. before \in Horizons /\ instance \in Horizons /\ instance.finalizer \in BOOLEAN
    BY <1>1 DEF WorkerTyped, Horizons
  <1>3. written \in Horizons
    BY <1>1, <1>2, FinalizerLemma DEF ClusterTyped
  <1>4. Mirror(instance.status.conds) \in CondStatus
    BY MirrorLemma
  <1>5. Kept(Mirrored(instance)) /\ Mirrored(instance) \in Horizons
    BY <1>2, <1>4, MarkLemma DEF Mirrored, Kept, CondTypes, ListedConds
  <1>6. /\ cr' \in {cr, written}
        /\ left' \in [Kinds -> Nat]
        /\ UNCHANGED <<inputs, topoVars, ownedVars, cacheVars>>
    BY <1>1, FailsLemma DEF PatchMetadata, ClusterTyped
  <1>7. CASE /\ GoOn("status", Mirrored(instance), pass) /\ UNCHANGED <<before, queueVars>>
    <2>1. WorkerTyped'
      BY <1>1, <1>2, <1>5, <1>7
         DEF GoOn, WorkerTyped, Stages, ConfigKnown, ConfigStages
    <2>2. ClusterTyped'
      BY <1>1, <1>3, <1>6, <1>7 DEF ClusterTyped, topoVars, ownedVars,
         cacheVars, copies, queueVars
    <2>3. Typed'
      BY <2>1, <2>2 DEF Typed, TypeOK, ClusterTyped, WorkerTyped
    <2> QED BY <1>1, <1>5, <1>6, <1>7, <2>3 DEF GoOn, Kept, topoVars, cacheVars, copies
  <1>8. CASE EndPass(TRUE)
    <2>1. WorkerTyped' /\ queued' \in BOOLEAN /\ timer' \in BOOLEAN
      BY <1>1, <1>8, EndPassLemma
    <2>2. ClusterTyped'
      BY <1>1, <1>3, <1>6, <2>1 DEF ClusterTyped, topoVars, ownedVars, cacheVars, copies
    <2>3. Typed'
      BY <2>1, <2>2 DEF Typed, TypeOK, ClusterTyped, WorkerTyped
    <2> QED BY <1>1, <1>6, <1>8, <2>3 DEF EndPass, topoVars, cacheVars, copies
  <1> QED BY <1>7, <1>8 DEF PatchMetadata

\* The status patch moves the observed generation to that of the pass at most.
LEMMA PatchStatusStep ==
  ASSUME Typed, PatchStatus
  PROVE  /\ Typed' /\ pc = "status" /\ pc' = "idle"
         /\ cr'.status.observed \in {cr.status.observed, instance.status.observed}
         /\ cr'.life = cr.life /\ cr'.finalizer = cr.finalizer
         /\ cr'.generation = cr.generation
         /\ UNCHANGED <<seen, protected>>
  <1> DEFINE status == PatchedStatus(before.status, instance.status, cr.status)
             written == IF cr.life = "gone" THEN cr ELSE [cr EXCEPT !.status = status]
  <1>1. ClusterTyped /\ WorkerTyped /\ pc = "status" /\ cr \in Horizons
    BY TypedParts DEF PatchStatus, ClusterTyped
  <1>2. /\ before.status \in Statuses /\ instance.status \in Statuses
        /\ cr.status \in Statuses
    BY <1>1 DEF WorkerTyped, ClusterTyped, Horizons
  <1>3. /\ status \in Statuses
        /\ status.observed \in {cr.status.observed, instance.status.observed}
    BY <1>2, PatchedStatusLemma
  <1>4. /\ written \in Horizons
        /\ written.status.observed \in {cr.status.observed, instance.status.observed}
        /\ written.life = cr.life /\ written.finalizer = cr.finalizer
        /\ written.generation = cr.generation
    <2> HIDE DEF status
    <2> QED BY <1>1, <1>3 DEF Horizons
  <1>5. written = IF cr.life = "gone" THEN cr
                  ELSE [cr EXCEPT !.status =
                          PatchedStatus(before.status, instance.status, @)]
    BY <1>1 DEF Horizons
  <1> HIDE DEF written
  <1>6. /\ cr' \in {cr, written} /\ left' \in [Kinds -> Nat]
        /\ \E r \in BOOLEAN : EndPass(r)
        /\ UNCHANGED <<inputs, topoVars, ownedVars, cacheVars>>
    BY <1>1, <1>5, FailsLemma DEF PatchStatus, ClusterTyped
  <1>7. WorkerTyped' /\ queued' \in BOOLEAN /\ timer' \in BOOLEAN
    BY <1>1, <1>6, EndPassLemma
  <1>8. ClusterTyped'
    BY <1>1, <1>4, <1>6, <1>7 DEF ClusterTyped, topoVars, ownedVars, cacheVars, copies
  <1>9. Typed'
    BY <1>7, <1>8 DEF Typed, TypeOK, ClusterTyped, WorkerTyped
  <1> QED BY <1>1, <1>4, <1>6, <1>9 DEF EndPass, topoVars, cacheVars, copies

\* Around the worker nothing touches what it holds.
LEMMA OutsideLemma ==
  ASSUME Typed, Outside, ClusterTyped'
  PROVE  Typed' /\ UNCHANGED <<pc, before, instance, pass>>
  BY DEF Typed, TypeOK, ClusterTyped, Outside, workerVars, ConfigKnown

\* Steps that concern neither the object, nor its cached copy, nor finalizers
\* of Topologies.
Elsewhere ==
  \/ TimerFires \/ (\E k \in OwnedKinds : DeliverOwned(k)) \/ RollOut \/ CollectGarbage
  \/ ChangeInput \/ ChangeTopology \/ LoseOwned \/ PodFails

LEMMA InputLemma ==
  ASSUME inputs \in Inputs, NEW f \in InputNames, NEW v \in InputValues(f)
  PROVE  [inputs EXCEPT ![f] = v] \in Inputs
  <1>1. CASE f \in {"secret", "ca", "cert", "keystone", "memcached"}
    <2>1. v \in Versions
      BY <1>1 DEF InputValues
    <2> QED BY <1>1, <2>1 DEF Inputs
  <1>2. CASE f = "nad"
    BY <1>2 DEF Inputs, InputValues
  <1>3. CASE f = "services"
    <2>1. v \in BOOLEAN
      BY <1>3 DEF InputValues
    <2> QED BY <1>3, <2>1 DEF Inputs
  <1> QED BY <1>1, <1>2, <1>3 DEF InputNames

LEMMA RollOutLemma ==
  ASSUME NEW d \in Deployments
  PROVE  /\ [d EXCEPT !.rollout = "rolling"] \in Deployments
         /\ [d EXCEPT !.rollout = "complete", !.up = d.template.replicas] \in Deployments
         /\ d.up > 0 => [d EXCEPT !.rollout = "rolling", !.up = @ - 1] \in Deployments
  <1>1. d.up \in 0 .. MaxReplicas /\ d.template.replicas \in 0 .. MaxReplicas
    BY DEF Deployments, Templates
  <1>2. d.up > 0 => d.up - 1 \in 0 .. MaxReplicas
    BY <1>1, ConstantAssumptions DEF ConstantAssumptions
  <1>3. \A n \in 0 .. MaxReplicas, r \in {"rolling", "complete"} :
          [d EXCEPT !.rollout = r, !.up = n] \in Deployments
    BY DEF Deployments
  <1>4. [d EXCEPT !.rollout = "rolling"] \in Deployments
    BY DEF Deployments
  <1> QED BY <1>1, <1>2, <1>3, <1>4

LEMMA DeliveredTyped ==
  ASSUME ClusterTyped, NEW k \in OwnedKinds
  PROVE  [shown EXCEPT ![k] = Made[k]] \in OwnedObjects
  BY DEF ClusterTyped, Made, OwnedObjects, OwnedKinds

LEMMA ElsewhereStep ==
  ASSUME Typed, Elsewhere
  PROVE  Typed' /\ UNCHANGED <<cr, seen, protected, pc, before, instance>>
  <1>1. ClusterTyped
    BY TypedParts
  <1>2. CASE TimerFires
    <2>1. ClusterTyped'
      BY <1>1, <1>2 DEF TimerFires, ClusterTyped, topoVars, ownedVars, cacheVars, copies
    <2> QED BY <1>2, <2>1, OutsideLemma DEF TimerFires, topoVars, cacheVars, copies
  <1>3. ASSUME NEW k \in OwnedKinds, DeliverOwned(k)
        PROVE  Typed' /\ UNCHANGED <<cr, seen, protected, pc, before, instance>>
    <2>1. shown' \in OwnedObjects
      BY <1>1, <1>3, DeliveredTyped DEF DeliverOwned, ClusterTyped
    <2>2. ClusterTyped'
      BY <1>1, <1>3, <2>1 DEF DeliverOwned, Enqueue, ClusterTyped, topoVars, ownedVars
    <2> QED BY <1>3, <2>2, OutsideLemma DEF DeliverOwned, topoVars
  <1>4. CASE RollOut
    <2>1. deployment' \in Deployments \cup {None}
      BY <1>1, <1>4, RollOutLemma DEF RollOut, ClusterTyped
    <2>2. ClusterTyped'
      BY <1>1, <1>4, <2>1, OwnedEventsTyped
         DEF RollOut, MadeTyped, ClusterTyped, topoVars
    <2> QED BY <1>4, <2>2, OutsideLemma DEF RollOut, topoVars
  <1>5. CASE PodFails
    <2>1. deployment' \in Deployments \cup {None}
      BY <1>1, <1>5, RollOutLemma DEF PodFails, ClusterTyped
    <2>2. ClusterTyped'
      BY <1>1, <1>5, <2>1, OwnedEventsTyped, SpendLemma
         DEF PodFails, Kinds, MadeTyped, ClusterTyped, topoVars
    <2> QED BY <1>5, <2>2, OutsideLemma DEF PodFails, topoVars
  <1>6. CASE CollectGarbage
    <2>1. ClusterTyped'
      BY <1>1, <1>6, OwnedEventsTyped
         DEF CollectGarbage, MadeTyped, ClusterTyped, topoVars
    <2> QED BY <1>6, <2>1, OutsideLemma DEF CollectGarbage, topoVars
  <1>7. CASE LoseOwned
    <2>1. rbac' \in BOOLEAN
      BY <1>1, <1>7 DEF LoseOwned, ClusterTyped
    <2>2. /\ configMap' \in Configs \cup {None} /\ secretKey' \in Nat
          /\ service' \in {"none", "http", "https"}
          /\ deployment' \in Deployments \cup {None}
      BY <1>1, <1>7 DEF LoseOwned, ClusterTyped
    <2>3. ClusterTyped'
      BY <1>1, <1>7, <2>1, <2>2, OwnedEventsTyped, SpendLemma
         DEF LoseOwned, Kinds, MadeTyped, ClusterTyped, topoVars
    <2> QED BY <1>7, <2>3, OutsideLemma DEF LoseOwned, topoVars
  <1>8. CASE ChangeInput
    <2>1. PICK f \in InputNames :
                 \E v \in InputValues(f) : inputs' = [inputs EXCEPT ![f] = v]
      BY <1>8, ConstantAssumptions DEF ChangeInput, ConstantAssumptions
    <2>2. inputs' \in Inputs
      BY <1>1, <2>1, InputLemma DEF ClusterTyped
    <2>3. queued' \in BOOLEAN /\ timer' = timer
      BY <1>1, <1>8 DEF ChangeInput, Enqueue, ClusterTyped
    <2>4. ClusterTyped'
      BY <1>1, <1>8, <2>2, <2>3, SpendLemma DEF ChangeInput, Kinds, ClusterTyped,
         topoVars, ownedVars, cacheVars, copies
    <2> QED BY <1>8, <2>4, OutsideLemma DEF ChangeInput, topoVars, cacheVars, copies
  <1>9. CASE ChangeTopology
    <2>1. topologies' \in [Topologies -> Versions]
      BY <1>1, <1>9 DEF ChangeTopology, ClusterTyped
    <2>2. queued' \in BOOLEAN /\ timer' = timer
      BY <1>1, <1>9 DEF ChangeTopology, Enqueue, ClusterTyped
    <2>3. ClusterTyped'
      BY <1>1, <1>9, <2>1, <2>2, SpendLemma DEF ChangeTopology, Kinds, ClusterTyped,
         ownedVars, cacheVars, copies
    <2> QED BY <1>9, <2>3, OutsideLemma DEF ChangeTopology, cacheVars, copies
  <1> QED
    BY <1>2, <1>3, <1>4, <1>5, <1>6, <1>7, <1>8, <1>9 DEF Elsewhere

LEMMA GetNotFoundStep ==
  ASSUME Typed, GetNotFound
  PROVE  Typed' /\ UNCHANGED <<cr, seen, protected, pc, before, instance>>
  BY DEF GetNotFound, Typed, TypeOK, ConfigKnown, topoVars, ownedVars,
     cacheVars, copies, workerVars

LEMMA DeliverHorizonStep ==
  ASSUME Typed, DeliverHorizon
  PROVE  Typed' /\ seen' = cr /\ UNCHANGED <<cr, protected, pc, before, instance>>
  <1>1. ClusterTyped'
    BY TypedParts DEF DeliverHorizon, Enqueue, ClusterTyped, topoVars, ownedVars, copies
  <1> QED BY <1>1, OutsideLemma DEF DeliverHorizon, topoVars

LEMMA EditSpecStep ==
  ASSUME Typed, EditSpec
  PROVE  /\ Typed' /\ UNCHANGED <<seen, protected, pc, before, instance>>
         /\ cr'.life = cr.life /\ cr'.finalizer = cr.finalizer
         /\ cr'.status = cr.status /\ cr'.generation = cr.generation + 1
  <1> DEFINE n == cr.generation + 1
  <1>1. ClusterTyped /\ cr \in Horizons /\ n \in Nat
    BY TypedParts DEF ClusterTyped, Horizons
  <1>2. PICK s \in HorizonSpecs : cr' = [cr EXCEPT !.spec = s, !.generation = n]
    BY ConstantAssumptions DEF ConstantAssumptions, EditSpec
  <1> HIDE DEF n
  <1>3. /\ cr' \in Horizons
        /\ cr'.life = cr.life /\ cr'.finalizer = cr.finalizer
        /\ cr'.status = cr.status /\ cr'.generation = n
    BY <1>1, <1>2 DEF Horizons
  <1>4. ClusterTyped'
    BY <1>1, <1>3, SpendLemma DEF EditSpec, Kinds, ClusterTyped, topoVars, ownedVars,
       cacheVars, copies, queueVars
  <1> QED BY <1>3, <1>4, OutsideLemma DEF EditSpec, topoVars, cacheVars, copies, n

LEMMA DeleteHorizonStep ==
  ASSUME Typed, DeleteHorizon
  PROVE  /\ Typed' /\ UNCHANGED <<seen, protected, pc, before, instance>>
         /\ cr'.life = IF cr.finalizer THEN "deleting" ELSE "gone"
         /\ cr'.finalizer = cr.finalizer
         /\ cr'.status = cr.status /\ cr'.generation = cr.generation + 1
  <1> DEFINE n == cr.generation + 1
             l == IF cr.finalizer THEN "deleting" ELSE "gone"
  <1>1. ClusterTyped /\ cr \in Horizons /\ n \in Nat /\ cr.spec \in HorizonSpecs
    BY TypedParts DEF ClusterTyped, Horizons
  <1>2. cr' = [cr EXCEPT !.life = l, !.generation = n]
    BY DEF DeleteHorizon
  <1>3. l \in {"live", "deleting", "gone"}
    OBVIOUS
  <1> HIDE DEF n, l
  <1>4. /\ cr' \in Horizons /\ cr'.life = l /\ cr'.finalizer = cr.finalizer
        /\ cr'.status = cr.status /\ cr'.generation = n
    BY <1>1, <1>2, <1>3 DEF Horizons
  <1>5. ClusterTyped'
    BY <1>1, <1>4, SpendLemma DEF DeleteHorizon, Kinds, ClusterTyped, topoVars, ownedVars,
       cacheVars, copies, queueVars
  <1> QED BY <1>4, <1>5, OutsideLemma DEF DeleteHorizon, topoVars, cacheVars, copies, n, l

LEMMA CrashStep ==
  ASSUME Typed, Crash
  PROVE  Typed' /\ pc' = "idle" /\ seen' = cr /\ UNCHANGED <<cr, protected>>
  <1>1. NoPass \in Passes
    BY ConstantAssumptions DEF ConstantAssumptions, NoPass, Passes, Versions
  <1>2. Made \in OwnedObjects
    BY DEF Typed, TypeOK, Made, OwnedObjects
  <1> QED
    BY <1>1, <1>2, SpendLemma DEF Crash, Kinds, Typed, TypeOK, Stages, ConfigKnown,
       ConfigStages, topoVars, ownedVars

LEMMA InitTyped == Init => Typed
  <1> SUFFICES ASSUME Init PROVE Typed
    OBVIOUS
  <1>1. PICK s \in Starts :
          /\ cr = [life |-> "live", generation |-> 1, spec |-> s.spec,
                   finalizer |-> FALSE, status |-> NewStatus]
          /\ inputs = s.inputs /\ topologies = s.topologies /\ left = s.limit
    BY DEF Init
  <1>2. /\ s.spec \in HorizonSpecs /\ s.inputs \in Inputs
        /\ s.topologies \in [Topologies -> Versions] /\ s.limit \in [Kinds -> Nat]
    BY ConstantAssumptions DEF ConstantAssumptions
  <1>3. NewStatus \in Statuses
    <2>1. NoConds \in [CondTypes -> CondStatus]
      BY DEF NoConds, CondStatus
    <2>2. 0 \in 0 .. MaxReplicas
      BY ConstantAssumptions DEF ConstantAssumptions
    <2> QED BY <2>1, <2>2 DEF NewStatus, Statuses
  <1>4. cr \in Horizons
    BY <1>1, <1>2, <1>3 DEF Horizons
  <1>5. NoPass \in Passes
    BY ConstantAssumptions DEF ConstantAssumptions, NoPass, Passes, Versions
  <1>6. Absent \in OwnedObjects
    BY DEF Absent, OwnedObjects
  <1> QED
    BY <1>1, <1>2, <1>4, <1>5, <1>6
       DEF Init, Typed, TypeOK, Stages, ConfigKnown, ConfigStages

\* The steps that are neither stages nor elsewhere.
LEMMA NextCases ==
  Next <=> \/ GetNotFound \/ Get \/ ReconcileDelete \/ Stage
           \/ PatchMetadata \/ PatchStatus
           \/ Elsewhere
           \/ DeliverHorizon \/ EditSpec \/ DeleteHorizon \/ Crash
  BY DEF Next, Worker, Machinery, Environment, Stage, Elsewhere

LEMMA StutterLemma ==
  ASSUME UNCHANGED vars
  PROVE  /\ UNCHANGED <<cr, seen, protected, pc, before, instance>>
         /\ Typed => Typed'
  BY DEF vars, topoVars, ownedVars, cacheVars, copies, queueVars, workerVars, Typed,
     TypeOK, ConfigKnown

LEMMA NextTyped == Typed /\ [Next]_vars => Typed'
  BY NextCases, StutterLemma, GetNotFoundStep, GetStep, ReconcileDeleteStep, StageLemma,
     PatchMetadataStep, PatchStatusStep, ElsewhereStep, DeliverHorizonStep,
     EditSpecStep, DeleteHorizonStep, CrashStep

\* Every variable always has its type, and a stage that needs the rendered
\* configuration has it.
THEOREM TypeCorrect == Spec => []Typed
  BY InitTyped, NextTyped, PTL DEF Spec

\* In the form the runs check: every variable always has its type.
THEOREM TypeCorrectness == Spec => []TypeOK
  <1>1. Typed => TypeOK
    BY DEF Typed
  <1> QED BY <1>1, TypeCorrect, PTL

-----------------------------------------------------------------------------
(* The invariant behind the guarantees.  The worker acts on a copy of the    *)
(* object that may be old; what makes this safe is what an old copy still    *)
(* says about the object of today.                                           *)

\* A cached copy that shows a live object with the finalizer is proof that the
\* finalizer is still there, and a deletion that was seen is not undone.
FinalizerStays ==
  /\ seen.life = "live" /\ seen.finalizer => cr.finalizer /\ cr.life # "gone"
  /\ seen.life # "live" => cr.life # "live"

\* The same for the copy the pass was started with; and only a pass that was
\* started for a deletion leaves the finalizer off.
PassGuarded ==
  pc # "idle" =>
    /\ before.life = "live" /\ before.finalizer => cr.finalizer /\ cr.life # "gone"
    /\ before.life = "deleting" => seen.life # "live"
    /\ ~instance.finalizer => before.life = "deleting"
    /\ pc = "delete" => before.life = "deleting"
    /\ pc \in WorkStages => before.life = "live" /\ before.finalizer

\* A pass about to take the finalizer off has released the Topology.
ReleasedFirst ==
  /\ pc = "delete" /\ before.finalizer => instance.finalizer
  /\ pc = "patch" /\ before.finalizer /\ ~instance.finalizer
       => instance.status.topology \notin protected

\* Observed generation, the copies' generations and the real one are in order.
GenerationsInOrder ==
  /\ cr.status.observed <= seen.generation /\ seen.generation <= cr.generation
  /\ pc # "idle" => /\ instance.status.observed = before.generation
                    /\ cr.status.observed <= before.generation
                    /\ before.generation <= seen.generation

Guarded ==
  FinalizerStays /\ PassGuarded /\ ReleasedFirst /\ GenerationsInOrder

LEMMA InitGuarded == Init => Guarded
  BY DEF Init, NewStatus, Guarded, FinalizerStays, PassGuarded, ReleasedFirst,
     GenerationsInOrder

\* What the types give to the proofs below.
LEMMA Generations ==
  ASSUME Typed
  PROVE  /\ cr.generation \in Nat /\ seen.generation \in Nat
         /\ cr.status.observed \in Nat
         /\ pc # "idle" => /\ before.generation \in Nat
                           /\ before.finalizer \in BOOLEAN
                           /\ instance.finalizer \in BOOLEAN
         /\ cr.finalizer \in BOOLEAN /\ seen.finalizer \in BOOLEAN
         /\ cr.life \in {"live", "deleting", "gone"}
         /\ seen.life \in {"live", "deleting", "gone"}
  BY DEF Typed, TypeOK, Horizons, Statuses

LEMMA NextGuarded ==
  ASSUME Typed, Guarded, [Next]_vars
  PROVE  Guarded'
  <1> USE DEF Guarded, FinalizerStays, PassGuarded, ReleasedFirst, GenerationsInOrder
  <1>1. CASE UNCHANGED <<cr, seen, protected, pc, before, instance>>
    BY <1>1
  <1>2. CASE Get
    <2>1. seen.life # "gone" /\ pc' = FirstStage(seen)
      BY <1>2, GetStep DEF Get
    <2>2. /\ FirstStage(seen) \in WorkStages => seen.life = "live" /\ seen.finalizer
          /\ FirstStage(seen) = "delete" => seen.life = "deleting"
      BY <2>1, Generations DEF FirstStage, AddsFinalizer, WorkStages
    <2>3. ~instance'.finalizer => ~seen.finalizer /\ seen.life = "deleting"
      BY <1>2, <2>1, GetStep, Generations DEF AddsFinalizer
    <2> QED BY <1>2, <2>1, <2>2, <2>3, GetStep, Generations
  <1>3. CASE ReconcileDelete
    <2>1. /\ pc = "delete" /\ pc' = "patch"
          /\ instance'.status = instance.status
          /\ \/ instance'.finalizer = instance.finalizer
             \/ instance'.status.topology \notin protected'
          /\ UNCHANGED <<cr, seen, before>>
      BY <1>3, ReconcileDeleteStep
    <2>2. before.life = "deleting" /\ (before.finalizer => instance.finalizer)
      BY <2>1
    <2> QED BY <2>1, <2>2 DEF WorkStages
  <1>4. CASE Stage
    <2>1. /\ pc \in WorkStages /\ pc' \in WorkStages \cup {"patch"}
          /\ instance'.finalizer = instance.finalizer
          /\ instance'.status.observed = instance.status.observed
          /\ UNCHANGED <<cr, seen, before>>
      BY <1>4, StageLemma DEF Advance
    <2>2. pc # "idle" /\ pc' # "idle" /\ pc' # "delete"
      BY <2>1 DEF WorkStages
    <2>3. instance.finalizer /\ before.life = "live" /\ before.finalizer
      BY <2>1, <2>2
    <2> QED BY <2>1, <2>2, <2>3
  <1>5. CASE PatchMetadata
    <2> DEFINE removes == /\ instance.finalizer # before.finalizer /\ cr.life # "gone"
                          /\ cr' = WithFinalizer(cr, instance.finalizer)
    <2>1. /\ pc = "patch" /\ UNCHANGED <<seen, protected>>
          /\ cr' = cr \/ removes
          /\ \/ /\ pc' = "status" /\ instance'.finalizer = instance.finalizer
                /\ instance'.status.observed = instance.status.observed
                /\ before' = before
             \/ pc' = "idle"
      BY <1>5, PatchMetadataStep
    <2>2. CASE cr' = cr
      BY <2>1, <2>2 DEF WorkStages
    <2>3. CASE removes
      <3>1. /\ cr'.finalizer = instance.finalizer
            /\ cr'.generation = cr.generation /\ cr'.status = cr.status
            /\ cr'.life = IF cr.life = "deleting" /\ ~instance.finalizer
                          THEN "gone" ELSE cr.life
        BY <2>1, <2>3, FinalizerLemma, Generations DEF Typed, TypeOK
      <3>2. instance.finalizer => FinalizerStays'
        BY <2>1, <2>3, <3>1
      <3>3. ~instance.finalizer => before.life = "deleting" /\ seen.life # "live"
        BY <2>1
      <3>4. FinalizerStays'
        BY <2>1, <2>3, <3>1, <3>2, <3>3, Generations
      <3>5. PassGuarded' /\ ReleasedFirst' /\ GenerationsInOrder'
        BY <2>1, <2>3, <3>1, <3>3, Generations DEF WorkStages
      <3> QED BY <3>4, <3>5
    <2> QED BY <2>1, <2>2, <2>3
  <1>6. CASE PatchStatus
    BY <1>6, PatchStatusStep, Generations
  <1>7. CASE DeliverHorizon
    BY <1>7, DeliverHorizonStep, Generations
  <1>8. CASE EditSpec
    BY <1>8, EditSpecStep, Generations
  <1>9. CASE DeleteHorizon
    BY <1>9, DeleteHorizonStep, Generations DEF DeleteHorizon
  <1>10. CASE Crash
    BY <1>10, CrashStep, Generations
  <1> QED
    BY <1>1, <1>2, <1>3, <1>4, <1>5, <1>6, <1>7, <1>8, <1>9, <1>10, NextCases,
       StutterLemma, GetNotFoundStep, ElsewhereStep

LEMMA AlwaysGuarded == Spec => [](Typed /\ Guarded)
  BY InitTyped, InitGuarded, NextTyped, NextGuarded, PTL DEF Spec

-----------------------------------------------------------------------------
(* What follows from it.                                                     *)

\* Whenever a stage of reconcileNormal runs, however stale the copies are, the
\* object carries the finalizer and exists: what the stage makes is cleaned up.
THEOREM WorkIsGuarded == Spec => []FinalizerGuardsWork
  <1>1. Guarded => FinalizerGuardsWork
    BY DEF Guarded, PassGuarded, FinalizerGuardsWork, WorkStages
  <1> QED BY <1>1, AlwaysGuarded, PTL

\* The only step that removes an object with the finalizer is a metadata patch.
LEMMA RemovalStep ==
  ASSUME Typed, Guarded, [Next]_vars,
         cr.finalizer, cr.life # "gone", cr'.life = "gone"
  PROVE  instance.status.topology \notin protected
  <1>1. CASE PatchMetadata
    <2>1. /\ pc = "patch" /\ cr' # cr
          /\ instance.finalizer # before.finalizer
          /\ cr' = WithFinalizer(cr, instance.finalizer)
      BY <1>1, PatchMetadataStep
    <2>2. instance.finalizer \in BOOLEAN /\ before.finalizer \in BOOLEAN /\ cr \in Horizons
      BY <2>1, Generations DEF Typed, TypeOK
    <2>3. ~instance.finalizer
      BY <2>1, <2>2, FinalizerLemma
    <2> QED BY <2>1, <2>2, <2>3 DEF Guarded, ReleasedFirst
  <1> QED
    BY <1>1, NextCases, StutterLemma, GetNotFoundStep, GetStep, ReconcileDeleteStep,
       StageLemma, PatchStatusStep, ElsewhereStep, DeliverHorizonStep, EditSpecStep,
       DeleteHorizonStep, CrashStep DEF Advance

\* The object goes only after the Topology recorded in it was released.
THEOREM RemovalReleases == Spec => ReleaseBeforeRemoval
  <1>1. Typed /\ Guarded /\ [Next]_vars
          => [cr.finalizer /\ cr.life # "gone" /\ cr'.life = "gone"
                => instance.status.topology \notin protected]_vars
    BY RemovalStep
  <1> QED BY <1>1, AlwaysGuarded, PTL DEF Spec, ReleaseBeforeRemoval

LEMMA ObservedStep ==
  ASSUME Typed, Guarded, [Next]_vars
  PROVE  /\ cr.status.observed <= cr'.status.observed
         /\ cr'.status.observed <= cr'.generation
  <1> USE DEF Guarded, GenerationsInOrder
  <1>1. CASE cr' = cr
    BY <1>1, Generations
  <1>2. CASE PatchStatus
    BY <1>2, PatchStatusStep, Generations
  <1>3. CASE PatchMetadata /\ cr' # cr
    <2>1. pc = "patch" /\ cr' = WithFinalizer(cr, instance.finalizer)
      BY <1>3, PatchMetadataStep
    <2>2. instance.finalizer \in BOOLEAN /\ cr \in Horizons
      BY <2>1, Generations DEF Typed, TypeOK
    <2>3. cr'.status = cr.status /\ cr'.generation = cr.generation
      BY <2>1, <2>2, FinalizerLemma
    <2> QED BY <2>3, Generations
  <1>4. CASE EditSpec \/ DeleteHorizon
    BY <1>4, EditSpecStep, DeleteHorizonStep, Generations
  <1> QED
    BY <1>1, <1>2, <1>3, <1>4, NextCases, StutterLemma, GetNotFoundStep, GetStep,
       ReconcileDeleteStep, StageLemma, ElsewhereStep, DeliverHorizonStep, CrashStep
       DEF Advance

\* The observed generation never goes back and never runs ahead.
THEOREM ObservedGrows == Spec => ObservedMonotone
  <1>1. Typed /\ Guarded /\ [Next]_vars
          => [cr.status.observed <= cr'.status.observed
              /\ cr'.status.observed <= cr'.generation]_vars
    BY ObservedStep
  <1> QED BY <1>1, AlwaysGuarded, PTL DEF Spec, ObservedMonotone
=============================================================================
