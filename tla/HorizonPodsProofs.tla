--------------------------- MODULE HorizonPodsProofs ---------------------------
(***************************************************************************)
(* What the steps of HorizonPods roll out and what pods run with, for      *)
(* every value of the constants.  HorizonPods only adds to                 *)
(* HorizonReconcile, so what is proved of the reconcile loop carries over: *)
(* its types, its refinement, and what holds of it at rest.                *)
(*                                                                         *)
(* The invariant PodInv says of each pod that the configuration it copied  *)
(* is no older than the one its template names (PodsFollow), and of a      *)
(* complete roll-out that the pods are those of the template.              *)
(***************************************************************************)
EXTENDS HorizonPods, HorizonServiceProofs, HorizonQuietProofs, SequenceTheorems, FiniteSetTheorems

-----------------------------------------------------------------------------
(* HorizonPods restricts HorizonReconcile.                                   *)

\* With pods, the loop takes no step it could not take without.
LEMMA PodStep == [PodNext]_podVars => [Next]_vars
  <1>1. UNCHANGED podVars => UNCHANGED vars
    BY DEF podVars
  <1>2. WithoutPods \/ RollOutPods \/ LosePod => Next
    BY DEF WithoutPods, RollOutPods, LosePod, Next, Machinery, Environment
  <1>3. PodNext => WithoutPods \/ RollOutPods \/ LosePod \/ UNCHANGED vars
    BY DEF PodNext
  <1> QED BY <1>1, <1>2, <1>3

\* So what holds of the loop holds of the composition.
LEMMA PodsRestrict == PodSpec => Spec
  BY PodStep, PTL DEF PodSpec, PodInit, Spec

\* The reconcile loop keeps its promise next to the pods, too.
THEOREM PodsRefine == PodSpec => ImplementsService
  BY PodsRestrict, Refinement, PTL

-----------------------------------------------------------------------------
(* A pass hashes one configuration, the one it was shown or has written.     *)

\* The stages after the rendering keep the configuration they are to hash.
LEMMA ConfigKept ==
  ASSUME Typed, Stage, pc # "config"
  PROVE  /\ configMap' = configMap
         /\ pc' \in ConfigStages => pc \in ConfigStages /\ pass'.config = pass.config
  <1> USE DEF Reads, Unowned, Fixed
  <1>1. pass \in Passes
    BY DEF Typed, TypeOK
  <1>2. ASSUME NEW r, NEW i, Return(r, i) PROVE pc' \notin ConfigStages
    BY <1>2 DEF Return, GoOn, ConfigStages
  <1>3. CASE ReconcileRbac \/ CheckSecret \/ CheckMemcached \/ CheckCA \/ CheckCert
    <2>1. pc' \notin ConfigStages
      BY <1>3 DEF ReconcileRbac, CheckSecret, CheckMemcached, CheckCA, CheckCert, GoOn, Return,
         ConfigStages
    <2>2. configMap' = configMap
      BY <1>3 DEF ReconcileRbac, CheckSecret, CheckMemcached, CheckCA, CheckCert,
         Reads, ownedVars
    <2> QED BY <2>1, <2>2
  <1>4. CASE EnsureHorizonSecret
    <2>1. configMap' = configMap /\ pc \in ConfigStages
      BY <1>4 DEF EnsureHorizonSecret, ConfigStages
    <2>2. pc' \notin ConfigStages \/ pass' = pass \/ pass' = [pass EXCEPT !.key = keysMade']
      BY <1>2, <1>4 DEF EnsureHorizonSecret, GoOn
    <2> QED BY <1>1, <2>1, <2>2 DEF Passes
  <1>5. CASE CheckHash \/ ReleaseTopology
    <2>1. configMap' = configMap /\ pc \in ConfigStages
      BY <1>5 DEF CheckHash, ReleaseTopology, Reads, ownedVars, ConfigStages
    <2>2. pc' \notin ConfigStages \/ pass' = pass
      BY <1>2, <1>5 DEF CheckHash, ReleaseTopology, GoOn
    <2> QED BY <2>1, <2>2
  <1>6. CASE CheckKeystoneServices
    <2>1. configMap' = configMap /\ pc \in ConfigStages
      BY <1>6 DEF CheckKeystoneServices, Reads, ownedVars, ConfigStages
    <2>2. pc' \notin ConfigStages \/ pass' = [pass EXCEPT !.services = inputs.services]
      BY <1>2, <1>6 DEF CheckKeystoneServices, GoOn
    <2> QED BY <1>1, <2>1, <2>2 DEF Passes
  <1>7. CASE ReconcileInit
    <2>1. configMap' = configMap /\ pc \in ConfigStages
      BY <1>7 DEF ReconcileInit, ConfigStages
    <2>2. pc' \notin ConfigStages \/ pass' = pass
      BY <1>2, <1>7 DEF ReconcileInit, GoOn
    <2> QED BY <2>1, <2>2
  <1>8. CASE EnsureNAD
    <2>1. configMap' = configMap /\ pc \in ConfigStages
      BY <1>8 DEF EnsureNAD, Reads, ownedVars, ConfigStages
    <2>2. pc' \notin ConfigStages \/ \E nets : pass' = [pass EXCEPT !.networks = nets]
      BY <1>2, <1>8 DEF EnsureNAD, GoOn
    <2> QED BY <1>1, <2>1, <2>2 DEF Passes
  <1>9. CASE CreateOrPatchDeployment \/ VerifyAndFinish
    <2>1. configMap' = configMap
      BY <1>9 DEF CreateOrPatchDeployment, VerifyAndFinish, Reads, ownedVars
    <2>2. pc' \notin ConfigStages
      BY <1>2, <1>9 DEF CreateOrPatchDeployment, VerifyAndFinish, Deployed, GoOn, ConfigStages
    <2> QED BY <2>1, <2>2
  <1>10. CASE GenerateConfigMaps
    BY <1>10 DEF GenerateConfigMaps
  <1>11. CASE AcquireTopology
    <2>1. configMap' = configMap /\ pc \in ConfigStages
      BY <1>11 DEF AcquireTopology, ownedVars, ConfigStages
    <2>2. \/ pc' \notin ConfigStages \/ pass' = pass
          \/ pass' = [pass EXCEPT !.topology = topologies[instance.spec.topologyRef]]
      BY <1>2, <1>11 DEF AcquireTopology, GoOn
    <2> QED BY <1>1, <2>1, <2>2 DEF Passes
  <1> QED BY <1>3, <1>4, <1>5, <1>6, <1>7, <1>8, <1>9, <1>10, <1>11 DEF Stage

\* The answer to a patch is what the ConfigMap holds; no patch is sent when the
\* copy shows what is wanted.
LEMMA RenderingStep ==
  ASSUME Typed, GenerateConfigMaps, pc' \in ConfigStages
  PROVE  pass'.config = configMap' \/ pass'.config = shown.ConfigMap
  <1> DEFINE new == Render(instance, pass)
             written == IF shown.ConfigMap = None THEN new
                        ELSE PatchedConfig(shown.ConfigMap, new, configMap)
  <1>1. pass \in Passes /\ pc' # "patch"
    BY DEF Typed, TypeOK, ConfigStages
  <1> HIDE DEF new
  <1>2. \/ shown.ConfigMap = new /\ pass' = [pass EXCEPT !.config = new]
        \/ configMap' = written /\ pass' = [pass EXCEPT !.config = written]
    <2> HIDE DEF written
    <2> QED BY <1>1 DEF GenerateConfigMaps, Return, GoOn, new, written
  <1> HIDE DEF written
  <1> QED BY <1>1, <1>2 DEF Passes

\* What others do leaves the pass alone, and the ConfigMap at most disappears.
LEMMA OthersKeep ==
  ASSUME Typed, ~Stage, [Next]_vars
  PROVE  /\ configMap' \in {configMap, None}
         /\ pc' \in ConfigStages => UNCHANGED <<pc, pass>>
  <1>1. CASE GetNotFound \/ UNCHANGED vars
    BY <1>1 DEF GetNotFound, vars, ownedVars, workerVars
  <1>2. CASE Get
    BY <1>2 DEF Get, ownedVars, GoOn, FirstStage, ConfigStages
  <1>3. CASE ReconcileDelete
    BY <1>3 DEF ReconcileDelete, Unowned, ownedVars, Return, GoOn, ConfigStages
  <1>4. CASE PatchMetadata \/ PatchStatus
    BY <1>4 DEF PatchMetadata, PatchStatus, ownedVars, GoOn, EndPass, ConfigStages
  <1>5. CASE DeliverHorizon \/ EditSpec \/ DeleteHorizon
    BY <1>5 DEF DeliverHorizon, EditSpec, DeleteHorizon, Outside, ownedVars, workerVars
  <1>6. CASE Crash
    BY <1>6 DEF Crash, ownedVars, ConfigStages
  <1>7. CASE Elsewhere
    BY <1>7 DEF Elsewhere, TimerFires, DeliverOwned, RollOut, PodFails, CollectGarbage,
       LoseOwned, ChangeInput, ChangeTopology, Outside, ownedVars, workerVars
  <1> QED BY <1>1, <1>2, <1>3, <1>4, <1>5, <1>6, <1>7, NextCases

-----------------------------------------------------------------------------
(* A new hash in the Deployment.                                             *)

Hash(d) == d.template.containers.hash

\* A Deployment that is patched has the hash it is patched with.
LEMMA PatchedHash ==
  ASSUME NEW old, NEW new, NEW d \in Deployments
  PROVE  Hash(Patch(old, new, d)) = new.containers.hash
  <1> DEFINE t == PatchedTemplate(old, new, d.template)
  <1>1. t.containers = new.containers
    BY DEF PatchedTemplate
  <1>2. Patch(old, new, d) = IF t = d.template THEN d
                             ELSE [d EXCEPT !.template = t, !.rollout = "unseen"]
    BY DEF Patch
  <1> HIDE DEF t
  <1>3. Patch(old, new, d).template = t
    BY <1>2 DEF Deployments
  <1> QED BY <1>1, <1>3 DEF Hash

\* A Deployment that is written has the hash of the configuration of the pass.
LEMMA DeployStep ==
  ASSUME Typed, CreateOrPatchDeployment, deployment' # None
  PROVE  deployment' = deployment \/ Hash(deployment').config = pass.config
  <1> DEFINE new == DeploymentTemplate(instance, pass)
             fresh == [template |-> new, rollout |-> "unseen", up |-> 0]
             patched == Patch(shown.Deployment.template, new, deployment)
  <1>1. new.containers.hash.config = pass.config
    BY DEF DeploymentTemplate, InputHash
  <1>2. deployment \in Deployments \cup {None}
    BY DEF Typed, TypeOK
  <1> HIDE DEF new
  <1>3. Hash(fresh).config = pass.config
    BY <1>1 DEF Hash
  <1>4. deployment # None => Hash(patched).config = pass.config
    BY <1>1, <1>2, PatchedHash
  <1>5. ~Refused("Deployment") => (shown.Deployment = None <=> deployment = None)
    BY DEF Refused, Absent, Made
  <1> HIDE DEF fresh, patched
  <1>6. \/ deployment' = deployment
        \/ deployment' = fresh
        \/ ~Refused("Deployment") /\ shown.Deployment # None /\ deployment' = patched
    BY DEF CreateOrPatchDeployment, new, fresh, patched
  <1> QED BY <1>3, <1>4, <1>5, <1>6

\* Only a pass writes the Deployment, its controller and its pods apart.
LEMMA DeploymentKept ==
  ASSUME WithoutPods \/ UNCHANGED vars, ~CreateOrPatchDeployment
  PROVE  deployment' \in {deployment, None}
  <1>1. CASE GetNotFound \/ Get \/ ReconcileDelete \/ DeliverHorizon \/ UNCHANGED vars
             \/ PatchMetadata \/ PatchStatus \/ EditSpec \/ DeleteHorizon \/ Crash
    BY <1>1 DEF GetNotFound, Get, ReconcileDelete, DeliverHorizon, PatchMetadata, PatchStatus,
       EditSpec, DeleteHorizon, Crash, Unowned, vars, ownedVars
  <1>2. CASE Stage
    BY <1>2 DEF Stage, ReconcileRbac, CheckSecret, CheckMemcached, CheckCA, CheckCert,
       GenerateConfigMaps, EnsureHorizonSecret, CheckHash, CheckKeystoneServices, ReconcileInit,
       EnsureNAD, ReleaseTopology, AcquireTopology, VerifyAndFinish, Reads, Unowned, ownedVars
  <1>3. CASE \/ TimerFires \/ CollectGarbage \/ LoseOwned \/ ChangeInput \/ ChangeTopology
             \/ \E k \in OwnedKinds : DeliverOwned(k)
    BY <1>3 DEF TimerFires, DeliverOwned, CollectGarbage, LoseOwned, ChangeInput,
       ChangeTopology, ownedVars
  <1> QED BY <1>1, <1>2, <1>3 DEF WithoutPods, Worker, Stage

\* What else becomes of the Deployment leaves its template.
LEMMA TemplateKept ==
  ASSUME Typed, [Next]_vars, ~CreateOrPatchDeployment, deployment' # None
  PROVE  deployment # None /\ deployment'.template = deployment.template
  <1>1. CASE WithoutPods \/ UNCHANGED vars
    BY <1>1, DeploymentKept
  <1>2. CASE RollOut \/ PodFails
    <2>1. /\ deployment # None
          /\ \E r, u : deployment' \in {[deployment EXCEPT !.rollout = r],
                                         [deployment EXCEPT !.rollout = r, !.up = u]}
      BY <1>2 DEF RollOut, PodFails
    <2>2. deployment'.template = deployment.template
      BY <2>1 DEF Typed, TypeOK, Deployments
    <2> QED BY <2>1, <2>2
  <1> QED BY <1>1, <1>2 DEF Next, Machinery, Environment, WithoutPods

\* A hash is rolled out that does not name what the ConfigMap holds only while
\* the event that starts another pass is still to come: as long as the key is not
\* queued and the copy of the ConfigMap is not late, what the pass has hashed, of
\* the answer to its patch or of the copy, is what the ConfigMap holds.
THEOREM RolloutIsRendered == PodSpec => RollsOutWhatIsRendered
  <1>1. ASSUME Settling, [PodNext]_podVars, deployment # None, deployment' # None,
               Hash(deployment') # Hash(deployment), ~queued, "ConfigMap" \notin news
        PROVE  configMap = Hash(deployment').config
    <2>1. [Next]_vars /\ Typed
      BY <1>1, PodStep DEF Settling
    <2>2. CreateOrPatchDeployment
      BY <1>1, <2>1, TemplateKept DEF Hash
    <2>3. Hash(deployment').config = pass.config
      BY <1>1, <2>1, <2>2, DeployStep
    <2>4. Past(UpToConfig)
      BY <2>2 DEF CreateOrPatchDeployment, Past, WorkStages, UpToConfig, UpToCert, UpToCA,
         UpToMemcached, UpToSecret, UpToRbac
    <2>5. configMap = pass.config
      BY <1>1, <2>4 DEF Settling, QuietInv, Findings, Holds, ConfigHolds, Unheard
    <2> QED BY <2>3, <2>5
  <1>2. Settling /\ [PodNext]_podVars =>
          [deployment # None /\ deployment' # None
             /\ deployment'.template.containers.hash # deployment.template.containers.hash
               => \/ configMap = deployment'.template.containers.hash.config
                  \/ queued \/ "ConfigMap" \in news]_podVars
    BY <1>1 DEF Hash
  <1> QED BY <1>2, PodsRestrict, AlwaysSettling, PTL DEF PodSpec, RollsOutWhatIsRendered

-----------------------------------------------------------------------------
(* What pods hold.                                                           *)

\* The ConfigMap has held c.
Held(c) == \E i \in 1 .. Len(contents) : contents[i] = c

\* The history ends with what the ConfigMap holds.
Remembered == configMap # None => contents # <<>> /\ configMap = contents[Len(contents)]

\* What the cache shows, what a pass hashes, and what the Deployment names, has
\* been in the ConfigMap.
ShownHeld == shown.ConfigMap # None => Held(shown.ConfigMap)
PassHeld == pc \in ConfigStages => Held(pass.config)
DeploymentHeld == deployment # None => Held(Hash(deployment).config)

\* A pod runs a configuration that is no older than the one its template names.
Follows(pod) ==
  \E i \in 1 .. Len(contents) : \E j \in i .. Len(contents) :
    contents[i] = pod.template.containers.hash.config /\ contents[j] = pod.config

PodsFollow == \A p \in Running : Follows(pods[p])

\* A roll-out is complete as long as the pods are those of the template.
CompleteIsRolledOut == deployment # None /\ deployment.rollout = "complete" => RolledOut

PodInv ==
  /\ PodTypeOK /\ Remembered /\ ShownHeld /\ PassHeld /\ DeploymentHeld
  /\ PodsFollow /\ CompleteIsRolledOut

\* The history only grows.
LEMMA ContentsGrow ==
  ASSUME contents \in Seq(Configs), configMap' \in Configs \cup {None}, Remember
  PROVE  /\ contents' \in Seq(Configs) /\ Len(contents) <= Len(contents')
         /\ \A i \in 1 .. Len(contents) : contents'[i] = contents[i]
         /\ Remembered'
  <1>1. CASE contents' = contents
    <2>1. configMap' # None => contents # <<>> /\ configMap' = contents[Len(contents)]
      <3>1. ASSUME configMap' # None, contents = Append(contents, configMap')
            PROVE  FALSE
        <4>1. Len(contents) = Len(contents) + 1 /\ Len(contents) \in Nat
          BY <3>1
        <4> QED BY <4>1
      <3> QED BY <1>1, <3>1 DEF Remember
    <2> QED BY <1>1, <2>1 DEF Remembered
  <1>2. CASE contents' = Append(contents, configMap') /\ configMap' # None
    <2>1. configMap' \in Configs
      BY <1>2
    <2>2. /\ contents' \in Seq(Configs) /\ Len(contents') = Len(contents) + 1
          /\ contents'[Len(contents) + 1] = configMap' /\ Len(contents) \in Nat
          /\ \A i \in 1 .. Len(contents) : contents'[i] = contents[i]
      BY <1>2, <2>1
    <2>3. contents' # <<>>
      BY <2>2
    <2> QED BY <2>2, <2>3 DEF Remembered
  <1> QED BY <1>1, <1>2 DEF Remember

\* What has been held, and a pod that follows, stays so.
LEMMA HeldStays ==
  ASSUME contents \in Seq(Configs), contents' \in Seq(Configs), Len(contents) <= Len(contents'),
         \A i \in 1 .. Len(contents) : contents'[i] = contents[i]
  PROVE  /\ \A c : Held(c) => \E i \in 1 .. Len(contents') : contents'[i] = c
         /\ \A pod : Follows(pod) =>
              \E i \in 1 .. Len(contents') : \E j \in i .. Len(contents') :
                contents'[i] = pod.template.containers.hash.config /\ contents'[j] = pod.config
  <1>1. Len(contents) \in Nat /\ Len(contents') \in Nat
    OBVIOUS
  <1>2. 1 .. Len(contents) \subseteq 1 .. Len(contents')
    BY <1>1
  <1>3. \A c : Held(c) => \E i \in 1 .. Len(contents') : contents'[i] = c
    BY <1>2 DEF Held
  <1>4. ASSUME NEW pod, Follows(pod)
        PROVE  \E i \in 1 .. Len(contents') : \E j \in i .. Len(contents') :
                 contents'[i] = pod.template.containers.hash.config /\ contents'[j] = pod.config
    <2>1. PICK i \in 1 .. Len(contents) : \E j \in i .. Len(contents) :
            contents[i] = pod.template.containers.hash.config /\ contents[j] = pod.config
      BY <1>4 DEF Follows
    <2>2. PICK j \in i .. Len(contents) : contents[j] = pod.config
      BY <2>1
    <2>3. i \in 1 .. Len(contents') /\ j \in i .. Len(contents') /\ j \in 1 .. Len(contents)
      BY <1>1
    <2> QED BY <2>1, <2>2, <2>3
  <1> QED BY <1>3, <1>4

\* A pod starts with what the ConfigMap holds now.
LEMMA PodStarts ==
  ASSUME Typed, PodInv, NEW p \in Slots, StartPod(p), UNCHANGED vars
  PROVE  /\ pods' \in [Slots -> Pods \cup {None}]
         /\ \A q \in Slots : pods'[q] # None => Follows(pods'[q])
  <1> DEFINE pod == [template |-> PodTemplate(deployment.template), config |-> configMap,
                     key |-> secretKey]
  <1>1. /\ deployment # None /\ configMap # None
        /\ pods' = [pods EXCEPT ![p] = pod]
    BY DEF StartPod, Wanted
  <1>2. deployment.template \in Templates /\ configMap \in Configs /\ secretKey \in Nat
    BY <1>1 DEF Typed, TypeOK, Deployments
  <1>3. PodTemplate(deployment.template) \in PodTemplates
    BY <1>2 DEF PodTemplate, PodTemplates, Templates
  <1>4. pod \in Pods
    BY <1>2, <1>3 DEF Pods
  <1>5. Follows(pod)
    <2>1. contents \in Seq(Configs) /\ contents # <<>> /\ configMap = contents[Len(contents)]
      BY <1>1 DEF PodInv, PodTypeOK, Remembered
    <2>2. PICK i \in 1 .. Len(contents) : contents[i] = Hash(deployment).config
      BY <1>1 DEF PodInv, DeploymentHeld, Held
    <2>3. Len(contents) \in i .. Len(contents)
      BY <2>1
    <2>4. pod.template.containers.hash.config = Hash(deployment).config /\ pod.config = configMap
      BY DEF PodTemplate, Hash
    <2> HIDE DEF pod
    <2> QED BY <2>1, <2>2, <2>3, <2>4 DEF Follows
  <1>6. pods \in [Slots -> Pods \cup {None}]
    BY DEF PodInv, PodTypeOK
  <1>7. \A q \in Slots : q # p => pods'[q] = pods[q]
    BY <1>1, <1>6
  <1>8. pods'[p] = pod
    BY <1>1, <1>6
  <1>9. \A q \in Slots : pods[q] # None => Follows(pods[q])
    BY DEF PodInv, PodsFollow, Running
  <1> HIDE DEF pod
  <1> QED BY <1>1, <1>4, <1>5, <1>6, <1>7, <1>8, <1>9

\* Pods otherwise stay or go.
LEMMA PodsStep ==
  ASSUME Typed, PodInv, PodNext \/ UNCHANGED podVars
  PROVE  /\ pods' \in [Slots -> Pods \cup {None}]
         /\ \A q \in Slots : pods'[q] # None => Follows(pods'[q])
  <1>1. pods \in [Slots -> Pods \cup {None}]
    BY DEF PodInv, PodTypeOK
  <1>2. \A q \in Slots : pods[q] # None => Follows(pods[q])
    BY DEF PodInv, PodsFollow, Running
  <1>3. CASE pods' = pods
    BY <1>1, <1>2, <1>3
  <1>4. ASSUME NEW p \in Slots, pods' = [pods EXCEPT ![p] = None]
        PROVE  /\ pods' \in [Slots -> Pods \cup {None}]
               /\ \A q \in Slots : pods'[q] # None => Follows(pods'[q])
    BY <1>1, <1>2, <1>4
  <1>5. ASSUME NEW p \in Slots, StartPod(p), UNCHANGED vars
        PROVE  /\ pods' \in [Slots -> Pods \cup {None}]
               /\ \A q \in Slots : pods'[q] # None => Follows(pods'[q])
    BY <1>5, PodStarts
  <1> QED BY <1>3, <1>4, <1>5 DEF PodNext, RollOutPods, LosePod, Kubelet, StopPod, podVars

\* The cache shows the ConfigMap as it showed it, or as it is now.
LEMMA ShownStep ==
  ASSUME Typed, [Next]_vars
  PROVE  shown'.ConfigMap = shown.ConfigMap \/ shown'.ConfigMap = configMap'
  <1>0. "ConfigMap" \in OwnedKinds /\ Made.ConfigMap = configMap /\ shown \in OwnedObjects
    BY DEF OwnedKinds, Made, Typed, TypeOK
  <1>1. CASE UNCHANGED <<ownedVars, copies, topoVars>> \/ UNCHANGED <<ownedVars, copies>>
    BY <1>1 DEF copies
  <1>2. CASE OwnedEvents
    <2>1. shown' = [k \in OwnedKinds |-> IF k \in Lagging THEN shown[k] ELSE Made'[k]]
      BY <1>2 DEF OwnedEvents, CopiesFollow
    <2>2. Made'.ConfigMap = configMap'
      BY DEF Made
    <2> QED BY <1>0, <2>1, <2>2
  <1>3. ASSUME NEW k \in OwnedKinds, DeliverOwned(k)
        PROVE  shown'.ConfigMap = shown.ConfigMap \/ shown'.ConfigMap = configMap'
    BY <1>0, <1>3 DEF DeliverOwned, ownedVars, OwnedObjects
  <1>4. CASE Crash
    BY <1>0, <1>4 DEF Crash, ownedVars
  <1>5. CASE ReconcileDelete \/ ReleaseTopology \/ AcquireTopology \/ ChangeTopology
    BY <1>5 DEF ReconcileDelete, ReleaseTopology, AcquireTopology, ChangeTopology, Unowned,
       cacheVars, copies
  <1> QED
    BY <1>1, <1>2, <1>3, <1>4, <1>5, Untouching, WritesHeard
       DEF Next, Worker, Machinery, Environment, Writes

\* What it shows has been there.
LEMMA ShownHeldStep ==
  ASSUME Typed, ShownHeld, [Next]_vars, Remembered', contents' \in Seq(Configs),
         \A c : Held(c) => \E i \in 1 .. Len(contents') : contents'[i] = c
  PROVE  ShownHeld'
  <1> SUFFICES ASSUME shown'.ConfigMap # None
               PROVE  \E i \in 1 .. Len(contents') : contents'[i] = shown'.ConfigMap
    BY DEF ShownHeld, Held
  <1>1. CASE shown'.ConfigMap = shown.ConfigMap
    BY <1>1 DEF ShownHeld
  <1>2. CASE shown'.ConfigMap = configMap'
    <2>1. contents' # <<>> /\ configMap' = contents'[Len(contents')]
      BY <1>2 DEF Remembered
    <2>2. Len(contents') \in 1 .. Len(contents')
      BY <2>1
    <2> QED BY <1>2, <2>1, <2>2
  <1> QED BY <1>1, <1>2, ShownStep

\* The pass hashes what it has written, or was shown.
LEMMA PassHeldStep ==
  ASSUME Typed, Typed', ShownHeld, PassHeld, [Next]_vars, Remembered',
         \A c : Held(c) => \E i \in 1 .. Len(contents') : contents'[i] = c,
         contents' \in Seq(Configs)
  PROVE  PassHeld'
  <1> SUFFICES ASSUME pc' \in ConfigStages
               PROVE  \E i \in 1 .. Len(contents') : contents'[i] = pass'.config
    BY DEF PassHeld, Held
  <1>1. CASE GenerateConfigMaps
    <2>1. pass'.config # None
      BY NoneIsNothing DEF Typed, ConfigKnown
    <2>2. CASE pass'.config = shown.ConfigMap
      BY <2>1, <2>2 DEF ShownHeld
    <2>3. CASE pass'.config = configMap'
      <3>1. contents' # <<>> /\ configMap' = contents'[Len(contents')]
        BY <2>1, <2>3 DEF Remembered
      <3>2. Len(contents') \in 1 .. Len(contents')
        BY <3>1
      <3> QED BY <2>3, <3>1, <3>2
    <2> QED BY <1>1, <2>2, <2>3, RenderingStep
  <1>2. CASE ~GenerateConfigMaps
    <2>1. pc \in ConfigStages /\ pass'.config = pass.config
      <3>1. CASE Stage
        <4>1. pc # "config"
          BY <1>2, <3>1 DEF Stage, ReconcileRbac, CheckSecret, CheckMemcached, CheckCA, CheckCert,
             EnsureHorizonSecret, CheckHash, CheckKeystoneServices, ReconcileInit, EnsureNAD,
             ReleaseTopology, AcquireTopology, CreateOrPatchDeployment, VerifyAndFinish
        <4> QED BY <3>1, <4>1, ConfigKept
      <3> QED BY <3>1, OthersKeep
    <2> QED BY <2>1 DEF PassHeld
  <1> QED BY <1>1, <1>2

\* What the Deployment names comes from a pass.
LEMMA DeploymentHeldStep ==
  ASSUME Typed, PassHeld, DeploymentHeld, [Next]_vars,
         \A c : Held(c) => \E i \in 1 .. Len(contents') : contents'[i] = c
  PROVE  DeploymentHeld'
  <1> SUFFICES ASSUME deployment' # None
               PROVE  Held(Hash(deployment').config)
    BY DEF DeploymentHeld, Held, Hash
  <1>1. CASE CreateOrPatchDeployment
    <2>1. Held(pass.config) /\ pc = "deploy"
      BY <1>1 DEF CreateOrPatchDeployment, PassHeld, ConfigStages
    <2> QED BY <1>1, <2>1, DeployStep DEF DeploymentHeld
  <1>2. CASE ~CreateOrPatchDeployment
    BY <1>2, TemplateKept DEF Hash, DeploymentHeld
  <1> QED BY <1>1, <1>2

\* Pods that stay, under a template that stays, remain rolled out.
LEMMA RolledOutStays ==
  ASSUME RolledOut, pods' = pods, deployment' # None, deployment # None,
         deployment'.template = deployment.template
  PROVE  RolledOut'
  BY DEF RolledOut, Wanted, RunsTemplate

\* A roll-out is reported complete when it is, and not any longer when it is not.
LEMMA RolledOutStep ==
  ASSUME Typed, PodInv, PodNext \/ UNCHANGED podVars
  PROVE  CompleteIsRolledOut'
  <1> SUFFICES ASSUME deployment' # None, deployment'.rollout = "complete"
               PROVE  RolledOut'
    BY DEF CompleteIsRolledOut
  <1>1. [Next]_vars
    BY PodStep
  <1>2. deployment \in Deployments \cup {None}
    BY DEF Typed, TypeOK
  <1>3. ~LosePod
    <2>1. ASSUME PodFails PROVE deployment'.rollout = "rolling"
      BY <1>2, <2>1 DEF PodFails, Deployments
    <2> QED BY <2>1 DEF LosePod
  <1>4. CASE RollOutPods
    <2>1. deployment.rollout = "rolling" /\ deployment # None
      BY <1>2, <1>4 DEF RollOutPods, RollOut, Deployments
    <2>2. RolledOut /\ pods' = pods
      BY <1>4, <2>1 DEF RollOutPods
    <2>3. ~CreateOrPatchDeployment
      BY <1>4 DEF RollOutPods, RollOut, Outside, workerVars, CreateOrPatchDeployment, Deployed,
                  GoOn, Return
    <2> QED BY <1>1, <2>1, <2>2, <2>3, TemplateKept, RolledOutStays
  <1>5. CASE Kubelet /\ UNCHANGED vars
    BY <1>5 DEF Kubelet, StartPod, StopPod, vars, ownedVars
  <1>6. CASE (WithoutPods /\ UNCHANGED pods) \/ UNCHANGED podVars
    <2>1. pods' = pods
      BY <1>6 DEF podVars
    <2>2. deployment # None /\ deployment' = deployment
      <3>1. CASE CreateOrPatchDeployment
        <4> DEFINE new == DeploymentTemplate(instance, pass)
                   d == Patch(shown.Deployment.template, new, deployment)
                   fresh == [template |-> new, rollout |-> "unseen", up |-> 0]
        <4>1. \/ deployment' = deployment
              \/ deployment' = fresh
              \/ deployment' = d /\ deployment # None
          <5>1. ~Refused("Deployment") => (shown.Deployment = None <=> deployment = None)
            BY DEF Refused, Absent, Made
          <5> QED BY <3>1, <5>1 DEF CreateOrPatchDeployment
        <4>2. fresh.rollout = "unseen"
          OBVIOUS
        <4>3. d = deployment \/ \E t : d = [deployment EXCEPT !.template = t, !.rollout = "unseen"]
          BY DEF Patch
        <4> HIDE DEF d, fresh
        <4>4. d = deployment \/ deployment = None \/ d.rollout = "unseen"
          BY <1>2, <4>3 DEF Deployments
        <4> QED BY <4>1, <4>2, <4>4
      <3>2. CASE ~CreateOrPatchDeployment
        BY <1>6, <3>2, DeploymentKept DEF podVars
      <3> QED BY <3>1, <3>2
    <2> QED BY <2>1, <2>2, RolledOutStays DEF PodInv, CompleteIsRolledOut
  <1> QED BY <1>3, <1>4, <1>5, <1>6 DEF PodNext

\* Pods, history and Deployment go on together.
LEMMA PodInvStep ==
  ASSUME Typed, PodInv, [PodNext]_podVars
  PROVE  PodInv'
  <1>1. [Next]_vars /\ Typed'
    BY PodStep, NextTyped
  <1>2. /\ contents' \in Seq(Configs) /\ Len(contents) <= Len(contents')
        /\ \A i \in 1 .. Len(contents) : contents'[i] = contents[i]
        /\ Remembered'
    <2>1. contents \in Seq(Configs) /\ configMap' \in Configs \cup {None}
      BY <1>1 DEF PodInv, PodTypeOK, Typed, TypeOK
    <2>2. CASE PodNext
      BY <2>1, <2>2, ContentsGrow DEF PodNext
    <2>3. CASE UNCHANGED podVars
      BY <2>1, <2>3 DEF podVars, vars, ownedVars, PodInv, Remembered
    <2> QED BY <2>2, <2>3
  <1>3. /\ \A c : Held(c) => \E i \in 1 .. Len(contents') : contents'[i] = c
        /\ \A pod : Follows(pod) =>
             \E i \in 1 .. Len(contents') : \E j \in i .. Len(contents') :
               contents'[i] = pod.template.containers.hash.config /\ contents'[j] = pod.config
    BY <1>2, HeldStays DEF PodInv, PodTypeOK
  <1>4. /\ pods' \in [Slots -> Pods \cup {None}]
        /\ \A q \in Slots : pods'[q] # None => Follows(pods'[q])
    BY PodsStep
  <1>5. PodTypeOK'
    BY <1>2, <1>4 DEF PodTypeOK
  <1>6. PodsFollow'
    BY <1>3, <1>4 DEF PodsFollow, Running, Follows
  <1>7. ShownHeld' /\ PassHeld' /\ DeploymentHeld'
    BY <1>1, <1>2, <1>3, ShownHeldStep, PassHeldStep, DeploymentHeldStep DEF PodInv
  <1>8. CompleteIsRolledOut'
    BY RolledOutStep
  <1> QED BY <1>2, <1>5, <1>6, <1>7, <1>8 DEF PodInv

\* They do so in every reachable state.
LEMMA AlwaysPodInv == PodSpec => [](Typed /\ PodInv)
  <1>1. PodInit => PodInv
    BY DEF PodInit, Init, PodInv, PodTypeOK, Remembered, ShownHeld, Absent, PassHeld,
       DeploymentHeld, PodsFollow, Running, CompleteIsRolledOut, ConfigStages
  <1> QED BY <1>1, PodInvStep, PodsRestrict, TypeCorrect, PTL DEF PodSpec

\* Pods hold a template, a configuration and a key, and the history is one of
\* configurations, in every reachable state.
THEOREM PodTypes == PodSpec => []PodTypeOK
  <1>1. PodInv => PodTypeOK
    BY DEF PodInv
  <1> QED BY <1>1, AlwaysPodInv, PTL

\* A template that names the last configuration, unless that one came back, is
\* run with it.
LEMMA LastIsRun ==
  ASSUME PodTypeOK, Remembered, configMap # None, ~CameBack, NEW pod, Follows(pod),
         pod.template.containers.hash.config = configMap
  PROVE  pod.config = configMap
  <1>1. /\ contents \in Seq(Configs) /\ contents # <<>>
        /\ configMap = contents[Len(contents)] /\ Len(contents) \in Nat
    BY DEF PodTypeOK, Remembered
  <1>2. PICK i \in 1 .. Len(contents) : \E j \in i .. Len(contents) :
          contents[i] = configMap /\ contents[j] = pod.config
    BY DEF Follows
  <1>3. i \notin 1 .. Len(contents) - 1
    BY <1>1, <1>2 DEF CameBack
  <1>4. i = Len(contents)
    BY <1>1, <1>3
  <1> QED BY <1>1, <1>2, <1>4

\* Rolled out, a Deployment has as many pods as replicas.
LEMMA ReplicasRun ==
  ASSUME RolledOut, deployment \in Deployments, deployment # None
  PROVE  Cardinality(Running) = deployment.template.replicas
  <1> DEFINE k == deployment.template.replicas
  <1>1. k \in 0 .. MaxReplicas /\ MaxReplicas \in Nat
    BY ConstantAssumptions DEF Deployments, Templates
  <1>2. \A p \in Slots : pods[p] # None <=> p <= k
    BY DEF RolledOut, Wanted, RunsTemplate
  <1>3. Running = 1 .. k
    BY <1>1, <1>2 DEF Running, Slots
  <1> HIDE DEF k
  <1>4. Cardinality(1 .. k) = IF 1 > k THEN 0 ELSE k - 1 + 1
    <2>1. 1 \in Int /\ k \in Int
      BY <1>1
    <2> QED BY <2>1, FS_Interval
  <1>5. Cardinality(1 .. k) = k
    BY <1>1, <1>4
  <1> QED BY <1>3, <1>5 DEF k

\* When nothing is queued, under way or rolling out, as many pods run as were
\* asked for, and they run the configuration that was rendered last, although
\* each copied it at a moment of its own: a pod is never behind the hash in its
\* template, and that hash is the one of the last configuration.
THEOREM PodsAreCurrent == PodSpec => []PodsRunTheConfiguration
  <1>1. Typed /\ PodInv /\ (Quiet /\ cr.life = "live" /\ InputsPresent(cr.spec) => UpToDate)
          => PodsRunTheConfiguration
    <2> SUFFICES ASSUME Typed, PodInv, Quiet, UpToDate, ~CameBack
                 PROVE  /\ Cardinality(Running) = cr.spec.replicas
                        /\ \A p \in Running : pods[p].config = configMap
      BY DEF PodsRunTheConfiguration
    <2>1. deployment # None /\ configMap = WantedConfig(cr.spec)
      BY DEF UpToDate
    <2>2. PICK nets : deployment.template = WantedTemplate(cr.spec, nets)
      BY DEF UpToDate
    <2>3. Hash(deployment).config = configMap /\ deployment.template.replicas = cr.spec.replicas
      BY <2>1, <2>2 DEF WantedTemplate, Hash
    <2>4. RolledOut
      BY <2>1 DEF Quiet, PodInv, CompleteIsRolledOut
    <2>5. configMap # None /\ deployment \in Deployments
      <3>1. deployment \in Deployments
        BY <2>1 DEF Typed, TypeOK
      <3>2. Hash(deployment).config \in Configs
        BY <3>1 DEF Hash, Deployments, Templates, Containers, Hashes
      <3> QED BY <2>3, <3>1, <3>2, NoneIsNothing
    <2>6. ASSUME NEW p \in Running
          PROVE  pods[p].config = configMap
      <3>1. p \in Slots /\ pods[p] # None /\ Follows(pods[p])
        BY DEF Running, PodInv, PodsFollow
      <3>2. pods[p].template = PodTemplate(deployment.template)
        BY <2>4, <3>1 DEF RolledOut, RunsTemplate
      <3>3. pods[p].template.containers.hash.config = configMap
        BY <2>3, <3>2 DEF PodTemplate, Hash
      <3> QED BY <2>5, <3>1, <3>3, LastIsRun DEF PodInv
    <2> QED BY <2>1, <2>3, <2>4, <2>5, <2>6, ReplicasRun
  <1> QED BY <1>1, AlwaysPodInv, PodsRestrict, QuietClusterIsCurrent, PTL
=============================================================================
