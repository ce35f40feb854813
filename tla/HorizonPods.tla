------------------------------ MODULE HorizonPods ------------------------------
(***************************************************************************)
(* The pods of the Deployment, next to the reconcile loop.  A pod copies   *)
(* its configuration from the ConfigMap and its SECRET_KEY from the Secret *)
(* once, when it starts (templates/horizon/config/horizon.json under       *)
(* COPY_ALWAYS), and keeps the copies until it is replaced.  It is         *)
(* replaced when it fails or when the pod template changes; the template   *)
(* carries the hash of the inputs for that purpose, so what a pod runs     *)
(* with depends on when ConfigMap, Secret and Deployment are written, and  *)
(* by which pass.                                                          *)
(*                                                                         *)
(* HorizonReconcile has a roll-out end by itself.  Here it ends when every *)
(* replica runs the template.  A pod starts in one step; surplus and       *)
(* outdated pods disappear in one step.                                    *)
(***************************************************************************)
EXTENDS HorizonReconcile, Sequences

VARIABLES
  pods,      \* replicas that run: what they were made from and what they copied
  contents   \* history: what the ConfigMap has held, one entry per change

podVars == <<vars, pods, contents>>

Slots == 1 .. MaxReplicas

\* What a change of replaces pods: the template without the number of replicas.
PodTemplates == [containers: Containers, networks: BOOLEAN, topology: Versions]

PodTemplate(t) ==
  [containers |-> t.containers, networks |-> t.networks, topology |-> t.topology]

Pods == [template: PodTemplates, config: Configs, key: Nat]

-----------------------------------------------------------------------------
(* Which pods there should be.                                               *)

Wanted(p) == deployment # None /\ p <= deployment.template.replicas

RunsTemplate(p) ==
  pods[p] # None /\ pods[p].template = PodTemplate(deployment.template)

RolledOut == \A p \in Slots : IF Wanted(p) THEN RunsTemplate(p) ELSE pods[p] = None

\* Mutant: the ConfigMap is an optional volume.
StartPodAtOnce(p) ==
  /\ Wanted(p) /\ deployment.rollout = "rolling" /\ ~RunsTemplate(p)
  /\ secretKey # 0
  /\ pods' = [pods EXCEPT ![p] = [template |-> PodTemplate(deployment.template),
                                  config |-> configMap, key |-> secretKey]]

\* A pod is made from the template and waits for ConfigMap and Secret, which
\* are mounted into it; then it copies what they hold at this moment.
StartPod(p) ==
  /\ Wanted(p) /\ deployment.rollout = "rolling" /\ ~RunsTemplate(p)
  /\ configMap # None /\ secretKey # 0
  /\ pods' = [pods EXCEPT ![p] = [template |-> PodTemplate(deployment.template),
                                  config |-> configMap, key |-> secretKey]]

StopPod(p) ==
  /\ pods[p] # None /\ ~Wanted(p)
  /\ deployment # None => deployment.rollout = "rolling"
  /\ pods' = [pods EXCEPT ![p] = None]

Kubelet == \E p \in Slots : StartPod(p) \/ StopPod(p)

-----------------------------------------------------------------------------
(* The steps of HorizonReconcile, with their effect on the pods.             *)

\* The Deployment controller reports a roll-out complete when it is.
RollOutPods ==
  /\ RollOut /\ UNCHANGED pods
  /\ deployment.rollout = "rolling" => RolledOut

LosePod ==
  /\ PodFails
  /\ \E p \in Slots : pods[p] # None /\ pods' = [pods EXCEPT ![p] = None]

\* Everything else leaves the pods alone.
WithoutPods ==
  \/ Worker
  \/ TimerFires \/ DeliverHorizon \/ CollectGarbage
  \/ (\E k \in OwnedKinds : DeliverOwned(k))
  \/ EditSpec \/ DeleteHorizon \/ ChangeInput \/ ChangeTopology \/ LoseOwned \/ Crash

Remember ==
  contents' = IF configMap' = None \/ (contents # <<>> /\ configMap' = contents[Len(contents)])
              THEN contents ELSE Append(contents, configMap')

PodInit == Init /\ pods = [p \in Slots |-> None] /\ contents = <<>>

PodNext ==
  /\ \/ WithoutPods /\ UNCHANGED pods
     \/ RollOutPods
     \/ LosePod
     \/ Kubelet /\ UNCHANGED vars
  /\ Remember

PodSpec == PodInit /\ [][PodNext]_podVars

-----------------------------------------------------------------------------
(* Properties.                                                               *)

\* Pods hold a template, a configuration and a key.
PodTypeOK ==
  /\ pods \in [Slots -> Pods \cup {None}]
  /\ contents \in Seq(Configs)

Running == {p \in Slots : pods[p] # None}

\* What the ConfigMap holds is something it has held before.
CameBack ==
  \E i \in 1 .. Len(contents) - 1 : contents[i] = contents[Len(contents)]

\* When all is quiet, every pod runs the configuration that was rendered last,
\* although it was copied at any moment of any pass.  The one exception is a
\* configuration that was left and came back: its hash is that of the pods that
\* were started in between as well, and these are not replaced.
PodsRunTheConfiguration ==
  Quiet /\ cr.life = "live" /\ InputsPresent(cr.spec) /\ ~CameBack
    => /\ Cardinality(Running) = cr.spec.replicas
       /\ \A p \in Running : pods[p].config = configMap

\* Pods are replaced for a configuration they will find, or not for the last
\* time: when a hash is rolled out that does not name what the ConfigMap holds
\* (a stale copy of it looked up to date, or somebody removed it), the event that
\* makes another pass render it is still queued or under way.
RollsOutWhatIsRendered ==
  [][deployment # None /\ deployment' # None
     /\ deployment'.template.containers.hash # deployment.template.containers.hash
       => \/ configMap = deployment'.template.containers.hash.config
          \/ queued \/ "ConfigMap" \in news]_podVars

\* "create hash over all the different input resources to identify if any those
\* changed and a restart/recreate is required": when all is quiet, all pods have
\* the SECRET_KEY of the Secret, so that every pod accepts the sessions of the others.
PodsShareTheKey ==
  Quiet /\ cr.life = "live" /\ InputsPresent(cr.spec)
    => \A p \in Running : pods[p].key = secretKey
=============================================================================
