----------------------------- MODULE MCHorizonPods -----------------------------
(* Instances of HorizonPods for TLC.                                           *)
EXTENDS HorizonPods, TLC

CONSTANT t1

MCTopologies == {t1}

Plain == [secret |-> TRUE, ca |-> FALSE, tls |-> FALSE, networks |-> FALSE,
          topologyRef |-> None, replicas |-> 1, config |-> 0, url |-> 0]
Changed == [Plain EXCEPT !.config = 1]
Scaled == [Plain EXCEPT !.replicas = 0]
Doubled == [Plain EXCEPT !.replicas = 2]

AllThere == [secret |-> 1, ca |-> 1, cert |-> 1, keystone |-> 1,
             memcached |-> 1, nad |-> "ready", services |-> FALSE]

Nil == [k \in Kinds |-> 0]
Start(s, l) == [spec |-> s, inputs |-> AllThere, topologies |-> (t1 :> 1),
                limit |-> l @@ Nil]

\* The configuration is edited or the object scaled down, or an owned object is
\* lost, and a pod fails, at any point.  With two edits a configuration returns
\* while the copy of the ConfigMap still shows it.
PodSpecs == {Plain, Changed, Scaled}
PodStarts == {Start(Plain, "edit" :> 1 @@ "pod" :> 1),
              Start(Plain, "lose" :> 1 @@ "pod" :> 1),
              Start(Plain, "edit" :> 2)}
JustConfigMap == {"ConfigMap"}

\* An owned object is lost while two replicas run.
KeySpecs == {Doubled}
KeyStarts == {Start(Doubled, "lose" :> 1)}
NoInputs == {}
JustDeployment == {"Deployment"}
=============================================================================
