-------------------------- MODULE MCHorizonReconcile --------------------------
(* Instances of HorizonReconcile for TLC.  A start says what the user asks     *)
(* for, which inputs exist and how many steps of each kind the environment     *)
(* may take; it may take them at any point of any pass.                        *)
EXTENDS HorizonReconcile, TLC

CONSTANTS t1, t2

MCTopologies == {t1, t2}

Plain == [secret |-> TRUE, ca |-> FALSE, tls |-> FALSE, networks |-> FALSE,
          topologyRef |-> None, replicas |-> 1, config |-> 0, url |-> 0]
Secured == [Plain EXCEPT !.tls = TRUE, !.ca = TRUE, !.config = 1]
Everything == [Secured EXCEPT !.networks = TRUE]
Scaled == [Plain EXCEPT !.replicas = 0]
Exposed == [Plain EXCEPT !.url = 1]
Networked == [Plain EXCEPT !.networks = TRUE]
Parked == [Networked EXCEPT !.replicas = 0]
Secretless == [Plain EXCEPT !.secret = FALSE]
Near == [Plain EXCEPT !.topologyRef = t1]
Far == [Plain EXCEPT !.topologyRef = t2]

AllThere == [secret |-> 1, ca |-> 1, cert |-> 1, keystone |-> 1,
             memcached |-> 1, nad |-> "ready", services |-> FALSE]

Nil == [k \in Kinds |-> 0]
Start(s, i, l) == [spec |-> s, inputs |-> i,
                   topologies |-> (t1 :> 1 @@ t2 :> MaxVersion), limit |-> l @@ Nil]

\* Any input changes, of an object without replicas as well; owned objects are
\* lost and a pod fails, while the copies of what is made first are late.
InputSpecs == {Plain, Everything, Parked, Secretless}
InputStarts == {Start(Everything, AllThere, "input" :> 1),
                Start(Parked, [AllThere EXCEPT !.nad = "absent"], "input" :> 1),
                Start(Secretless, AllThere, Nil),
                Start(Plain, AllThere, "lose" :> 1 @@ "pod" :> 1)}
AllInputs == InputNames
InputLag == {"Rbac", "Secret", "Service"}

\* The spec changes while Topologies come, change and go; a call fails while
\* an object that uses every option is brought up or while one is deleted; the
\* operator crashes.
ChangeSpecs == {Plain, Everything, Near, Far}
ChangeStarts == {Start(Near, AllThere, "edit" :> 1 @@ "topology" :> 1),
                 Start(Everything, AllThere, "fault" :> 1),
                 Start(Near, AllThere, "fault" :> 1 @@ "delete" :> 1),
                 Start(Plain, AllThere, "crash" :> 1)}

\* An input comes or goes, or the object is deleted, and the operator crashes.
LiveSpecs == {Plain, Near}
LiveStarts == {Start(Plain, AllThere, "input" :> 1 @@ "crash" :> 1),
               Start(Near, AllThere, "delete" :> 1 @@ "crash" :> 1)}
JustKeystone == {"keystone"}
Nothing == {}
JustDeployment == {"Deployment"}

ScaleSpecs == {Plain, Scaled}
ScaleStarts == {Start(Plain, AllThere, "edit" :> 2)}
ExposeSpecs == {Plain, Exposed}
SecureSpecs == {Plain, Secured}
PlainStarts == {Start(Plain, AllThere, "edit" :> 1)}
NetworkSpecs == {Networked}
NetworkStarts == {Start(Networked, [AllThere EXCEPT !.nad = "absent"], Nil)}
MoveSpecs == {Near, Far}
MoveStarts == {Start(Near, AllThere, "edit" :> 1 @@ "delete" :> 1)}
=============================================================================
