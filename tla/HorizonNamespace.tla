--------------------------- MODULE HorizonNamespace ---------------------------
(***************************************************************************)
(* Several Horizon objects in one namespace, one after the other and next  *)
(* to each other: what they share because its name is fixed, who owns it,  *)
(* what the admission webhooks let in, the start and stop of the manager,  *)
(* and another operator that follows the dashboard's endpoint.             *)
(*                                                                         *)
(* The manager has one worker, so passes do not overlap; HorizonReconcile  *)
(* looks inside a pass, here it is one step and reads what is there.  An   *)
(* object is known by the number of its creation (its UID), since its name *)
(* may be used again.  Made objects are owned by UID; the garbage collector*)
(* removes what a UID that is gone owns, and Owns(...) queues by name.     *)
(* Left out, because all objects fare alike with them: Role and            *)
(* RoleBinding, KeystoneAPI, Memcached, networks, the release of Topology  *)
(* objects, the configuration's dependency on the published endpoint, and  *)
(* the two passes that a new key costs.                                    *)
(***************************************************************************)
EXTENDS HorizonDeployment, Sequences, FiniteSets

CONSTANTS
  MaxVersion,  \* contents of a secret run over 1..MaxVersion, 0 = absent
  Volatile,    \* the secrets that change
  Installed,   \* the default image of the release that is installed first
  Releases,    \* default images of all releases
  Starts       \* what users may ask for, how many steps of each kind the
               \* environment may take, and what is there already

Kinds == {"create", "edit", "delete", "secret", "lose", "restart", "consumers"}

ASSUME NamespaceAssumptions ==
  /\ MaxVersion \in Nat
  /\ Volatile \subseteq SecretNames
  /\ Releases \subseteq Images /\ Installed \in Releases
  /\ Starts \subseteq [wanted: SUBSET Specs, limit: [Kinds -> Nat], stored: Specs \cup {None}]

VARIABLES
  objects,    \* the Horizon objects, by name
  created,    \* history: the name each UID was created with
  made,       \* the objects made for them
  secrets,    \* version of each named secret
  manager,    \* does the operator run, and with which default image?
  queue,      \* names in the work queue
  backoff,    \* names to be queued again after a failure
  view,       \* the objects as the consumer's cache shows them
  woken,      \* the consumer has been woken
  answer,     \* what the consumer found last
  wanted,     \* the specs users may ask for
  left        \* what is left of each budget

clusterVars == <<objects, created, made>>
queueVars == <<queue, backoff>>
consumerVars == <<view, woken, answer>>
inputVars == <<secrets, wanted>>
vars == <<clusterVars, inputVars, manager, queueVars, consumerVars, left>>

Uids == 1 .. Len(created)

-----------------------------------------------------------------------------
(* Data.                                                                     *)

Versions == 0 .. MaxVersion

Hashes == (UNION {[xs -> Versions] : xs \in SUBSET SecretNames}) \cup {None}

\* The hash of a pass: the versions of the secrets the spec names.
InputHash(s) == [x \in {s.secret} \cup ({s.cert, s.ca} \ {None}) |-> secrets[x]]

\* What a pass makes of the spec s of the object n.
Build(n, s) == Template(n, s, None, InputHash(s))

\* A made object: its owner, what it says, and, of the Deployment, whether its
\* pods run.
MadeObject(u, c) == [uid |-> u, content |-> c, up |-> FALSE]

Templates == {Template(n, s, None, h) : n \in Names, s \in Specs, h \in Hashes}
Contents == {None} \cup Specs \cup [port: Nat, target: Nat] \cup Templates
MadeObjects == [uid: Nat \ {0}, content: Contents, up: BOOLEAN]

ASSUME NoneIsNoObject == None \notin MadeObjects

Refs == (UNION {MadeFor(n) : n \in Names}) \cup {Service, Deployment}
Shared == {SecretKey, Service, Deployment}
Personal == Refs \ Shared
Garbage == {{r} : r \in Shared} \cup {Personal}

Exists(r) ==
  IF r \in Refs THEN made[r] # None ELSE r.kind = "Secret" /\ secrets[r.base] # 0

Live == {n \in Names : objects[n] # None}

Spend(k) == left[k] > 0 /\ left' = [left EXCEPT ![k] = @ - 1]

-----------------------------------------------------------------------------
(* Admission: api/v1beta1/horizon_webhook.go.                                *)

\* Mutant: every write brings the image of the release that is installed.
DefaultAlways(s) == [s EXCEPT !.image = manager.image]

\* An image is filled in where none is given.
Default(s) == [s EXCEPT !.image = IF @ = None THEN manager.image ELSE @]

\* ValidateTopology: only a Topology of the same namespace.
ValidTopology(s) == s.topology # "foreign"

\* Mutant: the object as it was is validated.
AdmitsOld(old, s) == manager.up /\ ValidTopology(old)

\* Creation and update take the same path; with failurePolicy=fail nothing is
\* admitted while the operator is down.
AdmitsCreate(s) == manager.up /\ ValidTopology(s)
AdmitsUpdate(old, s) == manager.up /\ ValidTopology(s)

-----------------------------------------------------------------------------
(* A pass.                                                                   *)

\* Mutant: two Horizon objects may own a thing in turn.
MayTake(r, n) == TRUE

\* SetControllerReference refuses an object that has a controller of another
\* name; one of the same name, earlier UID, is replaced.
MayOwn(r, n) == made[r] # None => created[made[r].uid] = n

\* CreateOrPatch of r for the object n: the new owner, and pods that are up stay
\* so if nothing changes.
Apply(m, r, n, c) ==
  [m EXCEPT ![r] = IF @ # None /\ @.content = c THEN [@ EXCEPT !.uid = objects[n].uid]
                   ELSE MadeObject(objects[n].uid, c)]

\* generateServiceConfigMaps, configureHorizonRbac.
MakePersonal(n, config) ==
  LET withAccount == Apply(made, ServiceAccount(n), n, None)
  IN IF config THEN Apply(Apply(withAccount, ConfigData(n), n, objects[n].spec),
                          ScriptsOf(n), n, None)
     ELSE withAccount

\* ensureHorizonSecret: a Secret that is there is used, whoever owns it.
MakeKey(m, n) == IF m[SecretKey] # None THEN m ELSE Apply(m, SecretKey, n, None)

\* What the pass writes of the object n: the status, and what admission adds.
Publish(n, ready, endpoint, hash) ==
  objects' = [objects EXCEPT ![n].ready = ready, ![n].endpoint = endpoint, ![n].hash = hash]

\* Mutant: a pass that has failed is not tried again.
FinishForgets(n, result) ==
  /\ queue' = IF objects'[n] # objects[n] \/ made' # made THEN queue ELSE queue \ {n}
  /\ backoff' = backoff

\* The pass is over.  What it changed, all of it owned by n, queues n again.
Finish(n, result) ==
  LET changed == objects'[n] # objects[n] \/ made' # made
  IN /\ queue' = IF changed THEN queue ELSE queue \ {n}
     /\ backoff' = IF result = "retry" THEN backoff \cup {n} ELSE backoff

InPass(n) ==
  /\ manager.up /\ n \in queue
  /\ UNCHANGED <<created, inputVars, manager, consumerVars, left>>

PassNotFound(n) ==
  /\ InPass(n) /\ objects[n] = None
  /\ queue' = queue \ {n} /\ UNCHANGED <<objects, made, backoff>>

\* The patch that puts the finalizer on, or takes it off, is an update like any
\* other.
PassRefused(n) ==
  /\ InPass(n) /\ objects[n] # None
  /\ objects[n].deleting \/ ~objects[n].finalizer
  /\ ~AdmitsUpdate(objects[n].spec, objects[n].spec)
  /\ queue' = queue \ {n} /\ backoff' = backoff \cup {n}
  /\ UNCHANGED <<objects, made>>

PassFinalizer(n) ==
  /\ InPass(n) /\ objects[n] # None /\ ~objects[n].deleting /\ ~objects[n].finalizer
  /\ AdmitsUpdate(objects[n].spec, objects[n].spec)
  /\ objects' = [objects EXCEPT ![n].finalizer = TRUE, ![n].ready = FALSE,
                                ![n].spec = Default(@)]
  /\ UNCHANGED made /\ Finish(n, "done")

PassDelete(n) ==
  /\ InPass(n) /\ objects[n] # None /\ objects[n].deleting
  /\ AdmitsUpdate(objects[n].spec, objects[n].spec)
  /\ objects' = [objects EXCEPT ![n] = None]
  /\ UNCHANGED made /\ Finish(n, "done")

\* reconcileNormal.
Works(n) == InPass(n) /\ objects[n] # None /\ ~objects[n].deleting /\ objects[n].finalizer

\* The OpenStack secret is asked for again; a certificate has to wake the pass.
PassWaits(n) ==
  LET o == objects[n]
      noSecret == secrets[o.spec.secret] = 0
      noCert == \E x \in {o.spec.cert, o.spec.ca} \ {None} : secrets[x] = 0
  IN /\ Works(n) /\ (noSecret \/ noCert)
     /\ made' = MakePersonal(n, FALSE)
     /\ Publish(n, FALSE, o.endpoint, o.hash)
     /\ Finish(n, IF noSecret THEN "retry" ELSE "done")

InputsThere(s) == \A x \in {s.secret, s.cert, s.ca} \ {None} : secrets[x] # 0

\* A changed hash is published before anything is deployed with it.
PassHash(n) ==
  LET o == objects[n]
  IN /\ Works(n) /\ InputsThere(o.spec) /\ o.hash # InputHash(o.spec)
     /\ made' = MakeKey(MakePersonal(n, TRUE), n)
     /\ Publish(n, FALSE, o.endpoint, InputHash(o.spec))
     /\ Finish(n, "done")

\* The Service, the endpoint and the Deployment; the first one of another
\* object's makes the pass fail, to be tried again.
PassDeploys(n) ==
  LET o == objects[n]
      prepared == MakeKey(MakePersonal(n, TRUE), n)
      exposed == Apply(prepared, Service, n, ServicePort(o.spec))
      deployed == Apply(exposed, Deployment, n, Build(n, o.spec))
      endpoint == EndpointScheme(o.spec)
  IN /\ Works(n) /\ InputsThere(o.spec) /\ o.hash = InputHash(o.spec)
     /\ \/ /\ ~MayOwn(Service, n)
           /\ made' = prepared
           /\ Publish(n, FALSE, o.endpoint, o.hash) /\ Finish(n, "retry")
        \/ /\ MayOwn(Service, n) /\ ~MayOwn(Deployment, n)
           /\ made' = exposed
           /\ Publish(n, FALSE, endpoint, o.hash) /\ Finish(n, "retry")
        \/ /\ MayOwn(Service, n) /\ MayOwn(Deployment, n)
           /\ made' = deployed
           /\ Publish(n, deployed[Deployment].up, endpoint, o.hash) /\ Finish(n, "done")

Pass(n) ==
  \/ PassNotFound(n) \/ PassRefused(n) \/ PassFinalizer(n) \/ PassDelete(n)
  \/ PassWaits(n) \/ PassHash(n) \/ PassDeploys(n)

-----------------------------------------------------------------------------
(* Around the worker.                                                        *)

\* An event the operator hears of queues the name, if it is running.
Wake(ns) == queue' = (IF manager.up THEN queue \cup ns ELSE queue) /\ UNCHANGED backoff

Retry(n) ==
  /\ manager.up /\ n \in backoff
  /\ backoff' = backoff \ {n} /\ queue' = queue \cup {n}
  /\ UNCHANGED <<clusterVars, inputVars, manager, consumerVars, left>>

Alive(u) == objects[created[u]] # None /\ objects[created[u]].uid = u

\* Mutant: what the garbage collector removes is not watched.
CollectGarbageQuietly(rs) ==
  \E u \in Uids :
    LET gone == {r \in rs : made[r] # None /\ made[r].uid = u}
    IN /\ gone # {} /\ ~Alive(u)
       /\ made' = [r \in Refs |-> IF r \in gone THEN None ELSE made[r]]
       /\ UNCHANGED <<objects, created, inputVars, manager, queueVars, consumerVars, left>>

\* Objects whose owner is gone are removed, the ones that bear its name together;
\* the event names the owner.
CollectGarbage(rs) ==
  \E u \in Uids :
    LET gone == {r \in rs : made[r] # None /\ made[r].uid = u}
    IN /\ gone # {} /\ ~Alive(u)
       /\ made' = [r \in Refs |-> IF r \in gone THEN None ELSE made[r]]
       /\ Wake({created[u]})
       /\ UNCHANGED <<objects, created, inputVars, manager, consumerVars, left>>

\* The pods of the Deployment start once everything they mount is there.
RollOut ==
  /\ made[Deployment] # None /\ ~made[Deployment].up
  /\ \A r \in Sources(made[Deployment].content) : Exists(r)
  /\ made' = [made EXCEPT ![Deployment].up = TRUE]
  /\ Wake({created[made[Deployment].uid]})
  /\ UNCHANGED <<objects, created, inputVars, manager, consumerVars, left>>

PodsFail ==
  /\ Spend("lose") /\ made[Deployment] # None /\ made[Deployment].up
  /\ made' = [made EXCEPT ![Deployment].up = FALSE]
  /\ Wake({created[made[Deployment].uid]})
  /\ UNCHANGED <<objects, created, inputVars, manager, consumerVars>>

LoseMade(r) ==
  /\ Spend("lose") /\ made[r] # None
  /\ made' = [made EXCEPT ![r] = None] /\ Wake({created[made[r].uid]})
  /\ UNCHANGED <<objects, created, inputVars, manager, consumerVars>>

\* findObjectsForSrc: the indices over .spec.secret, .spec.tls.secretName and
\* .spec.tls.caBundleSecretName.
RefersTo(s, x) == x \in {s.secret, s.cert, s.ca}

ChangeSecret ==
  /\ Spend("secret")
  /\ \E x \in Volatile :
       /\ \E v \in Versions \ {secrets[x]} : secrets' = [secrets EXCEPT ![x] = v]
       /\ Wake({n \in Live : RefersTo(objects[n].spec, x)})
  /\ UNCHANGED <<clusterVars, wanted, manager, consumerVars>>

-----------------------------------------------------------------------------
(* Users.                                                                    *)

NewObject(u, s) == [uid |-> u, spec |-> s, admitted |-> TRUE, finalizer |-> FALSE,
                    deleting |-> FALSE, ready |-> FALSE, endpoint |-> None, hash |-> None]

Create(n) ==
  /\ Spend("create") /\ objects[n] = None
  /\ \E s \in wanted :
       /\ AdmitsCreate(s)
       /\ created' = Append(created, n)
       /\ objects' = [objects EXCEPT ![n] = NewObject(Len(created'), Default(s))]
  /\ Wake({n}) /\ UNCHANGED <<made, inputVars, manager, consumerVars>>

Edit(n) ==
  /\ Spend("edit") /\ objects[n] # None
  /\ \E s \in wanted :
       /\ Default(s) # objects[n].spec /\ AdmitsUpdate(objects[n].spec, s)
       /\ objects' = [objects EXCEPT ![n].spec = Default(s)]
  /\ Wake({n}) /\ UNCHANGED <<created, made, inputVars, manager, consumerVars>>

\* A deletion is not subject to admission.
Delete(n) ==
  /\ Spend("delete") /\ objects[n] # None /\ ~objects[n].deleting
  /\ objects' = [objects EXCEPT ![n] = IF @.finalizer THEN [@ EXCEPT !.deleting = TRUE] ELSE None]
  /\ Wake({n}) /\ UNCHANGED <<created, made, inputVars, manager, consumerVars>>

-----------------------------------------------------------------------------
(* The manager: cmd/main.go.  The queue is lost when it stops; when it starts, *)
(* every object is queued, and the release it is of sets the default image.    *)

\* Mutant: retries outlive the operator.
StopKeepsRetries ==
  /\ Spend("restart") /\ manager.up /\ manager' = [manager EXCEPT !.up = FALSE]
  /\ queue' = {} /\ UNCHANGED <<backoff, clusterVars, inputVars, consumerVars>>

Stop ==
  /\ Spend("restart") /\ manager.up /\ manager' = [manager EXCEPT !.up = FALSE]
  /\ queue' = {} /\ backoff' = {}
  /\ UNCHANGED <<clusterVars, inputVars, consumerVars>>

Start ==
  /\ ~manager.up /\ \E i \in Releases : manager' = [up |-> TRUE, image |-> i]
  /\ queue' = Live /\ UNCHANGED <<backoff, clusterVars, inputVars, consumerVars, left>>

-----------------------------------------------------------------------------
(* Another operator that watches Horizon objects with                        *)
(* HorizonEndpointChangedPredicate and asks GetHorizon and GetEndpoint.      *)

Seen(n) == IF objects[n] = None THEN None ELSE [uid |-> objects[n].uid, endpoint |-> objects[n].endpoint]

\* Mutant: deletions do not count.
EndpointSet(old, new) == new # None /\ (old = None \/ old.endpoint # new.endpoint)

\* Creation and deletion count, and an update that changes the endpoint.
EndpointChanged(old, new) == old = None \/ new = None \/ old.endpoint # new.endpoint

Deliver(n) ==
  /\ left["consumers"] > 0
  /\ view[n] # Seen(n) /\ view' = [view EXCEPT ![n] = Seen(n)]
  /\ woken' = (woken \/ EndpointChanged(view[n], Seen(n)))
  /\ UNCHANGED <<answer, clusterVars, inputVars, manager, queueVars, left>>

\* GetHorizon fails unless there is exactly one object, GetEndpoint unless its
\* endpoint is set.
Endpoint ==
  LET found == {n \in Names : view[n] # None}
  IN IF Cardinality(found) # 1 THEN None
     ELSE view[CHOOSE n \in found : TRUE].endpoint

ConsumerReads ==
  /\ woken /\ woken' = FALSE /\ answer' = Endpoint
  /\ UNCHANGED <<view, clusterVars, inputVars, manager, queueVars, left>>

-----------------------------------------------------------------------------
\* An object that another release without webhooks has let in and put its
\* finalizer on.
Stored(s) == [uid |-> 1, spec |-> s, admitted |-> FALSE, finalizer |-> TRUE,
              deleting |-> FALSE, ready |-> FALSE, endpoint |-> None, hash |-> None]

Init ==
  /\ \E start \in Starts :
       /\ wanted = start.wanted /\ left = start.limit
       /\ objects = [n \in Names |-> IF n = ServiceName /\ start.stored # None
                                     THEN Stored(start.stored) ELSE None]
       /\ created = IF start.stored # None THEN <<ServiceName>> ELSE <<>>
  /\ made = [r \in Refs |-> None]
  /\ secrets = [x \in SecretNames |-> MaxVersion]
  /\ manager = [up |-> TRUE, image |-> Installed]
  /\ queue = Live /\ backoff = {}
  /\ view = [n \in Names |-> Seen(n)] /\ woken = TRUE /\ answer = None

Operator == \E n \in Names : Pass(n) \/ Retry(n)
Cluster == RollOut \/ \E rs \in Garbage : CollectGarbage(rs)
Consumer == ConsumerReads \/ \E n \in Names : Deliver(n)
Users ==
  \/ \E n \in Names : Create(n) \/ Edit(n) \/ Delete(n)
  \/ ChangeSecret \/ PodsFail \/ \E r \in Refs : LoseMade(r)

Next == Operator \/ Cluster \/ Consumer \/ Users \/ Stop \/ Start

Spec == Init /\ [][Next]_vars

\* The operator is started again, the work queue serves every name, and the
\* controllers of the cluster do their work; nothing is assumed of users.
Fairness ==
  /\ WF_vars(Start) /\ WF_vars(RollOut)
  /\ \A n \in Names : WF_vars(Pass(n)) /\ WF_vars(Retry(n))
  /\ \A rs \in Garbage : WF_vars(CollectGarbage(rs))

FairSpec == Spec /\ Fairness

-----------------------------------------------------------------------------
(* Properties.                                                               *)

Objects == [uid: Nat \ {0}, spec: Specs, admitted: BOOLEAN, finalizer: BOOLEAN,
            deleting: BOOLEAN, ready: BOOLEAN, endpoint: Schemes \cup {None}, hash: Hashes]

\* Names and UIDs fit: an object has the UID of its last creation, what is made
\* has an owner that was created, and deletion waits behind a finalizer.  A
\* manager that is down has no queue.
TypeOK ==
  /\ objects \in [Names -> Objects \cup {None}]
  /\ created \in Seq(Names) /\ secrets \in [SecretNames -> Versions]
  /\ wanted \subseteq Specs /\ left \in [Kinds -> Nat]
  /\ manager \in [up: BOOLEAN, image: Releases]
  /\ \A n \in Live :
       /\ objects[n].uid \in Uids /\ created[objects[n].uid] = n
       /\ objects[n].deleting => objects[n].finalizer
  /\ \A r \in Refs : made[r] # None => made[r].uid \in Uids
  /\ queue \subseteq Names /\ backoff \subseteq Names /\ (manager.up \/ queue \cup backoff = {})

\* Nothing is on its way to the object n.
Undisturbed(n) == manager.up /\ n \notin queue \cup backoff

Asked(n, r) == IF r = Service THEN ServicePort(objects[n].spec) ELSE Build(n, objects[n].spec)

OwnsCurrent(n, r) ==
  made[r] # None /\ made[r].uid = objects[n].uid /\ made[r].content = Asked(n, r)

\* Of all objects that share the names Service and Deployment, one that is Ready
\* and left alone owns both, and they are what its spec and the secrets ask for:
\* no other object, none of an earlier life of the name, no secret that changed.
ReadyIsCurrent ==
  \A n \in Live :
    objects[n].ready /\ ~objects[n].deleting /\ Undisturbed(n)
      => OwnsCurrent(n, Service) /\ OwnsCurrent(n, Deployment)

\* Everything the Deployment of n mounts exists when n is left alone, except for
\* what users bring along with their extra mounts.
CanStart(n) ==
  /\ Undisturbed(n) /\ made[Deployment] # None /\ made[Deployment].uid = objects[n].uid
  /\ ~objects[n].deleting /\ InputsThere(objects[n].spec)
  => \A r \in Sources(made[Deployment].content) \ UserSources(objects[n].spec) : Exists(r)

\* As long as only the name ServiceName is used, pods can always be replaced,
\* however often the object is deleted and created again.
UsualPodsCanStart ==
  (\A u \in Uids : created[u] = ServiceName) => \A n \in Live : CanStart(n)

\* "%-scripts configmap holding scripts to e.g. bootstrap the service": the pods
\* of any Horizon object find the scripts that were made for it.
PodsCanStart == \A n \in Live : CanStart(n)

\* A consumer that has handled its events knows the endpoint.
ConsumerIsCurrent ==
  ~woken /\ (\A n \in Names : view[n] = Seen(n)) => answer = Endpoint

\* The image of an object changes when its owner edits it, not when the operator
\* is replaced by another release and writes to the object.
ImageIsAskedFor ==
  [][\A n \in Live :
       left' = left /\ objects'[n] # None /\ objects'[n].uid = objects[n].uid
       => objects'[n].spec.image = objects[n].spec.image]_vars

\* A deletion that was asked for completes: of an object the webhooks have let
\* in, the operator never writes what they refuse.
DeletionsComplete ==
  \A n \in Names :
    objects[n] # None /\ objects[n].deleting /\ objects[n].admitted ~> objects[n] = None

\* When one object of the usual name is left, it takes over what others have
\* owned and becomes Ready, provided the Secret and what its user mounts stay.
LastOne ==
  /\ Live = {ServiceName} /\ ~objects[ServiceName].deleting
  /\ InputsThere(objects[ServiceName].spec) /\ made[SecretKey] # None
  /\ \A r \in UserSources(objects[ServiceName].spec) : Exists(r)

TakesOver == <>[]LastOne => <>[](objects[ServiceName] # None /\ objects[ServiceName].ready)
=============================================================================
