------------------------ MODULE HorizonNamespaceProofs ------------------------
(* Proofs about HorizonNamespace: types, that an image is its owner's, that     *)
(* Ready is current, that the pods of the usual object can start, and that a    *)
(* consumer knows the endpoint.  The invariant is Inv: types, the shape of the  *)
(* made objects, and an image in every object that still needs its finalizer;   *)
(* ReadyIsCurrent and UsualProvided are inductive next to it, and Followed by   *)
(* itself.                                                                      *)
EXTENDS HorizonNamespace, HorizonDeploymentProofs, FiniteSetTheorems, SequenceTheorems, TLAPS

\* What is made belongs to somebody.
Sound(m) ==
  /\ m \in [Refs -> MadeObjects \cup {None}]
  /\ \A r \in Refs : m[r] # None => m[r].uid \in Uids

\* Where a pass still has to put the finalizer on, the image has been filled in.
Filled(o) == ~o.finalizer => o.spec.image # None

\* An object has the UID of its last creation, and is deleted only behind its
\* finalizer.
Placed(n, o) == o.uid \in Uids /\ created[o.uid] = n /\ (o.deleting => o.finalizer)

AllFilled == \A n \in Live : Filled(objects[n])

Inv == TypeOK /\ Sound(made) /\ AllFilled

-----------------------------------------------------------------------------
(* Data.                                                                     *)

\* Every name that is worked with is one of Refs.
LEMMA NamesAreRefs ==
  ASSUME NEW n \in Names
  PROVE  /\ ServiceAccount(n) \in Refs /\ ConfigData(n) \in Refs /\ ScriptsOf(n) \in Refs
         /\ SecretKey \in Refs /\ Service \in Refs /\ Deployment \in Refs
  BY DEF Refs, MadeFor

\* Defaulting gives a spec an image, and leaves the one it has.
LEMMA DefaultFills ==
  ASSUME NEW s \in Specs, manager.image \in Releases
  PROVE  /\ Default(s) \in Specs /\ Default(s).image # None
         /\ s.image # None => Default(s).image = s.image
  BY NameAssumptions, NamespaceAssumptions DEF Default, Specs

\* The hash of a pass is a hash.
LEMMA HashTyped ==
  ASSUME NEW s \in Specs, secrets \in [SecretNames -> Versions]
  PROVE  InputHash(s) \in Hashes
  <1> DEFINE xs == {s.secret} \cup ({s.cert, s.ca} \ {None})
  <1>1. xs \in SUBSET SecretNames
    BY DEF Specs
  <1>2. InputHash(s) \in [xs -> Versions]
    BY <1>1 DEF InputHash
  <1> QED BY <1>1, <1>2 DEF Hashes

-----------------------------------------------------------------------------
(* What is made.                                                             *)

\* What is applied is one of Contents.
LEMMA ContentTyped ==
  ASSUME NEW n \in Names, NEW s \in Specs, secrets \in [SecretNames -> Versions]
  PROVE  /\ None \in Contents /\ s \in Contents
         /\ ServicePort(s) \in Contents /\ Build(n, s) \in Contents
  <1>1. ServicePort(s) \in [port: Nat, target: Nat]
    BY DEF ServicePort, HorizonSvcPort, HorizonPort, HorizonSvcPortTLS, HorizonPortTLS
  <1>2. Build(n, s) = Template(n, s, None, InputHash(s)) /\ InputHash(s) \in Hashes
    BY HashTyped DEF Build
  <1>3. Build(n, s) \in Templates
    BY <1>2 DEF Templates
  <1> QED BY <1>1, <1>3 DEF Contents

\* Applying an object for a Horizon object that exists keeps what is made sound,
\* makes it as asked for the new owner, and leaves everything else.
LEMMA Applied ==
  ASSUME NEW m, Sound(m), NEW r \in Refs, NEW n, objects[n].uid \in Uids, NEW c \in Contents
  PROVE  /\ Sound(Apply(m, r, n, c))
         /\ Apply(m, r, n, c)[r] \in MadeObjects
         /\ Apply(m, r, n, c)[r].uid = objects[n].uid /\ Apply(m, r, n, c)[r].content = c
         /\ \A q \in Refs : q # r => Apply(m, r, n, c)[q] = m[q]
  <1> DEFINE a == Apply(m, r, n, c)
             u == objects[n].uid
  <1>1. u \in Nat \ {0}
    BY DEF Uids
  <1>2. a[r] \in MadeObjects /\ a[r].uid = u /\ a[r].content = c
    <2>1. CASE m[r] # None /\ m[r].content = c
      <3>1. a[r] = [m[r] EXCEPT !.uid = u] /\ m[r] \in MadeObjects
        BY <2>1 DEF Sound, Apply
      <3> HIDE DEF a, u
      <3> QED BY <1>1, <2>1, <3>1 DEF MadeObjects
    <2>2. CASE ~(m[r] # None /\ m[r].content = c)
      <3>1. a[r] = MadeObject(u, c)
        BY <2>2 DEF Sound, Apply
      <3> HIDE DEF a, u
      <3> QED BY <1>1, <3>1 DEF MadeObject, MadeObjects
    <2> QED BY <2>1, <2>2
  <1>3. \A q \in Refs : q # r => a[q] = m[q]
    BY DEF Sound, Apply
  <1>4. a = [q \in Refs |-> a[q]]
    BY DEF Sound, Apply
  <1> HIDE DEF a
  <1>5. a \in [Refs -> MadeObjects \cup {None}]
    BY <1>2, <1>3, <1>4 DEF Sound
  <1>6. \A q \in Refs : a[q] # None => a[q].uid \in Uids
    BY <1>2, <1>3 DEF Sound
  <1>7. Sound(a)
    BY <1>5, <1>6 DEF Sound
  <1> QED BY <1>2, <1>3, <1>7 DEF a

\* What two objects may share.
LEMMA SharedApart ==
  ASSUME NEW n \in Names
  PROVE  /\ Service # Deployment
         /\ \A r \in {Service, Deployment} :
              r \notin {ServiceAccount(n), ConfigData(n), ScriptsOf(n), SecretKey}
  <1>1. Service.kind = "Service" /\ Deployment.kind = "Deployment"
    BY DEF Service, Deployment, Ref
  <1>2. /\ ServiceAccount(n).kind = "ServiceAccount" /\ ConfigData(n).kind = "ConfigMap"
        /\ ScriptsOf(n).kind = "ConfigMap" /\ SecretKey.kind = "Secret"
    BY DEF ServiceAccount, ConfigData, ScriptsOf, SecretKey, Ref
  <1> QED BY <1>1, <1>2

\* What is applied to other names leaves what may be shared.
LEMMA AppliedBeside ==
  ASSUME NEW m, Sound(m), NEW n, objects[n].uid \in Uids, NEW c \in Contents,
         NEW r \in Refs, r # Service, r # Deployment
  PROVE  /\ Sound(Apply(m, r, n, c))
         /\ \A q \in {Service, Deployment} : Apply(m, r, n, c)[q] = m[q]
  <1>1. Service \in Refs /\ Deployment \in Refs
    BY DEF Refs
  <1> QED BY <1>1, Applied

\* Making what bears the object's name leaves what may be shared.
LEMMA PersonalSound ==
  ASSUME Sound(made), NEW n \in Names, objects[n].uid \in Uids, objects[n].spec \in Specs,
         secrets \in [SecretNames -> Versions], NEW config
  PROVE  /\ Sound(MakePersonal(n, config))
         /\ \A r \in {Service, Deployment} : MakePersonal(n, config)[r] = made[r]
  <1> DEFINE m1 == Apply(made, ServiceAccount(n), n, None)
             m2 == Apply(m1, ConfigData(n), n, objects[n].spec)
             m3 == Apply(m2, ScriptsOf(n), n, None)
  <1>1. None \in Contents /\ objects[n].spec \in Contents
    BY ContentTyped
  <1>2. \A r \in {ServiceAccount(n), ConfigData(n), ScriptsOf(n)} :
          r \in Refs /\ r # Service /\ r # Deployment
    BY NamesAreRefs, SharedApart
  <1>3. Sound(m1) /\ \A r \in {Service, Deployment} : m1[r] = made[r]
    BY <1>1, <1>2, AppliedBeside
  <1>4. Sound(m2) /\ \A r \in {Service, Deployment} : m2[r] = m1[r]
    <2> HIDE DEF m1
    <2> QED BY <1>1, <1>2, <1>3, AppliedBeside
  <1>5. Sound(m3) /\ \A r \in {Service, Deployment} : m3[r] = m2[r]
    <2> HIDE DEF m2
    <2> QED BY <1>1, <1>2, <1>4, AppliedBeside
  <1>6. MakePersonal(n, config) = IF config THEN m3 ELSE m1
    BY DEF MakePersonal
  <1> HIDE DEF m1, m2, m3
  <1> QED BY <1>3, <1>4, <1>5, <1>6

\* A key that is there stays, one that is made leaves what may be shared.
LEMMA KeySound ==
  ASSUME NEW m, Sound(m), NEW n \in Names, objects[n].uid \in Uids
  PROVE  /\ Sound(MakeKey(m, n))
         /\ \A r \in {Service, Deployment} : MakeKey(m, n)[r] = m[r]
  <1>1. None \in Contents /\ SecretKey \in Refs /\ SecretKey # Service /\ SecretKey # Deployment
    BY NamesAreRefs, SharedApart DEF Contents
  <1>2. CASE m[SecretKey] = None
    BY <1>1, <1>2, AppliedBeside DEF MakeKey
  <1> QED BY <1>2 DEF MakeKey

-----------------------------------------------------------------------------
(* Passes.                                                                   *)

\* What a pass may do: it changes one object, the made objects and the queue.
LEMMA OneObject ==
  ASSUME Inv, manager.up, NEW n \in Names, NEW o \in Objects \cup {None},
         o # None => Placed(n, o) /\ Filled(o),
         NEW m, Sound(m), made' = m,
         objects' = [objects EXCEPT ![n] = o],
         UNCHANGED <<created, inputVars, manager, left>>,
         queue' \subseteq Names, backoff' \subseteq Names
  PROVE  Inv'
  <1> USE DEF Inv, TypeOK, inputVars
  <1>1. objects' \in [Names -> Objects \cup {None}]
    OBVIOUS
  <1>2. \A k \in Names : objects'[k] # None => Placed(k, objects'[k]) /\ Filled(objects'[k])
    BY DEF Placed, AllFilled, Live
  <1>3. Sound(m)'
    BY DEF Sound, Uids
  <1>4. Sound(made)'
    BY <1>3 DEF Sound
  <1>5. AllFilled'
    BY <1>2 DEF AllFilled, Live, Filled
  <1>6. \A k \in Live' : objects'[k].uid \in Uids' /\ created'[objects'[k].uid] = k
                         /\ (objects'[k].deleting => objects'[k].finalizer)
    BY <1>2 DEF Placed, Live, Uids
  <1>7. \A r \in Refs : made'[r] # None => made'[r].uid \in Uids'
    BY <1>4 DEF Sound, Uids
  <1> QED BY <1>1, <1>4, <1>5, <1>6, <1>7

\* What Inv says of one object.
LEMMA ObjectOf ==
  ASSUME Inv, NEW n \in Names, objects[n] # None
  PROVE  objects[n] \in Objects /\ Placed(n, objects[n]) /\ Filled(objects[n])
  BY DEF Inv, TypeOK, AllFilled, Live, Placed

LEMMA FinishTyped ==
  ASSUME Inv, NEW n \in Names, NEW result, Finish(n, result)
  PROVE  queue' \subseteq Names /\ backoff' \subseteq Names
  BY DEF Finish, Inv, TypeOK

LEMMA PublishKeeps ==
  ASSUME Inv, manager.up, NEW n \in Names, objects[n] # None,
         NEW ready \in BOOLEAN, NEW endpoint \in Schemes \cup {None}, NEW hash \in Hashes,
         Publish(n, ready, endpoint, hash),
         NEW m, Sound(m), made' = m, NEW result, Finish(n, result),
         UNCHANGED <<created, inputVars, manager, left>>
  PROVE  Inv'
  <1> DEFINE o == [objects[n] EXCEPT !.ready = ready, !.endpoint = endpoint, !.hash = hash]
  <1>1. o \in Objects /\ Placed(n, o) /\ Filled(o)
    BY ObjectOf DEF Objects, Placed, Filled
  <1>2. objects' = [objects EXCEPT ![n] = o]
    BY DEF Publish, Inv, TypeOK
  <1> HIDE DEF o
  <1> QED BY <1>1, <1>2, OneObject, FinishTyped

LEMMA FinalizerKeeps ==
  ASSUME Inv, NEW n \in Names, PassFinalizer(n)
  PROVE  Inv'
  <1> DEFINE o == [objects[n] EXCEPT !.finalizer = TRUE, !.ready = FALSE, !.spec = Default(@)]
  <1>1. objects[n] \in Objects /\ Placed(n, objects[n]) /\ manager.up /\ Sound(made)
    BY ObjectOf DEF PassFinalizer, InPass, Inv
  <1>2. Default(objects[n].spec) \in Specs
    BY <1>1, DefaultFills DEF Objects, Inv, TypeOK
  <1>3. o \in Objects /\ Placed(n, o) /\ Filled(o)
    BY <1>1, <1>2 DEF Objects, Placed, Filled
  <1>4. objects' = [objects EXCEPT ![n] = o] /\ made' = made
    BY <1>1 DEF PassFinalizer, Inv, TypeOK, Objects
  <1>5. queue' \subseteq Names /\ backoff' \subseteq Names
    BY FinishTyped DEF PassFinalizer
  <1>6. UNCHANGED <<created, inputVars, manager, left>>
    BY DEF PassFinalizer, InPass
  <1> HIDE DEF o
  <1> QED BY <1>1, <1>3, <1>4, <1>5, <1>6, OneObject

LEMMA DeletePassKeeps ==
  ASSUME Inv, NEW n \in Names, PassDelete(n)
  PROVE  Inv'
  <1>1. objects' = [objects EXCEPT ![n] = None] /\ made' = made /\ manager.up
    BY DEF PassDelete, InPass
  <1>2. queue' \subseteq Names /\ backoff' \subseteq Names
    BY FinishTyped DEF PassDelete
  <1>3. UNCHANGED <<created, inputVars, manager, left>>
    BY DEF PassDelete, InPass
  <1> QED BY <1>1, <1>2, <1>3, OneObject DEF Inv

\* reconcileNormal, up to each of its ends.
LEMMA WorkKeeps ==
  ASSUME Inv, NEW n \in Names, PassWaits(n) \/ PassHash(n) \/ PassDeploys(n)
  PROVE  Inv'
  <1> DEFINE o == objects[n]
             s == o.spec
  <1>1. /\ manager.up /\ objects[n] # None
        /\ UNCHANGED <<created, inputVars, manager, left>>
    BY DEF PassWaits, PassHash, PassDeploys, Works, InPass
  <1>2. /\ o.uid \in Uids /\ s \in Specs /\ o.ready \in BOOLEAN
        /\ o.endpoint \in Schemes \cup {None} /\ o.hash \in Hashes
    BY <1>1, ObjectOf DEF Placed, Objects
  <1>3. InputHash(s) \in Hashes
    BY <1>2, HashTyped DEF Inv, TypeOK
  <1>4. EndpointScheme(s) \in Schemes \cup {None}
    BY <1>2 DEF EndpointScheme, Schemes, Specs
  <1>5. Sound(made) /\ secrets \in [SecretNames -> Versions]
    BY DEF Inv, TypeOK
  <1>6. CASE PassWaits(n)
    <2>1. Sound(MakePersonal(n, FALSE))
      BY <1>2, <1>5, PersonalSound
    <2>2. \E result : Finish(n, result)
      BY <1>6 DEF PassWaits
    <2>3. made' = MakePersonal(n, FALSE) /\ Publish(n, FALSE, o.endpoint, o.hash)
      BY <1>6 DEF PassWaits
    <2> QED BY <1>1, <1>2, <2>1, <2>2, <2>3, PublishKeeps
  <1> DEFINE prepared == MakeKey(MakePersonal(n, TRUE), n)
             exposed == Apply(prepared, Service, n, ServicePort(s))
             deployed == Apply(exposed, Deployment, n, Build(n, s))
  <1>7. Sound(prepared)
    BY <1>2, <1>5, PersonalSound, KeySound
  <1>8. Sound(exposed)
    <2> HIDE DEF prepared
    <2> QED BY <1>2, <1>5, <1>7, Applied, ContentTyped, NamesAreRefs
  <1>9. Sound(deployed) /\ deployed[Deployment] \in MadeObjects
    <2> HIDE DEF exposed
    <2> QED BY <1>2, <1>5, <1>8, Applied, ContentTyped, NamesAreRefs
  <1>10. CASE PassHash(n)
    <2>1. Finish(n, "done") /\ made' = prepared /\ Publish(n, FALSE, o.endpoint, InputHash(s))
      BY <1>10 DEF PassHash
    <2> HIDE DEF prepared
    <2> QED BY <1>1, <1>2, <1>3, <1>7, <2>1, PublishKeeps
  <1>11. CASE PassDeploys(n)
    <2>1. \/ made' = prepared /\ Publish(n, FALSE, o.endpoint, o.hash) /\ Finish(n, "retry")
          \/ made' = exposed /\ Publish(n, FALSE, EndpointScheme(s), o.hash) /\ Finish(n, "retry")
          \/ /\ made' = deployed /\ Finish(n, "done")
             /\ Publish(n, deployed[Deployment].up, EndpointScheme(s), o.hash)
      BY <1>11 DEF PassDeploys
    <2>2. deployed[Deployment].up \in BOOLEAN
      <3> HIDE DEF deployed
      <3> QED BY <1>9 DEF MadeObjects
    <2> HIDE DEF prepared, exposed, deployed
    <2> QED BY <1>1, <1>2, <1>4, <1>7, <1>8, <1>9, <2>1, <2>2, PublishKeeps
  <1> QED BY <1>6, <1>10, <1>11

LEMMA PassKeeps ==
  ASSUME Inv, NEW n \in Names, Pass(n)
  PROVE  Inv'
  <1>1. CASE PassNotFound(n) \/ PassRefused(n)
    <2>1. /\ manager.up /\ made' = made /\ objects' = objects
          /\ UNCHANGED <<created, inputVars, manager, left>>
          /\ queue' \subseteq Names /\ backoff' \subseteq Names
      BY <1>1 DEF PassNotFound, PassRefused, InPass, Inv, TypeOK
    <2>2. objects' = [objects EXCEPT ![n] = objects[n]] /\ objects[n] \in Objects \cup {None}
      BY <2>1 DEF Inv, TypeOK
    <2> QED BY <2>1, <2>2, OneObject, ObjectOf DEF Inv
  <1> QED BY <1>1, FinalizerKeeps, DeletePassKeeps, WorkKeeps DEF Pass

-----------------------------------------------------------------------------
(* Around the worker.                                                        *)

LEMMA SpendTyped ==
  ASSUME Inv, NEW k \in Kinds, Spend(k)
  PROVE  left' \in [Kinds -> Nat] /\ left' # left
  <1>1. left' = [left EXCEPT ![k] = @ - 1] /\ left[k] > 0 /\ left \in [Kinds -> Nat]
    BY DEF Spend, Inv, TypeOK
  <1>2. left'[k] = left[k] - 1 /\ left[k] \in Nat
    BY <1>1
  <1> QED BY <1>1, <1>2

LEMMA WakeTyped ==
  ASSUME Inv, NEW ns \in SUBSET Names, Wake(ns), manager' = manager
  PROVE  /\ queue' \subseteq Names /\ backoff' \subseteq Names
         /\ manager'.up \/ queue' \cup backoff' = {}
  BY DEF Wake, Inv, TypeOK

\* Everything but passes and users leaves the Horizon objects alone.
LEMMA Around ==
  ASSUME Inv, objects' = objects, created' = created, wanted' = wanted, Sound(made)',
         secrets' \in [SecretNames -> Versions], left' \in [Kinds -> Nat],
         manager' \in [up: BOOLEAN, image: Releases],
         queue' \subseteq Names, backoff' \subseteq Names,
         manager'.up \/ queue' \cup backoff' = {}
  PROVE  Inv'
  <1>1. \A r \in Refs : made'[r] # None => made'[r].uid \in Uids'
    BY DEF Sound
  <1>2. AllFilled'
    BY DEF Inv, AllFilled, Live, Filled
  <1> QED BY <1>1, <1>2 DEF Inv, TypeOK, Live, Uids

LEMMA OwnerIsName ==
  ASSUME Inv, NEW r \in Refs, made[r] # None
  PROVE  {created[made[r].uid]} \in SUBSET Names
  BY DEF Inv, Sound, Uids, TypeOK

\* Something made appears, changes or vanishes.
LEMMA MadeChanges ==
  ASSUME Inv, NEW m, Sound(m), made' = m, NEW ns \in SUBSET Names, Wake(ns),
         UNCHANGED <<objects, created, inputVars, manager>>, left' \in [Kinds -> Nat]
  PROVE  Inv'
  <1>1. Sound(m)'
    BY DEF Sound, Uids
  <1>2. Sound(made)'
    BY <1>1 DEF Sound
  <1> QED BY <1>2, WakeTyped, Around DEF inputVars, Inv, TypeOK

\* Some of the made objects vanish.
LEMMA RemovalSound ==
  ASSUME Sound(made), NEW gone
  PROVE  Sound([r \in Refs |-> IF r \in gone THEN None ELSE made[r]])
  BY DEF Sound

\* Pods of a Deployment that is there come up or go down.
LEMMA UpSound ==
  ASSUME Sound(made), made[Deployment] # None, NEW b \in BOOLEAN
  PROVE  Sound([made EXCEPT ![Deployment].up = b])
  <1> DEFINE d == [made[Deployment] EXCEPT !.up = b]
             a == [made EXCEPT ![Deployment] = d]
  <1>1. Deployment \in Refs /\ made[Deployment] \in MadeObjects
    BY DEF Sound, Refs
  <1>2. d \in MadeObjects /\ d.uid = made[Deployment].uid
    BY <1>1 DEF MadeObjects
  <1> HIDE DEF d
  <1>3. a \in [Refs -> MadeObjects \cup {None}] /\ \A r \in Refs : a[r] # None => a[r].uid \in Uids
    BY <1>1, <1>2 DEF Sound
  <1>4. Sound(a)
    BY <1>3 DEF Sound
  <1> QED BY <1>4 DEF d

LEMMA ClusterKeeps ==
  ASSUME Inv, \/ RollOut \/ PodsFail
              \/ \E rs \in Garbage : CollectGarbage(rs)
              \/ \E r \in Refs : LoseMade(r)
  PROVE  Inv'
  <1>1. Sound(made) /\ Deployment \in Refs /\ left \in [Kinds -> Nat] /\ "lose" \in Kinds
    BY DEF Inv, Refs, TypeOK, Kinds
  <1>2. CASE RollOut
    <2>1. /\ made[Deployment] # None /\ made' = [made EXCEPT ![Deployment].up = TRUE]
          /\ Wake({created[made[Deployment].uid]}) /\ left' = left
          /\ UNCHANGED <<objects, created, inputVars, manager>>
      BY <1>2 DEF RollOut
    <2>2. Sound([made EXCEPT ![Deployment].up = TRUE])
      BY <1>1, <2>1, UpSound
    <2> QED BY <1>1, <2>1, <2>2, OwnerIsName, MadeChanges
  <1>3. CASE PodsFail
    <2>1. /\ made[Deployment] # None /\ made' = [made EXCEPT ![Deployment].up = FALSE]
          /\ Wake({created[made[Deployment].uid]}) /\ Spend("lose")
          /\ UNCHANGED <<objects, created, inputVars, manager>>
      BY <1>3 DEF PodsFail
    <2>2. Sound([made EXCEPT ![Deployment].up = FALSE])
      BY <1>1, <2>1, UpSound
    <2> QED BY <1>1, <2>1, <2>2, OwnerIsName, MadeChanges, SpendTyped
  <1>4. ASSUME NEW rs \in Garbage, CollectGarbage(rs)
        PROVE  Inv'
    <2>1. PICK u \in Uids :
            /\ made' = [r \in Refs |-> IF r \in {q \in rs : made[q] # None /\ made[q].uid = u}
                                       THEN None ELSE made[r]]
            /\ Wake({created[u]}) /\ left' = left
            /\ UNCHANGED <<objects, created, inputVars, manager>>
      BY <1>4 DEF CollectGarbage
    <2>2. {created[u]} \in SUBSET Names
      BY <2>1 DEF Inv, TypeOK, Uids
    <2> QED BY <1>1, <2>1, <2>2, RemovalSound, MadeChanges
  <1>5. ASSUME NEW r \in Refs, LoseMade(r)
        PROVE  Inv'
    <2>1. /\ made[r] # None /\ made' = [made EXCEPT ![r] = None]
          /\ Wake({created[made[r].uid]}) /\ Spend("lose")
          /\ UNCHANGED <<objects, created, inputVars, manager>>
      BY <1>5 DEF LoseMade
    <2>2. made' = [q \in Refs |-> IF q \in {r} THEN None ELSE made[q]]
      BY <1>1, <2>1 DEF Sound
    <2> QED BY <1>1, <2>1, <2>2, RemovalSound, OwnerIsName, MadeChanges, SpendTyped
  <1> QED BY <1>2, <1>3, <1>4, <1>5

LEMMA InputKeeps ==
  ASSUME Inv, ChangeSecret
  PROVE  Inv'
  <1>1. PICK x \in Volatile : \E v \in Versions \ {secrets[x]} :
          /\ secrets' = [secrets EXCEPT ![x] = v]
          /\ Wake({n \in Live : RefersTo(objects[n].spec, x)})
    BY DEF ChangeSecret
  <1>2. secrets' \in [SecretNames -> Versions]
    BY <1>1 DEF Inv, TypeOK
  <1>3. Spend("secret") /\ "secret" \in Kinds /\ UNCHANGED <<clusterVars, wanted, manager>>
    BY DEF ChangeSecret, Kinds
  <1>4. {n \in Live : RefersTo(objects[n].spec, x)} \in SUBSET Names
    BY DEF Live
  <1>5. Sound(made)'
    BY <1>3 DEF clusterVars, Inv, Sound, Uids
  <1>6. manager' \in [up: BOOLEAN, image: Releases]
    BY <1>3 DEF Inv, TypeOK
  <1>7. /\ queue' \subseteq Names /\ backoff' \subseteq Names
        /\ manager'.up \/ queue' \cup backoff' = {}
    BY <1>1, <1>3, <1>4, WakeTyped
  <1> QED BY <1>2, <1>3, <1>5, <1>6, <1>7, SpendTyped, Around DEF clusterVars

LEMMA ManagerKeeps ==
  ASSUME Inv, Stop \/ Start \/ \E n \in Names : Retry(n)
  PROVE  Inv'
  <1>1. UNCHANGED <<clusterVars, inputVars>>
    BY DEF Stop, Start, Retry
  <1>2. Sound(made)'
    BY <1>1 DEF clusterVars, Inv, Sound, Uids
  <1>3. secrets' \in [SecretNames -> Versions] /\ left' \in [Kinds -> Nat]
    BY <1>1, SpendTyped DEF inputVars, Inv, TypeOK, Stop, Start, Retry, Kinds
  <1>4. manager' \in [up: BOOLEAN, image: Releases]
    <2>1. manager \in [up: BOOLEAN, image: Releases]
      BY DEF Inv, TypeOK
    <2>2. CASE manager' = [manager EXCEPT !.up = FALSE]
      BY <2>1, <2>2
    <2>3. CASE \E i \in Releases : manager' = [up |-> TRUE, image |-> i]
      BY <2>3
    <2>4. CASE manager' = manager
      BY <2>1, <2>4
    <2> QED BY <2>2, <2>3, <2>4 DEF Stop, Start, Retry
  <1>5. /\ queue' \subseteq Names /\ backoff' \subseteq Names
        /\ manager'.up \/ queue' \cup backoff' = {}
    BY DEF Stop, Start, Retry, Inv, TypeOK, Live
  <1> QED BY <1>1, <1>2, <1>3, <1>4, <1>5, Around DEF clusterVars, inputVars

LEMMA ConsumerKeeps ==
  ASSUME Inv, UNCHANGED vars \/ ConsumerReads \/ \E n \in Names : Deliver(n)
  PROVE  Inv'
  <1>1. UNCHANGED <<clusterVars, inputVars, manager, queueVars, left>>
    BY DEF vars, ConsumerReads, Deliver
  <1>2. Sound(made)'
    BY <1>1 DEF clusterVars, Inv, Sound, Uids
  <1> QED BY <1>1, <1>2, Around DEF clusterVars, inputVars, queueVars, Inv, TypeOK

-----------------------------------------------------------------------------
(* Users.                                                                    *)

\* An object changes, is created or goes: what Inv needs to know of the step.
LEMMA UserStep ==
  ASSUME Inv, NEW n \in Names, NEW o \in Objects \cup {None},
         objects' = [objects EXCEPT ![n] = o],
         o # None => Placed(n, o)' /\ Filled(o),
         created' \in Seq(Names), Uids \subseteq Uids',
         \A u \in Uids : created'[u] = created[u],
         made' = made, UNCHANGED <<inputVars, manager>>,
         left' \in [Kinds -> Nat], Wake({n})
  PROVE  Inv'
  <1>1. objects' \in [Names -> Objects \cup {None}]
    BY DEF Inv, TypeOK
  <1>2. \A k \in Names : objects'[k] = IF k = n THEN o ELSE objects[k]
    BY DEF Inv, TypeOK
  <1>3. ASSUME NEW k \in Live'
        PROVE  /\ objects'[k].uid \in Uids' /\ created'[objects'[k].uid] = k
               /\ objects'[k].deleting => objects'[k].finalizer
               /\ Filled(objects'[k])
    <2>1. CASE k = n
      BY <1>2, <1>3, <2>1 DEF Live, Placed
    <2>2. CASE k # n
      BY <1>2, <1>3, <2>2 DEF Live, Inv, TypeOK, AllFilled
    <2> QED BY <2>1, <2>2
  <1>4. AllFilled'
    BY <1>3 DEF AllFilled, Filled
  <1>5. Sound(made)'
    BY DEF Inv, Sound
  <1>6. \A r \in Refs : made'[r] # None => made'[r].uid \in Uids'
    BY <1>5 DEF Sound
  <1> QED BY <1>1, <1>3, <1>4, <1>5, <1>6, WakeTyped DEF Inv, TypeOK, inputVars

LEMMA CreateKeeps ==
  ASSUME Inv, NEW n \in Names, Create(n)
  PROVE  Inv'
  <1>1. PICK s \in wanted :
          /\ created' = Append(created, n)
          /\ objects' = [objects EXCEPT ![n] = NewObject(Len(created'), Default(s))]
    BY DEF Create
  <1>2. /\ Spend("create") /\ "create" \in Kinds /\ Wake({n}) /\ made' = made
        /\ UNCHANGED <<inputVars, manager>>
    BY DEF Create, Kinds
  <1>3. created \in Seq(Names) /\ s \in Specs /\ manager.image \in Releases
    BY DEF Inv, TypeOK
  <1>4. /\ created' \in Seq(Names) /\ Len(created') = Len(created) + 1
        /\ created'[Len(created')] = n /\ Len(created) \in Nat
        /\ \A u \in Uids : created'[u] = created[u]
    BY <1>1, <1>3 DEF Uids
  <1>5. Uids \subseteq Uids' /\ Len(created') \in Uids'
    BY <1>4 DEF Uids
  <1> DEFINE o == [uid |-> Len(created'), spec |-> Default(s), admitted |-> TRUE,
                   finalizer |-> FALSE, deleting |-> FALSE, ready |-> FALSE,
                   endpoint |-> None, hash |-> None]
  <1>6. objects' = [objects EXCEPT ![n] = o]
    BY <1>1 DEF NewObject
  <1>7. o \in Objects
    BY <1>3, <1>4, DefaultFills DEF Objects, Hashes
  <1>8. Filled(o)
    BY <1>3, DefaultFills DEF Filled
  <1>9. o.uid \in Uids' /\ created'[o.uid] = n /\ (o.deleting => o.finalizer)
    BY <1>4, <1>5
  <1>10. left' \in [Kinds -> Nat]
    BY <1>2, SpendTyped
  <1> QED BY <1>2, <1>4, <1>5, <1>6, <1>7, <1>8, <1>9, <1>10, UserStep DEF Placed

LEMMA EditKeeps ==
  ASSUME Inv, NEW n \in Names, Edit(n)
  PROVE  Inv'
  <1>1. PICK s \in wanted : objects' = [objects EXCEPT ![n].spec = Default(s)]
    BY DEF Edit
  <1>2. /\ Spend("edit") /\ "edit" \in Kinds /\ Wake({n}) /\ objects[n] # None
        /\ UNCHANGED <<created, made, inputVars, manager>>
    BY DEF Edit, Kinds
  <1>3. Default(s) \in Specs /\ Default(s).image # None
    BY DefaultFills DEF Inv, TypeOK
  <1> DEFINE o == [objects[n] EXCEPT !.spec = Default(s)]
  <1>4. objects[n] \in Objects /\ Placed(n, objects[n])
    BY <1>2, ObjectOf
  <1>5. o \in Objects /\ Placed(n, o) /\ Filled(o)
    BY <1>3, <1>4 DEF Objects, Placed, Filled
  <1>6. objects' = [objects EXCEPT ![n] = o]
    <2> DEFINE d == Default(s)
    <2>1. objects' = [objects EXCEPT ![n].spec = d] /\ objects \in [Names -> Objects \cup {None}]
      BY <1>1 DEF Inv, TypeOK
    <2> HIDE DEF d
    <2>2. objects' = [objects EXCEPT ![n] = [objects[n] EXCEPT !.spec = d]]
      BY <1>4, <2>1
    <2> QED BY <2>2 DEF d
  <1>7. o.uid \in Uids' /\ created'[o.uid] = n /\ (o.deleting => o.finalizer)
    BY <1>2, <1>5 DEF Placed, Uids
  <1>8. created' \in Seq(Names) /\ Uids \subseteq Uids' /\ \A u \in Uids : created'[u] = created[u]
    BY <1>2 DEF Inv, TypeOK, Uids
  <1>9. left' \in [Kinds -> Nat]
    BY <1>2, SpendTyped
  <1> HIDE DEF o
  <1> QED BY <1>2, <1>5, <1>6, <1>7, <1>8, <1>9, UserStep DEF Placed

LEMMA DeleteKeeps ==
  ASSUME Inv, NEW n \in Names, Delete(n)
  PROVE  Inv'
  <1>1. /\ Spend("delete") /\ "delete" \in Kinds /\ Wake({n}) /\ objects[n] # None
        /\ UNCHANGED <<created, made, inputVars, manager>>
    BY DEF Delete, Kinds
  <1>2. objects[n] \in Objects /\ Placed(n, objects[n]) /\ Filled(objects[n])
    BY <1>1, ObjectOf
  <1>3. created' \in Seq(Names) /\ Uids \subseteq Uids' /\ \A u \in Uids : created'[u] = created[u]
    BY <1>1 DEF Inv, TypeOK, Uids
  <1>4. left' \in [Kinds -> Nat]
    BY <1>1, SpendTyped
  <1>5. CASE objects[n].finalizer
    <2> DEFINE o == [objects[n] EXCEPT !.deleting = TRUE]
    <2>1. objects' = [objects EXCEPT ![n] = o]
      BY <1>5 DEF Delete, Inv, TypeOK
    <2>2. o \in Objects /\ Placed(n, o) /\ Filled(o)
      BY <1>2, <1>5 DEF Objects, Placed, Filled
    <2>3. o.uid \in Uids' /\ created'[o.uid] = n /\ (o.deleting => o.finalizer)
      BY <1>1, <2>2 DEF Placed, Uids
    <2> HIDE DEF o
    <2> QED BY <1>1, <1>3, <1>4, <2>1, <2>2, <2>3, UserStep DEF Placed
  <1>6. CASE ~objects[n].finalizer
    <2>1. objects' = [objects EXCEPT ![n] = None]
      BY <1>6 DEF Delete, Inv, TypeOK
    <2> QED BY <1>1, <1>3, <1>4, <2>1, UserStep
  <1> QED BY <1>5, <1>6

-----------------------------------------------------------------------------
(* Theorems.                                                                 *)

LEMMA StoredTyped ==
  ASSUME NEW s \in Specs
  PROVE  Stored(s) \in Objects /\ Filled(Stored(s))
  <1>1. \A u \in Nat \ {0} :
          [uid |-> u, spec |-> s, admitted |-> FALSE, finalizer |-> TRUE,
           deleting |-> FALSE, ready |-> FALSE, endpoint |-> None, hash |-> None] \in Objects
    BY DEF Objects, Hashes
  <1>2. 1 \in Nat \ {0}
    OBVIOUS
  <1>3. Stored(s) \in Objects
    BY <1>1, <1>2 DEF Stored
  <1> QED BY <1>3 DEF Stored, Filled

LEMMA InitInv ==
  ASSUME Init
  PROVE  Inv
  <1>1. PICK start \in Starts :
          /\ wanted = start.wanted /\ left = start.limit
          /\ objects = [n \in Names |-> IF n = ServiceName /\ start.stored # None
                                        THEN Stored(start.stored) ELSE None]
          /\ created = IF start.stored # None THEN <<ServiceName>> ELSE <<>>
    BY DEF Init
  <1>2. wanted \subseteq Specs /\ left \in [Kinds -> Nat] /\ start.stored \in Specs \cup {None}
    BY <1>1, NamespaceAssumptions
  <1>3. start.stored # None => Stored(start.stored) \in Objects /\ Filled(Stored(start.stored))
    BY <1>2, StoredTyped
  <1>4. objects \in [Names -> Objects \cup {None}] /\ AllFilled
    BY <1>1, <1>3 DEF AllFilled, Live
  <1>5. created \in Seq(Names) /\ (start.stored # None => Len(created) = 1 /\ created[1] = ServiceName)
    BY <1>1, NameAssumptions
  <1>6. \A n \in Live : /\ objects[n].uid \in Uids /\ created[objects[n].uid] = n
                        /\ objects[n].deleting => objects[n].finalizer
    BY <1>1, <1>5 DEF Live, Uids, Stored, NewObject
  <1>7. Sound(made) /\ \A r \in Refs : made[r] = None
    BY DEF Init, Sound
  <1>8. secrets \in [SecretNames -> Versions] /\ manager \in [up: BOOLEAN, image: Releases]
    BY NamespaceAssumptions DEF Init, Versions
  <1>9. queue \subseteq Names /\ backoff \subseteq Names /\ manager.up
    BY DEF Init, Live
  <1> QED BY <1>2, <1>4, <1>5, <1>6, <1>7, <1>8, <1>9 DEF Inv, TypeOK

LEMMA StepInv ==
  ASSUME Inv, [Next]_vars
  PROVE  Inv'
  <1>1. CASE Operator
    BY <1>1, PassKeeps, ManagerKeeps DEF Operator
  <1>2. CASE Cluster \/ PodsFail \/ \E r \in Refs : LoseMade(r)
    BY <1>2, ClusterKeeps DEF Cluster
  <1>3. CASE Consumer \/ UNCHANGED vars
    BY <1>3, ConsumerKeeps DEF Consumer
  <1>4. CASE ChangeSecret
    BY <1>4, InputKeeps
  <1>5. CASE \E n \in Names : Create(n) \/ Edit(n) \/ Delete(n)
    BY <1>5, CreateKeeps, EditKeeps, DeleteKeeps
  <1>6. CASE Stop \/ Start
    BY <1>6, ManagerKeeps
  <1> QED BY <1>1, <1>2, <1>3, <1>4, <1>5, <1>6 DEF Next, Users

LEMMA Invariance == Spec => []Inv
  <1> QED BY InitInv, StepInv, PTL DEF Spec

\* Names, UIDs and owners fit in every reachable state, for any number of names,
\* secrets and objects created one after the other.
THEOREM NamesAndOwners == Spec => []TypeOK
  <1>1. Inv => TypeOK
    BY DEF Inv
  <1> QED BY <1>1, Invariance, PTL

\* One step never changes an image unless a user spends an edit on it.
LEMMA ImageStep ==
  ASSUME Inv, [Next]_vars, left' = left, NEW n \in Live,
         objects'[n] # None, objects'[n].uid = objects[n].uid
  PROVE  objects'[n].spec.image = objects[n].spec.image
  <1>1. CASE UNCHANGED objects
    BY <1>1
  <1>2. CASE \E k \in Names : PassFinalizer(k)
    <2>1. PICK k \in Names : PassFinalizer(k)
      BY <1>2
    <2>2. objects[k] \in Objects /\ Filled(objects[k]) /\ ~objects[k].finalizer
      BY <2>1, ObjectOf DEF PassFinalizer
    <2>3. Default(objects[k].spec).image = objects[k].spec.image
      BY <2>2, DefaultFills DEF Filled, Objects, Inv, TypeOK
    <2>4. \A j \in Names : j # k => objects'[j] = objects[j]
      BY <2>1 DEF PassFinalizer, Inv, TypeOK
    <2>5. objects'[k].spec = Default(objects[k].spec)
      BY <2>1, <2>2 DEF PassFinalizer, Inv, TypeOK, Objects
    <2> QED BY <2>3, <2>4, <2>5 DEF Live
  <1>3. CASE \E k \in Names : PassDelete(k)
    BY <1>3 DEF PassDelete, Inv, TypeOK, Live
  <1>4. CASE \E k \in Names : PassWaits(k) \/ PassHash(k) \/ PassDeploys(k)
    <2>1. PICK k \in Names : \E ready, endpoint, hash : Publish(k, ready, endpoint, hash)
      BY <1>4 DEF PassWaits, PassHash, PassDeploys
    <2>2. \A j \in Live : objects'[j].spec = objects[j].spec
      BY <2>1 DEF Publish, Inv, TypeOK, Objects, Live
    <2> QED BY <2>2
  <1>5. CASE \E k \in Names : Create(k) \/ Edit(k) \/ Delete(k)
    <2>1. left' # left
      BY <1>5, SpendTyped DEF Create, Edit, Delete, Kinds
    <2> QED BY <2>1
  <1>6. \/ UNCHANGED objects
        \/ \E k \in Names : PassFinalizer(k) \/ PassDelete(k) \/ PassWaits(k)
                            \/ PassHash(k) \/ PassDeploys(k)
        \/ \E k \in Names : Create(k) \/ Edit(k) \/ Delete(k)
    BY DEF Next, Operator, Pass, PassNotFound, PassRefused, Retry, Cluster, RollOut,
                CollectGarbage, Consumer, ConsumerReads, Deliver, Users, ChangeSecret,
                PodsFail, LoseMade, Stop, Start, vars, clusterVars
  <1> QED BY <1>1, <1>2, <1>3, <1>4, <1>5, <1>6

\* No write of the operator changes an image, whichever releases replace each
\* other: what still has to be written to has its image already.
THEOREM ImageKept == Spec => ImageIsAskedFor
  <1>1. Inv /\ [Next]_vars =>
          [\A n \in Live :
             left' = left /\ objects'[n] # None /\ objects'[n].uid = objects[n].uid
             => objects'[n].spec.image = objects[n].spec.image]_vars
    BY ImageStep
  <1> QED BY <1>1, Invariance, PTL DEF Spec, ImageIsAskedFor

-----------------------------------------------------------------------------
(* Ready is current.  The property is inductive next to Inv: what makes it    *)
(* wrong for an object also disturbs that object.                            *)

Claims(n) == objects[n].ready /\ ~objects[n].deleting /\ Undisturbed(n)
Settled(n) == OwnsCurrent(n, Service) /\ OwnsCurrent(n, Deployment)

\* An object that a step leaves alone, together with what it owns and what its
\* spec names.
LEMMA Bystander ==
  ASSUME Inv, ReadyIsCurrent, NEW n \in Names, objects[n] # None, objects'[n] = objects[n],
         Undisturbed(n), Claims(n)',
         \A r \in {Service, Deployment} :
           made[r] # None /\ made[r].uid = objects[n].uid =>
             /\ made'[r] # None /\ made'[r].uid = made[r].uid
             /\ made'[r].content = made[r].content,
         \A x \in {objects[n].spec.secret, objects[n].spec.cert, objects[n].spec.ca} :
           x # None => secrets'[x] = secrets[x]
  PROVE  Settled(n)'
  <1>1. Settled(n)
    BY DEF ReadyIsCurrent, Claims, Settled, Live
  <1>2. objects[n].spec.secret # None
    BY ObjectOf, NameAssumptions DEF Objects, Specs
  <1>3. InputHash(objects[n].spec)' = InputHash(objects[n].spec)
    BY <1>2 DEF InputHash
  <1>4. Build(n, objects[n].spec)' = Build(n, objects[n].spec)
    BY <1>3 DEF Build
  <1>5. /\ made'[Service] # None /\ made'[Service].uid = objects[n].uid
        /\ made'[Service].content = ServicePort(objects[n].spec)
    BY <1>1 DEF Settled, OwnsCurrent, Asked
  <1>6. Service # Deployment
    BY SharedApart
  <1>7. /\ made'[Deployment] # None /\ made'[Deployment].uid = objects[n].uid
        /\ made'[Deployment].content = Build(n, objects[n].spec)
    BY <1>1, <1>6 DEF Settled, OwnsCurrent, Asked
  <1> QED BY <1>4, <1>5, <1>6, <1>7 DEF Settled, OwnsCurrent, Asked

\* A pass for another object takes nothing that this one owns.
LEMMA OtherPass ==
  ASSUME Inv, ReadyIsCurrent, NEW k \in Names, Pass(k), NEW n \in Names, n # k,
         objects'[n] # None, Claims(n)'
  PROVE  Settled(n)'
  <1>1. objects'[n] = objects[n] /\ objects[n] # None
    BY DEF Pass, PassNotFound, PassRefused, PassFinalizer, PassDelete, PassWaits, PassHash,
           PassDeploys, Publish, Inv, TypeOK
  <1>2. /\ manager.up /\ queue \ {k} \subseteq queue' /\ backoff \subseteq backoff'
        /\ secrets' = secrets
    BY DEF Pass, PassNotFound, PassRefused, PassFinalizer, PassDelete, PassWaits, PassHash,
           PassDeploys, Works, InPass, Finish, inputVars
  <1>3. Undisturbed(n)
    BY <1>2 DEF Claims, Undisturbed
  <1>4. \A r \in Refs : made[r] # None /\ made[r].uid = objects[n].uid => ~MayOwn(r, k)
    BY <1>1, ObjectOf DEF Placed, MayOwn
  <1>5. Service \in Refs /\ Deployment \in Refs /\ Service # Deployment
    BY NamesAreRefs, SharedApart
  <1>6. CASE PassNotFound(k) \/ PassRefused(k) \/ PassFinalizer(k) \/ PassDelete(k)
    <2>1. made' = made
      BY <1>6 DEF PassNotFound, PassRefused, PassFinalizer, PassDelete
    <2> QED BY <1>1, <1>2, <1>3, <2>1, Bystander
  <1>7. CASE PassWaits(k) \/ PassHash(k) \/ PassDeploys(k)
    <2> DEFINE s == objects[k].spec
               personal == MakePersonal(k, TRUE)
               prepared == MakeKey(personal, k)
               exposed == Apply(prepared, Service, k, ServicePort(s))
               deployed == Apply(exposed, Deployment, k, Build(k, s))
    <2>1. objects[k] # None
      BY <1>7 DEF PassWaits, PassHash, PassDeploys, Works
    <2>2. /\ Sound(made) /\ secrets \in [SecretNames -> Versions]
          /\ objects[k].uid \in Uids /\ s \in Specs
      BY <2>1, ObjectOf DEF Placed, Objects, Inv, TypeOK
    <2>3. /\ Sound(personal)
          /\ \A r \in {Service, Deployment} :
               personal[r] = made[r] /\ MakePersonal(k, FALSE)[r] = made[r]
      BY <2>2, PersonalSound
    <2>4. Sound(prepared) /\ \A r \in {Service, Deployment} : prepared[r] = made[r]
      <3> HIDE DEF personal
      <3> QED BY <2>2, <2>3, KeySound
    <2>5. Sound(exposed) /\ exposed[Deployment] = made[Deployment]
      <3> HIDE DEF prepared
      <3> QED BY <1>5, <2>2, <2>4, Applied, ContentTyped
    <2>6. \/ \A r \in {Service, Deployment} : made'[r] = made[r]
          \/ MayOwn(Service, k) /\ made'[Deployment] = made[Deployment]
          \/ MayOwn(Service, k) /\ MayOwn(Deployment, k)
      <3>1. CASE PassWaits(k)
        BY <2>3, <3>1 DEF PassWaits
      <3>2. CASE PassHash(k)
        BY <2>4, <3>2 DEF PassHash
      <3>3. CASE PassDeploys(k)
        <4>1. \/ made' = prepared
              \/ MayOwn(Service, k) /\ made' = exposed
              \/ MayOwn(Service, k) /\ MayOwn(Deployment, k)
          BY <3>3 DEF PassDeploys
        <4> HIDE DEF prepared, exposed
        <4> QED BY <2>4, <2>5, <4>1
      <3> QED BY <1>7, <3>1, <3>2, <3>3
    <2> HIDE DEF prepared, exposed, deployed, personal
    <2>7. \A r \in {Service, Deployment} :
            made[r] # None /\ made[r].uid = objects[n].uid => made'[r] = made[r]
      BY <1>4, <1>5, <2>6
    <2> QED BY <1>1, <1>2, <1>3, <2>7, Bystander
  <1> QED BY <1>6, <1>7 DEF Pass

\* A pass that leaves its object Ready and has nothing more to do has brought
\* both up to date.
LEMMA OwnPass ==
  ASSUME Inv, NEW n \in Names, Pass(n), objects'[n] # None, Claims(n)'
  PROVE  Settled(n)'
  <1>1. ~PassNotFound(n) /\ ~PassDelete(n)
    BY DEF PassNotFound, PassDelete, Inv, TypeOK
  <1>2. ~PassRefused(n)
    BY DEF PassRefused, Claims, Undisturbed
  <1>3. ~PassFinalizer(n)
    <2>1. ASSUME PassFinalizer(n) PROVE objects'[n].ready = FALSE
      BY <2>1, ObjectOf DEF PassFinalizer, Inv, TypeOK, Objects
    <2> QED BY <2>1 DEF Claims
  <1> DEFINE s == objects[n].spec
  <1>4. objects[n] # None
    BY <1>1, <1>2, <1>3 DEF Pass, PassWaits, PassHash, PassDeploys, Works
  <1>5. objects[n] \in Objects /\ objects[n].uid \in Uids /\ s \in Specs
    BY <1>4, ObjectOf DEF Objects, Placed
  <1>6. ASSUME NEW ready, NEW endpoint, NEW hash, Publish(n, ready, endpoint, hash)
        PROVE  /\ objects'[n].ready = ready /\ objects'[n].uid = objects[n].uid
               /\ objects'[n].spec = s
    BY <1>5, <1>6 DEF Publish, Inv, TypeOK, Objects
  <1>7. ~PassWaits(n) /\ ~PassHash(n)
    BY <1>6 DEF PassWaits, PassHash, Claims
  <1> DEFINE prepared == MakeKey(MakePersonal(n, TRUE), n)
             exposed == Apply(prepared, Service, n, ServicePort(s))
             deployed == Apply(exposed, Deployment, n, Build(n, s))
  <1>8. /\ made' = deployed /\ secrets' = secrets
        /\ objects'[n].uid = objects[n].uid /\ objects'[n].spec = s
    <2>1. PassDeploys(n)
      BY <1>1, <1>2, <1>3, <1>7 DEF Pass
    <2>2. \/ Publish(n, FALSE, objects[n].endpoint, objects[n].hash)
          \/ Publish(n, FALSE, EndpointScheme(s), objects[n].hash)
          \/ /\ made' = deployed
             /\ Publish(n, deployed[Deployment].up, EndpointScheme(s), objects[n].hash)
      BY <2>1 DEF PassDeploys
    <2>3. secrets' = secrets
      BY <2>1 DEF PassDeploys, Works, InPass, inputVars
    <2> HIDE DEF deployed
    <2> QED BY <1>6, <2>2, <2>3 DEF Claims
  <1>9. Sound(made) /\ secrets \in [SecretNames -> Versions] /\ Service # Deployment
    BY SharedApart DEF Inv, TypeOK
  <1>10. Sound(prepared)
    BY <1>5, <1>9, PersonalSound, KeySound
  <1>11. /\ Service \in Refs /\ Deployment \in Refs
         /\ ServicePort(s) \in Contents /\ Build(n, s) \in Contents
    BY <1>5, <1>9, ContentTyped, NamesAreRefs
  <1> DEFINE c == ServicePort(s)
             t == Build(n, s)
  <1> HIDE DEF prepared, c, t
  <1>12. /\ Sound(exposed) /\ exposed[Service] \in MadeObjects
         /\ exposed[Service].uid = objects[n].uid
         /\ exposed[Service].content = ServicePort(s)
    <2>1. c \in Contents /\ exposed = Apply(prepared, Service, n, c)
      BY <1>11 DEF c
    <2> HIDE DEF exposed
    <2>2. exposed[Service].content = c
      BY <1>5, <1>10, <1>11, <2>1, Applied
    <2> QED BY <1>5, <1>10, <1>11, <2>1, <2>2, Applied DEF c
  <1>13. /\ deployed[Service] = exposed[Service] /\ deployed[Deployment] \in MadeObjects
         /\ deployed[Deployment].uid = objects[n].uid
         /\ deployed[Deployment].content = Build(n, s)
    <2>1. t \in Contents /\ deployed = Apply(exposed, Deployment, n, t)
      BY <1>11 DEF t
    <2> HIDE DEF exposed, deployed
    <2>2. deployed[Deployment].content = t /\ deployed[Service] = exposed[Service]
      BY <1>5, <1>9, <1>11, <1>12, <2>1, Applied
    <2> QED BY <1>5, <1>11, <1>12, <2>1, <2>2, Applied DEF t
  <1>14. InputHash(s)' = InputHash(s)
    BY <1>8 DEF InputHash
  <1>15. Build(n, s)' = Build(n, s)
    BY <1>8, <1>14 DEF Build
  <1> HIDE DEF deployed, exposed
  <1> QED BY <1>8, <1>9, <1>12, <1>13, <1>15, NoneIsNoObject DEF Settled, OwnsCurrent, Asked

\* Whoever is woken is disturbed.
LEMMA NotWoken ==
  ASSUME NEW ns, Wake(ns), manager' = manager, NEW n, Undisturbed(n)'
  PROVE  Undisturbed(n) /\ n \notin ns
  BY DEF Wake, Undisturbed

LEMMA ClusterSettled ==
  ASSUME Inv, ReadyIsCurrent, NEW n \in Names, objects'[n] # None, Claims(n)',
         \/ RollOut \/ PodsFail
         \/ \E rs \in Garbage : CollectGarbage(rs)
         \/ \E r \in Refs : LoseMade(r)
  PROVE  Settled(n)'
  <1>1. objects'[n] = objects[n] /\ secrets' = secrets /\ manager' = manager
    BY DEF RollOut, PodsFail, CollectGarbage, LoseMade, inputVars
  <1>2. /\ objects[n] # None /\ objects[n].uid \in Uids /\ created[objects[n].uid] = n
        /\ Undisturbed(n)'
    BY <1>1, ObjectOf DEF Placed, Claims
  <1>3. /\ Service \in Refs /\ Deployment \in Refs /\ Service # Deployment
        /\ made \in [Refs -> MadeObjects \cup {None}]
    BY NamesAreRefs, SharedApart DEF Inv, Sound
  <1>4. CASE RollOut \/ PodsFail
    <2>1. PICK b \in BOOLEAN, ns \in SUBSET Names :
            made[Deployment] # None /\ made' = [made EXCEPT ![Deployment].up = b] /\ Wake(ns)
      <3>1. made[Deployment] # None
        BY <1>4 DEF RollOut, PodsFail
      <3>2. {created[made[Deployment].uid]} \in SUBSET Names
        BY <1>3, <3>1, OwnerIsName
      <3> QED BY <1>4, <3>1, <3>2 DEF RollOut, PodsFail
    <2>2. made[Deployment] \in MadeObjects /\ made'[Deployment] = [made[Deployment] EXCEPT !.up = b]
      BY <1>3, <2>1
    <2>3. [made[Deployment] EXCEPT !.up = b] \in MadeObjects
      BY <2>2 DEF MadeObjects
    <2>4. /\ made'[Deployment] # None /\ made'[Deployment].uid = made[Deployment].uid
          /\ made'[Deployment].content = made[Deployment].content
      BY <2>2, <2>3, NoneIsNoObject DEF MadeObjects
    <2>5. made'[Service] = made[Service]
      BY <1>3, <2>1
    <2>6. Undisturbed(n)
      BY <1>1, <1>2, <2>1, NotWoken
    <2> QED BY <1>1, <1>2, <2>4, <2>5, <2>6, Bystander
  <1>5. ASSUME NEW rs \in Garbage, CollectGarbage(rs)
        PROVE  Settled(n)'
    <2>1. PICK u \in Uids :
            /\ ~Alive(u) /\ Wake({created[u]})
            /\ made' = [r \in Refs |-> IF r \in {q \in rs : made[q] # None /\ made[q].uid = u}
                                       THEN None ELSE made[r]]
      BY <1>5 DEF CollectGarbage
    <2>2. objects[n].uid # u
      BY <1>2, <2>1 DEF Alive
    <2>3. \A r \in {Service, Deployment} : made[r].uid = objects[n].uid => made'[r] = made[r]
      BY <1>3, <2>1, <2>2
    <2>4. Undisturbed(n)
      BY <1>1, <1>2, <2>1, NotWoken
    <2> QED BY <1>1, <1>2, <2>3, <2>4, Bystander
  <1>6. ASSUME NEW r \in Refs, LoseMade(r)
        PROVE  Settled(n)'
    <2>1. made' = [made EXCEPT ![r] = None] /\ Wake({created[made[r].uid]})
      BY <1>6 DEF LoseMade
    <2>2. Undisturbed(n) /\ n # created[made[r].uid]
      BY <1>1, <1>2, <2>1, NotWoken
    <2>3. \A q \in {Service, Deployment} : made[q].uid = objects[n].uid => made'[q] = made[q]
      BY <1>2, <1>3, <2>1, <2>2
    <2> QED BY <1>1, <1>2, <2>2, <2>3, Bystander
  <1> QED BY <1>4, <1>5, <1>6

LEMMA UserSettled ==
  ASSUME Inv, ReadyIsCurrent, NEW n \in Names, objects'[n] # None, Claims(n)',
         ChangeSecret \/ \E k \in Names : Create(k) \/ Edit(k) \/ Delete(k)
  PROVE  Settled(n)'
  <1>1. manager' = manager /\ made' = made /\ Undisturbed(n)'
    BY DEF ChangeSecret, Create, Edit, Delete, clusterVars, Claims
  <1>2. CASE ChangeSecret
    <2>1. PICK x \in Volatile : \E v \in Versions \ {secrets[x]} :
            /\ secrets' = [secrets EXCEPT ![x] = v]
            /\ Wake({k \in Live : RefersTo(objects[k].spec, x)})
      BY <1>2 DEF ChangeSecret
    <2>2. objects'[n] = objects[n]
      BY <1>2 DEF ChangeSecret, clusterVars
    <2>3. Undisturbed(n) /\ ~RefersTo(objects[n].spec, x)
      BY <1>1, <2>1, <2>2, NotWoken DEF Live
    <2>4. \A y \in {objects[n].spec.secret, objects[n].spec.cert, objects[n].spec.ca} :
            y # None => secrets'[y] = secrets[y]
      <3>1. \A y : y # x => secrets'[y] = secrets[y]
        BY <2>1 DEF Inv, TypeOK
      <3> QED BY <2>3, <3>1 DEF RefersTo
    <2> QED BY <1>1, <2>2, <2>3, <2>4, Bystander
  <1>3. ASSUME NEW k \in Names, Create(k) \/ Edit(k) \/ Delete(k)
        PROVE  Settled(n)'
    <2>1. Wake({k}) /\ secrets' = secrets /\ \A j \in Names : j # k => objects'[j] = objects[j]
      BY <1>3 DEF Create, Edit, Delete, inputVars, Inv, TypeOK
    <2>2. Undisturbed(n) /\ n # k
      BY <1>1, <2>1, NotWoken
    <2> QED BY <1>1, <2>1, <2>2, Bystander
  <1> QED BY <1>2, <1>3

LEMMA RestSettled ==
  ASSUME Inv, ReadyIsCurrent, NEW n \in Names, objects'[n] # None, Claims(n)',
         Stop \/ Start \/ (\E k \in Names : Retry(k)) \/ Consumer \/ UNCHANGED vars
  PROVE  Settled(n)'
  <1>1. objects' = objects /\ made' = made /\ secrets' = secrets
    BY DEF Stop, Start, Retry, Consumer, ConsumerReads, Deliver, vars, clusterVars, inputVars
  <1>2. ~Stop
    BY DEF Stop, Claims, Undisturbed, Inv, TypeOK
  <1>3. ~Start
    BY <1>1 DEF Start, Live, Claims, Undisturbed
  <1>4. CASE \E k \in Names : Retry(k)
    <2>1. Undisturbed(n)
      BY <1>4 DEF Retry, Claims, Undisturbed
    <2> QED BY <1>1, <2>1, Bystander
  <1>5. CASE Consumer \/ UNCHANGED vars
    <2>1. Undisturbed(n)
      BY <1>5 DEF Consumer, ConsumerReads, Deliver, vars, queueVars, Claims, Undisturbed
    <2> QED BY <1>1, <2>1, Bystander
  <1> QED BY <1>2, <1>3, <1>4, <1>5

\* Whatever shares the names of Service and Deployment, and whatever changes or
\* is lost while the manager is up or down: an object that says Ready and has
\* nothing on its way to it owns both, and they are current.
THEOREM ReadyMeansCurrent == Spec => []ReadyIsCurrent
  <1>1. Init => ReadyIsCurrent
    <2>1. ASSUME Init, NEW n \in Names, objects[n] # None
          PROVE  objects[n].ready = FALSE
      <3>1. PICK start : objects = [k \in Names |-> IF k = ServiceName /\ start.stored # None
                                                    THEN Stored(start.stored) ELSE None]
        BY <2>1 DEF Init
      <3>2. objects[n] = Stored(start.stored)
        BY <2>1, <3>1
      <3> QED BY <3>2 DEF Stored
    <2> QED BY <2>1 DEF ReadyIsCurrent, Live
  <1>2. Inv /\ ReadyIsCurrent /\ [Next]_vars => ReadyIsCurrent'
    <2> SUFFICES ASSUME Inv, ReadyIsCurrent, [Next]_vars, NEW n \in Names,
                        objects'[n] # None, Claims(n)'
                 PROVE  Settled(n)'
      BY DEF ReadyIsCurrent, Claims, Settled, Live
    <2>1. CASE \E k \in Names : Pass(k)
      BY <2>1, OtherPass, OwnPass
    <2>2. CASE \/ RollOut \/ PodsFail
               \/ \E rs \in Garbage : CollectGarbage(rs)
               \/ \E r \in Refs : LoseMade(r)
      BY <2>2, ClusterSettled
    <2>3. CASE ChangeSecret \/ \E k \in Names : Create(k) \/ Edit(k) \/ Delete(k)
      BY <2>3, UserSettled
    <2>4. CASE Stop \/ Start \/ (\E k \in Names : Retry(k)) \/ Consumer \/ UNCHANGED vars
      BY <2>4, RestSettled
    <2> QED BY <2>1, <2>2, <2>3, <2>4 DEF Next, Operator, Cluster, Users
  <1> QED BY <1>1, <1>2, Invariance, PTL DEF Spec

-----------------------------------------------------------------------------
(* Pods of an object of the usual name.                                      *)

\* Only the name ServiceName has been used.
Usual == \A u \in Uids : created[u] = ServiceName

\* The object n is left alone, is to stay, and has what it refers to.
Rests(n) == Undisturbed(n) /\ ~objects[n].deleting /\ InputsThere(objects[n].spec)

\* Its Deployment is there and current, and so is what a pass makes for its pods.
Provided(n) ==
  /\ made[Deployment] # None /\ made[Deployment].content = Build(n, objects[n].spec)
  /\ \A r \in MadeFor(n) : made[r] # None

UsualProvided == Usual => \A n \in Live : Rests(n) => Provided(n)

\* What is applied later takes nothing away.
LEMMA AppliedAdds ==
  ASSUME NEW m, Sound(m), NEW r \in Refs, NEW n, objects[n].uid \in Uids, NEW c \in Contents
  PROVE  /\ Sound(Apply(m, r, n, c)) /\ Apply(m, r, n, c)[r] # None
         /\ \A q \in Refs : m[q] # None => Apply(m, r, n, c)[q] # None
  BY Applied, NoneIsNoObject

\* Up to the Service and the Deployment a pass makes what the pods need.
LEMMA PreparedMakes ==
  ASSUME Sound(made), NEW n \in Names, objects[n].uid \in Uids, objects[n].spec \in Specs,
         secrets \in [SecretNames -> Versions]
  PROVE  /\ Sound(MakeKey(MakePersonal(n, TRUE), n))
         /\ \A r \in MadeFor(n) : MakeKey(MakePersonal(n, TRUE), n)[r] # None
  <1> DEFINE m1 == Apply(made, ServiceAccount(n), n, None)
             m2 == Apply(m1, ConfigData(n), n, objects[n].spec)
             m3 == Apply(m2, ScriptsOf(n), n, None)
             m4 == MakeKey(m3, n)
  <1>1. /\ None \in Contents /\ objects[n].spec \in Contents
        /\ {ServiceAccount(n), ConfigData(n), ScriptsOf(n), SecretKey} \subseteq Refs
    BY ContentTyped, NamesAreRefs
  <1>2. Sound(m1) /\ m1[ServiceAccount(n)] # None
    BY <1>1, AppliedAdds
  <1>3. Sound(m2) /\ m2[ServiceAccount(n)] # None /\ m2[ConfigData(n)] # None
    <2> HIDE DEF m1
    <2> QED BY <1>1, <1>2, AppliedAdds
  <1>4. /\ Sound(m3)
        /\ \A r \in {ServiceAccount(n), ConfigData(n), ScriptsOf(n)} : m3[r] # None
    <2> HIDE DEF m2
    <2> QED BY <1>1, <1>3, AppliedAdds
  <1>5. /\ Sound(m4) /\ m4[SecretKey] # None
        /\ \A r \in {ServiceAccount(n), ConfigData(n), ScriptsOf(n)} : m4[r] # None
    <2> HIDE DEF m3
    <2>1. CASE m3[SecretKey] # None
      BY <1>4, <2>1 DEF MakeKey
    <2>2. CASE m3[SecretKey] = None
      <3>1. m4 = Apply(m3, SecretKey, n, None)
        BY <2>2 DEF MakeKey
      <3> QED BY <1>1, <1>4, <3>1, AppliedAdds
    <2> QED BY <2>1, <2>2
  <1>6. MakePersonal(n, TRUE) = m3
    BY DEF MakePersonal
  <1> HIDE DEF m3
  <1> QED BY <1>5, <1>6 DEF MadeFor

\* A pass after which its object rests has provided everything.
LEMMA OwnProvides ==
  ASSUME Inv, NEW n \in Names, Pass(n), objects'[n] # None, Rests(n)'
  PROVE  Provided(n)'
  <1> DEFINE s == objects[n].spec
             prepared == MakeKey(MakePersonal(n, TRUE), n)
             exposed == Apply(prepared, Service, n, ServicePort(s))
             deployed == Apply(exposed, Deployment, n, Build(n, s))
  <1>1. Undisturbed(n)' /\ n \in queue /\ secrets' = secrets
    BY DEF Rests, Pass, PassNotFound, PassRefused, PassFinalizer, PassDelete, PassWaits,
           PassHash, PassDeploys, Works, InPass, inputVars
  <1>2. ~PassNotFound(n) /\ ~PassDelete(n) /\ ~PassRefused(n)
    BY <1>1 DEF PassNotFound, PassDelete, PassRefused, Undisturbed, Inv, TypeOK
  <1>3. objects[n] # None
    BY <1>2 DEF Pass, PassFinalizer, PassWaits, PassHash, PassDeploys, Works
  <1>4. /\ objects[n] \in Objects /\ objects[n].uid \in Uids /\ s \in Specs
        /\ Sound(made) /\ secrets \in [SecretNames -> Versions]
    BY <1>3, ObjectOf DEF Objects, Placed, Inv, TypeOK
  <1>5. ASSUME NEW result, Finish(n, result)
        PROVE  objects'[n] = objects[n] /\ result # "retry"
    BY <1>1, <1>5 DEF Finish, Undisturbed
  <1>6. ~PassFinalizer(n)
    <2>1. ASSUME PassFinalizer(n) PROVE objects'[n].finalizer /\ ~objects[n].finalizer
      BY <1>4, <2>1 DEF PassFinalizer, Inv, TypeOK, Objects
    <2> QED BY <1>5, <2>1 DEF PassFinalizer
  <1>7. ASSUME NEW ready, NEW endpoint, NEW hash, Publish(n, ready, endpoint, hash)
        PROVE  objects'[n].hash = hash /\ objects'[n].spec = s
    BY <1>4, <1>7 DEF Publish, Inv, TypeOK, Objects
  <1>8. ~PassHash(n)
    <2>1. ASSUME PassHash(n) PROVE objects'[n].hash # objects[n].hash
      BY <1>7, <2>1 DEF PassHash
    <2> QED BY <1>5, <2>1 DEF PassHash
  <1>9. ~PassWaits(n)
    <2>1. ASSUME PassWaits(n) PROVE ~InputsThere(s) /\ objects'[n].spec = s
      <3>1. s.secret # None
        BY <1>4, NameAssumptions DEF Specs
      <3> QED BY <1>7, <2>1, <3>1 DEF PassWaits, InputsThere
    <2> QED BY <1>1, <2>1 DEF Rests, InputsThere
  <1>10. made' = deployed /\ objects'[n].spec = s
    <2>1. PassDeploys(n)
      BY <1>2, <1>6, <1>8, <1>9 DEF Pass
    <2>2. \/ Finish(n, "retry")
          \/ /\ made' = deployed
             /\ Publish(n, deployed[Deployment].up, EndpointScheme(s), objects[n].hash)
      BY <2>1 DEF PassDeploys
    <2> HIDE DEF deployed
    <2> QED BY <1>5, <1>7, <2>2
  <1>11. Sound(prepared) /\ \A r \in MadeFor(n) : prepared[r] # None
    BY <1>4, PreparedMakes
  <1>12. /\ Service \in Refs /\ Deployment \in Refs /\ MadeFor(n) \subseteq Refs
         /\ ServicePort(s) \in Contents /\ Build(n, s) \in Contents
    BY <1>4, ContentTyped, NamesAreRefs DEF MadeFor
  <1> DEFINE c == ServicePort(s)
             t == Build(n, s)
  <1> HIDE DEF prepared, c, t
  <1>13. Sound(exposed) /\ \A r \in MadeFor(n) : exposed[r] # None
    <2>1. c \in Contents /\ exposed = Apply(prepared, Service, n, c)
      BY <1>12 DEF c
    <2> HIDE DEF exposed
    <2> QED BY <1>4, <1>11, <1>12, <2>1, AppliedAdds
  <1>14. /\ deployed[Deployment] # None /\ deployed[Deployment].content = Build(n, s)
         /\ \A r \in MadeFor(n) : deployed[r] # None
    <2>1. t \in Contents /\ deployed = Apply(exposed, Deployment, n, t)
      BY <1>12 DEF t
    <2> HIDE DEF exposed, deployed
    <2>2. deployed[Deployment].content = t
      BY <1>4, <1>12, <1>13, <2>1, Applied
    <2> QED BY <1>4, <1>12, <1>13, <2>1, <2>2, AppliedAdds DEF t
  <1>15. Build(n, s)' = Build(n, s)
    BY <1>1, <1>10 DEF Build, InputHash
  <1> HIDE DEF deployed, exposed
  <1> QED BY <1>10, <1>14, <1>15 DEF Provided

\* Whatever leaves the object alone, and what was made for it, leaves it
\* provided, unless a secret it refers to changes.
LEMMA StaysProvided ==
  ASSUME Inv, UsualProvided, Usual, NEW n \in Names, objects[n] # None,
         objects'[n] = objects[n], made' = made, Undisturbed(n), Rests(n)',
         \A x \in {objects[n].spec.secret, objects[n].spec.cert, objects[n].spec.ca} :
           x # None => secrets'[x] = secrets[x]
  PROVE  Provided(n)'
  <1>1. InputsThere(objects[n].spec)
    BY DEF Rests, InputsThere
  <1>2. Provided(n)
    BY <1>1 DEF UsualProvided, Rests, Live
  <1>3. objects[n].spec.secret # None
    BY ObjectOf, NameAssumptions DEF Objects, Specs
  <1>4. InputHash(objects[n].spec)' = InputHash(objects[n].spec)
    BY <1>3 DEF InputHash
  <1> QED BY <1>2, <1>4 DEF Provided, Build

\* Names already used stay used.
LEMMA UsualBefore ==
  ASSUME Inv, [Next]_vars, Usual'
  PROVE  Usual
  <1>1. CASE UNCHANGED created
    BY <1>1 DEF Usual, Uids
  <1>2. ASSUME NEW n \in Names, Create(n)
        PROVE  Usual
    <2>1. created' = Append(created, n) /\ created \in Seq(Names)
      BY <1>2 DEF Create, Inv, TypeOK
    <2>2. Uids \subseteq Uids' /\ \A u \in Uids : created'[u] = created[u]
      BY <2>1 DEF Uids
    <2> QED BY <2>2 DEF Usual
  <1>3. CASE ~\E n \in Names : Create(n)
    <2>1. UNCHANGED created
      BY <1>3 DEF Next, Operator, Cluster, Consumer, Users, Pass, PassNotFound, PassRefused,
                  PassFinalizer, PassDelete, PassWaits, PassHash, PassDeploys, Works, InPass,
                  Retry, CollectGarbage, RollOut, PodsFail, LoseMade, ChangeSecret, Edit,
                  Delete, Deliver, ConsumerReads, Stop, Start, vars, clusterVars
    <2> QED BY <1>1, <2>1
  <1> QED BY <1>2, <1>3

\* Whoever takes something the pods need wakes the object it is for.
LEMMA StepProvides ==
  ASSUME Inv, UsualProvided, [Next]_vars
  PROVE  UsualProvided'
  <1> SUFFICES ASSUME Usual', NEW n \in Names, objects'[n] # None, Rests(n)'
               PROVE  Provided(n)'
    BY DEF UsualProvided, Live
  <1>1. Usual /\ Undisturbed(n)'
    BY UsualBefore DEF Rests
  <1>2. \A k \in Names : objects[k] # None => k = ServiceName
    BY <1>1, ObjectOf DEF Usual, Placed
  <1>3. CASE \E k \in Names : Pass(k)
    <2>1. PICK k \in Names : Pass(k)
      BY <1>3
    <2>2. CASE k = n
      BY <2>1, <2>2, OwnProvides
    <2>3. CASE k # n
      <3>1. objects'[n] = objects[n] /\ secrets' = secrets
        BY <2>1, <2>3 DEF Pass, PassNotFound, PassRefused, PassFinalizer, PassDelete, PassWaits,
             PassHash, PassDeploys, Works, InPass, inputVars, Publish, Inv, TypeOK
      <3>2. objects[k] = None
        BY <1>2, <2>3, <3>1
      <3>3. PassNotFound(k)
        BY <2>1, <3>2 DEF Pass, PassRefused, PassFinalizer, PassDelete, PassWaits, PassHash,
                          PassDeploys, Works
      <3>4. made' = made /\ Undisturbed(n)
        BY <1>1, <2>3, <3>3 DEF PassNotFound, InPass, Undisturbed
      <3> QED BY <1>1, <3>1, <3>4, StaysProvided
    <2> QED BY <2>2, <2>3
  <1>4. CASE \/ RollOut \/ PodsFail
             \/ \E rs \in Garbage : CollectGarbage(rs)
             \/ \E r \in Refs : LoseMade(r)
    <2>1. /\ Deployment \in Refs /\ \A r \in Refs : made[r] # None => made[r].uid \in Uids
      BY NamesAreRefs DEF Inv, Sound
    <2>2. \E u \in Uids : Wake({created[u]})
      BY <1>4, <2>1 DEF RollOut, PodsFail, CollectGarbage, LoseMade
    <2>3. Wake({ServiceName}) /\ objects' = objects /\ manager' = manager
      BY <1>1, <1>4, <2>2 DEF Usual, RollOut, PodsFail, CollectGarbage, LoseMade
    <2>4. n = ServiceName
      BY <1>2, <2>3
    <2> QED BY <1>1, <2>3, <2>4, NotWoken
  <1>5. CASE ChangeSecret
    <2>1. PICK x \in Volatile : \E v \in Versions \ {secrets[x]} :
            /\ secrets' = [secrets EXCEPT ![x] = v]
            /\ Wake({k \in Live : RefersTo(objects[k].spec, x)})
      BY <1>5 DEF ChangeSecret
    <2>2. objects'[n] = objects[n] /\ made' = made /\ manager' = manager
      BY <1>5 DEF ChangeSecret, clusterVars
    <2>3. Undisturbed(n) /\ ~RefersTo(objects[n].spec, x)
      BY <1>1, <2>1, <2>2, NotWoken DEF Live
    <2>4. \A y \in {objects[n].spec.secret, objects[n].spec.cert, objects[n].spec.ca} :
            y # None => secrets'[y] = secrets[y]
      <3>1. \A y : y # x => secrets'[y] = secrets[y]
        BY <2>1 DEF Inv, TypeOK
      <3> QED BY <2>3, <3>1 DEF RefersTo
    <2> QED BY <1>1, <2>2, <2>3, <2>4, StaysProvided
  <1>6. ASSUME NEW k \in Names, Create(k) \/ Edit(k) \/ Delete(k)
        PROVE  Provided(n)'
    <2>1. /\ Wake({k}) /\ secrets' = secrets /\ made' = made /\ manager' = manager
          /\ \A j \in Names : j # k => objects'[j] = objects[j]
      BY <1>6 DEF Create, Edit, Delete, inputVars, Inv, TypeOK
    <2>2. Undisturbed(n) /\ n # k
      BY <1>1, <2>1, NotWoken
    <2> QED BY <1>1, <2>1, <2>2, StaysProvided
  <1>7. CASE Stop \/ Start
    BY <1>1, <1>7 DEF Stop, Start, Undisturbed, clusterVars, Live, Inv, TypeOK
  <1>8. CASE (\E k \in Names : Retry(k)) \/ Consumer \/ UNCHANGED vars
    <2>1. /\ objects' = objects /\ made' = made /\ secrets' = secrets
          /\ Undisturbed(n)
      BY <1>1, <1>8 DEF Retry, Consumer, ConsumerReads, Deliver, vars, clusterVars, inputVars,
                        queueVars, Undisturbed
    <2> QED BY <1>1, <2>1, StaysProvided
  <1> QED BY <1>3, <1>4, <1>5, <1>6, <1>7, <1>8 DEF Next, Operator, Cluster, Users

\* Where the name is ServiceName, what is made for the pods is what they mount.
LEMMA ProvidedStart ==
  ASSUME Inv, UsualProvided
  PROVE  UsualPodsCanStart
  <1> SUFFICES ASSUME Usual, NEW n \in Live, Rests(n), made[Deployment] # None,
                      NEW r \in Sources(made[Deployment].content), r \notin UserSources(objects[n].spec)
               PROVE  Exists(r)
    BY DEF UsualPodsCanStart, CanStart, Usual, Rests
  <1> DEFINE s == objects[n].spec
  <1>1. n \in Names /\ objects[n] # None
    BY DEF Live
  <1>2. n = ServiceName /\ s \in Specs
    BY <1>1, ObjectOf DEF Usual, Placed, Objects
  <1>3. Provided(n)
    BY DEF UsualProvided
  <1>4. Sources(made[Deployment].content) = Sources(Template(ServiceName, s, None, InputHash(s)))
    BY <1>2, <1>3 DEF Provided, Build
  <1>5. r \in MadeFor(ServiceName) \cup CheckedFor(s) \cup {NamedSecret(x) : x \in {None} \ {None}}
                \cup UserSources(s)
    BY <1>2, <1>4, SourcesAreProvided
  <1>6. CASE r \in MadeFor(n)
    BY <1>1, <1>3, <1>6 DEF Provided, Exists, Refs
  <1>7. CASE r \in CheckedFor(s) /\ r \notin MadeFor(n)
    <2>1. PICK x \in {s.secret, s.cert, s.ca} \ {None} : r = NamedSecret(x)
      BY <1>7 DEF CheckedFor
    <2>2. r.kind = "Secret" /\ r.base = x
      BY <2>1 DEF NamedSecret, Ref
    <2>3. secrets[x] # 0
      BY <2>1 DEF Rests, InputsThere
    <2>4. r \notin Refs
      <3>1. ASSUME NEW k \in Names PROVE r \notin MadeFor(k)
        <4>1. SecretKey \in MadeFor(n)
          BY DEF MadeFor
        <4> QED BY <1>7, <2>2, <4>1 DEF MadeFor, ServiceAccount, ConfigData, ScriptsOf, Ref
      <3>2. Service.kind = "Service" /\ Deployment.kind = "Deployment"
        BY DEF Service, Deployment, Ref
      <3> QED BY <2>2, <3>1, <3>2 DEF Refs
    <2> QED BY <2>2, <2>3, <2>4 DEF Exists
  <1> QED BY <1>2, <1>5, <1>6, <1>7

\* Deleted and created again however often, losing whatever is made for it, and
\* across stops of the manager: whenever nothing is on its way to the one object
\* called ServiceName and its inputs are there, all that its pods need is there.
THEOREM UsualPodsStart == Spec => []UsualPodsCanStart
  <1>1. Init => UsualProvided
    BY DEF Init, UsualProvided, Rests, Undisturbed
  <1>2. Inv /\ UsualProvided /\ [Next]_vars => UsualProvided'
    BY StepProvides
  <1>3. Inv /\ UsualProvided => UsualPodsCanStart
    BY ProvidedStart
  <1> QED BY <1>1, <1>2, <1>3, Invariance, PTL DEF Spec

-----------------------------------------------------------------------------
(* The consumer of the endpoint.                                             *)

\* What the consumer has found it would find again, unless it has been woken.
Followed == DOMAIN view = Names /\ (~woken => answer = Endpoint)

\* An event the predicate holds back does not change what would be found.
LEMMA HeldBack ==
  ASSUME DOMAIN view = Names, NEW n \in Names, NEW o, view' = [view EXCEPT ![n] = o],
         ~EndpointChanged(view[n], o)
  PROVE  Endpoint' = Endpoint
  <1> DEFINE found == {k \in Names : view[k] # None}
  <1>1. /\ view[n] # None /\ o # None /\ o.endpoint = view[n].endpoint
        /\ \A k \in Names : view'[k] = IF k = n THEN o ELSE view[k]
    BY DEF EndpointChanged
  <1>2. {k \in Names : view'[k] # None} = found
    BY <1>1
  <1>3. \A k \in found : view'[k].endpoint = view[k].endpoint
    BY <1>1
  <1>4. CASE Cardinality(found) # 1
    BY <1>2, <1>4 DEF Endpoint
  <1>5. CASE Cardinality(found) = 1
    <2>1. found # {}
      BY <1>5, FS_EmptySet
    <2> DEFINE k == CHOOSE j \in found : TRUE
    <2>2. k \in found
      BY <2>1
    <2>3. Endpoint = view[k].endpoint
      BY <1>5 DEF Endpoint
    <2>4. Endpoint' = view'[k].endpoint
      BY <1>2, <1>5 DEF Endpoint
    <2> HIDE DEF k
    <2> QED BY <1>3, <2>2, <2>3, <2>4
  <1> QED BY <1>4, <1>5

\* Whoever changes the endpoint to be found wakes the consumer.
LEMMA StepFollowed ==
  ASSUME Followed, [Next]_vars
  PROVE  Followed'
  <1>1. CASE UNCHANGED consumerVars
    BY <1>1 DEF Followed, consumerVars, Endpoint
  <1>2. CASE ConsumerReads
    BY <1>2 DEF ConsumerReads, Followed, Endpoint
  <1>3. ASSUME NEW n \in Names, Deliver(n)
        PROVE  Followed'
    <2>1. /\ view' = [view EXCEPT ![n] = Seen(n)] /\ answer' = answer
          /\ woken' = (woken \/ EndpointChanged(view[n], Seen(n)))
      BY <1>3 DEF Deliver
    <2>2. ~woken' => Endpoint' = Endpoint
      BY <2>1, HeldBack DEF Followed
    <2> QED BY <2>1, <2>2 DEF Followed
  <1>4. CASE ~Consumer
    <2>1. UNCHANGED consumerVars
      BY <1>4 DEF Next, Operator, Cluster, Users, Pass, PassNotFound, PassRefused,
                  PassFinalizer, PassDelete, PassWaits, PassHash, PassDeploys, Works, InPass,
                  Retry, CollectGarbage, RollOut, PodsFail, LoseMade, ChangeSecret, Create, Edit,
                  Delete, Stop, Start, vars
    <2> QED BY <1>1, <2>1
  <1> QED BY <1>2, <1>3, <1>4 DEF Consumer

\* A consumer that is not woken needs nothing: whatever events the predicate
\* holds back, the endpoint it asked for last is the one it would get now.
THEOREM ConsumerKnows == Spec => []ConsumerIsCurrent
  <1>1. Init => Followed
    BY DEF Init, Followed
  <1>2. Followed /\ [Next]_vars => Followed'
    BY StepFollowed
  <1>3. Followed => ConsumerIsCurrent
    BY DEF Followed, ConsumerIsCurrent
  <1> QED BY <1>1, <1>2, <1>3, PTL DEF Spec

-----------------------------------------------------------------------------
(* What the webhooks have let in.                                            *)

Admissible == \A n \in Live : objects[n].admitted => ValidTopology(objects[n].spec)

\* An admitted spec changes only into one that is admitted as well.
LEMMA StepAdmissible ==
  ASSUME Inv, Admissible, [Next]_vars
  PROVE  Admissible'
  <1>1. objects \in [Names -> Objects \cup {None}]
    BY DEF Inv, TypeOK
  <1>2. ASSUME NEW n \in Names, NEW o, objects' = [objects EXCEPT ![n] = o],
               o # None /\ o.admitted => ValidTopology(o.spec)
        PROVE  Admissible'
    <2>1. \A k \in Names : objects'[k] = IF k = n THEN o ELSE objects[k]
      BY <1>1, <1>2
    <2> QED BY <1>2, <2>1 DEF Admissible, Live, ValidTopology
  <1>3. \A s \in Specs : Default(s).topology = s.topology
    BY DEF Default, Specs
  <1>4. CASE UNCHANGED objects
    BY <1>4 DEF Admissible, Live, ValidTopology
  <1>5. ASSUME NEW n \in Names, NEW ready, NEW endpoint, NEW hash, objects[n] # None,
               Publish(n, ready, endpoint, hash)
        PROVE  Admissible'
    <2> DEFINE o == [objects[n] EXCEPT !.ready = ready, !.endpoint = endpoint, !.hash = hash]
    <2>1. objects' = [objects EXCEPT ![n] = o] /\ objects[n] \in Objects
      BY <1>1, <1>5, ObjectOf DEF Publish
    <2>2. o.admitted = objects[n].admitted /\ o.spec = objects[n].spec
      BY <2>1 DEF Objects
    <2> HIDE DEF o
    <2> QED BY <1>2, <1>5, <2>1, <2>2 DEF Admissible, Live
  <1>6. ASSUME NEW n \in Names, Pass(n)
        PROVE  Admissible'
    <2>1. CASE PassFinalizer(n)
      <3> DEFINE o == [objects[n] EXCEPT !.finalizer = TRUE, !.ready = FALSE,
                                         !.spec = Default(@)]
      <3>1. objects[n] # None /\ objects[n] \in Objects
        BY <2>1, ObjectOf DEF PassFinalizer
      <3>2. objects' = [objects EXCEPT ![n] = o]
        BY <1>1, <2>1, <3>1 DEF PassFinalizer, Objects
      <3>3. o.admitted = objects[n].admitted /\ o.spec = Default(objects[n].spec)
            /\ objects[n].spec \in Specs
        BY <3>1 DEF Objects
      <3>4. o.admitted => ValidTopology(o.spec)
        BY <1>3, <3>1, <3>3 DEF Admissible, Live, ValidTopology
      <3> HIDE DEF o
      <3> QED BY <1>2, <3>2, <3>4
    <2>2. CASE PassDelete(n)
      BY <1>2, <2>2 DEF PassDelete
    <2>3. CASE PassNotFound(n) \/ PassRefused(n)
      BY <1>4, <2>3 DEF PassNotFound, PassRefused
    <2>4. CASE PassWaits(n) \/ PassHash(n) \/ PassDeploys(n)
      <3>1. objects[n] # None /\ \E ready, endpoint, hash : Publish(n, ready, endpoint, hash)
        BY <2>4 DEF PassWaits, PassHash, PassDeploys, Works
      <3> QED BY <1>5, <3>1
    <2> QED BY <1>6, <2>1, <2>2, <2>3, <2>4 DEF Pass
  <1>7. ASSUME NEW n \in Names, Create(n)
        PROVE  Admissible'
    <2>1. PICK s \in wanted :
            /\ AdmitsCreate(s)
            /\ objects' = [objects EXCEPT ![n] = NewObject(Len(created'), Default(s))]
      BY <1>7 DEF Create
    <2>2. s \in Specs
      BY DEF Inv, TypeOK
    <2>3. ValidTopology(NewObject(Len(created'), Default(s)).spec)
      BY <1>3, <2>1, <2>2 DEF NewObject, AdmitsCreate, ValidTopology
    <2> QED BY <1>2, <2>1, <2>3
  <1>8. ASSUME NEW n \in Names, Edit(n)
        PROVE  Admissible'
    <2>1. PICK s \in wanted :
            /\ AdmitsUpdate(objects[n].spec, s)
            /\ objects' = [objects EXCEPT ![n].spec = Default(s)]
      BY <1>8 DEF Edit
    <2> DEFINE d == Default(s)
    <2>2. s \in Specs /\ objects[n] \in Objects
      BY <1>8, ObjectOf DEF Edit, Inv, TypeOK
    <2>3. ValidTopology(d)
      BY <1>3, <2>1, <2>2 DEF AdmitsUpdate, ValidTopology
    <2>4. objects' = [objects EXCEPT ![n].spec = d]
      BY <2>1
    <2> HIDE DEF d
    <2>5. objects' = [objects EXCEPT ![n] = [objects[n] EXCEPT !.spec = d]]
      BY <1>1, <2>4
    <2>6. [objects[n] EXCEPT !.spec = d].spec = d
      BY <2>2 DEF Objects
    <2> QED BY <1>2, <2>3, <2>5, <2>6
  <1>9. ASSUME NEW n \in Names, Delete(n)
        PROVE  Admissible'
    <2>1. objects[n] # None /\ objects[n] \in Objects
      BY <1>9, ObjectOf DEF Delete
    <2> DEFINE o == [objects[n] EXCEPT !.deleting = TRUE]
    <2>2. o.admitted = objects[n].admitted /\ o.spec = objects[n].spec
      BY <2>1 DEF Objects
    <2>3. \/ objects' = [objects EXCEPT ![n] = o]
          \/ objects' = [objects EXCEPT ![n] = None]
      BY <1>1, <1>9 DEF Delete
    <2> HIDE DEF o
    <2>4. o.admitted => ValidTopology(o.spec)
      BY <2>1, <2>2 DEF Admissible, Live
    <2> QED BY <1>2, <2>3, <2>4
  <1>10. CASE \/ ChangeSecret \/ PodsFail \/ (\E r \in Refs : LoseMade(r)) \/ Cluster
              \/ Consumer \/ Stop \/ Start \/ (\E n \in Names : Retry(n)) \/ UNCHANGED vars
    <2>1. UNCHANGED objects
      BY <1>10 DEF ChangeSecret, PodsFail, LoseMade, Cluster, RollOut, CollectGarbage, Consumer,
                   ConsumerReads, Deliver, Stop, Start, Retry, vars, clusterVars
    <2> QED BY <1>4, <2>1
  <1> QED BY <1>6, <1>7, <1>8, <1>9, <1>10 DEF Next, Operator, Users

\* Of an object the webhooks have let in, they never refuse what the operator
\* writes: its finalizer can be put on, and taken off when it is deleted.
THEOREM NeverRefused ==
  Spec => [][\A n \in Names : objects[n] # None /\ objects[n].admitted => ~PassRefused(n)]_vars
  <1>1. Init => Admissible
    <2>1. ASSUME Init, NEW n \in Names, objects[n] # None
          PROVE  objects[n].admitted = FALSE
      <3>1. PICK start : objects = [k \in Names |-> IF k = ServiceName /\ start.stored # None
                                                    THEN Stored(start.stored) ELSE None]
        BY <2>1 DEF Init
      <3>2. objects[n] = Stored(start.stored)
        BY <2>1, <3>1
      <3> QED BY <3>2 DEF Stored
    <2> QED BY <2>1 DEF Admissible, Live
  <1>2. Inv /\ Admissible /\ [Next]_vars => Admissible'
    BY StepAdmissible
  <1>3. Admissible => [\A n \in Names : objects[n] # None /\ objects[n].admitted
                                          => ~PassRefused(n)]_vars
    BY DEF Admissible, Live, PassRefused, InPass, AdmitsUpdate
  <1> QED BY <1>1, <1>2, <1>3, Invariance, PTL DEF Spec
=============================================================================
