----------------------- MODULE HorizonDeploymentProofs -----------------------
(***************************************************************************)
(* Whatever the spec, the parts of a Deployment fit together, and what its *)
(* pods need is made or checked by the pass - for an object of the usual   *)
(* name.                                                                   *)
(***************************************************************************)
EXTENDS HorizonDeployment, TLAPS

\* Every mount of either container names a volume of the pod: getVolumes and
\* getVolumeMounts, and the TLS and Memcached parts, add them in step.
THEOREM MountsHaveVolumes ==
  ASSUME NEW n \in Names, NEW s \in Specs, NEW m \in SecretNames \cup {None},
         NEW mount \in Mounts(s, m) \cup LogMounts
  PROVE  \E v \in Volumes(n, s, m) : v.name = mount.volume
  <1>1. CASE mount \in BaseMounts \cup LogMounts
    <2>1. mount.volume \in {"config-data", "horizon-secret-key", "scripts", "logs"}
      BY <1>1 DEF BaseMounts, LogMounts, Mount
    <2>2. \A name \in {"config-data", "horizon-secret-key", "scripts", "logs"} :
            \E v \in BaseVolumes(n) : v.name = name
      BY DEF BaseVolumes, Volume
    <2> QED BY <2>1, <2>2 DEF Volumes
  <1>2. CASE \E e \in Propagated(s) : mount \in e.mounts
    <2>1. PICK e \in Propagated(s) : mount \in e.mounts
      BY <1>2
    <2>2. e \in ExtraMounts
      BY <2>1 DEF Propagated, Specs
    <2>3. \E v \in e.volumes : v.name = mount.volume
      BY <2>1, <2>2, ExtraAssumptions
    <2> QED BY <2>1, <2>3 DEF Volumes, ExtraVolumes
  <1>3. CASE mount \in TLSMounts(s)
    <2>1. CASE mount \in {Mount("horizon-tls-certs", p) : p \in {"tls.crt", "tls.key"}} /\ TLSEnabled(s)
      <3>1. mount.volume = "horizon-tls-certs"
        BY <2>1 DEF Mount
      <3>2. Volume("horizon-tls-certs", NamedSecret(s.cert)) \in Volumes(n, s, m)
        BY <2>1 DEF Volumes, TLSVolumes, TLSEnabled
      <3> QED BY <3>1, <3>2 DEF Volume
    <2>2. CASE mount = Mount("combined-ca-bundle", "tls-ca-bundle.pem") /\ TLSEnabled(s) /\ s.ca # None
      <3>1. mount.volume = "combined-ca-bundle"
        BY <2>2 DEF Mount
      <3>2. Volume("combined-ca-bundle", NamedSecret(s.ca)) \in Volumes(n, s, m)
        BY <2>2 DEF Volumes, TLSVolumes
      <3> QED BY <3>1, <3>2 DEF Volume
    <2> QED BY <1>3, <2>1, <2>2 DEF TLSMounts
  <1>4. CASE mount \in MTLSMounts(m)
    <2>1. mount.volume = "memcached-mtls" /\ m # None
      BY <1>4 DEF MTLSMounts, Mount
    <2>2. Volume("memcached-mtls", NamedSecret(m)) \in Volumes(n, s, m)
      BY <2>1 DEF Volumes, MTLSVolumes
    <2> QED BY <2>1, <2>2 DEF Volume
  <1> QED BY <1>1, <1>2, <1>3, <1>4 DEF Mounts

\* Of an object called ServiceName a pod needs nothing but what every pass makes
\* or checks, what the user mounts, and the client certificate for Memcached.
THEOREM SourcesAreProvided ==
  ASSUME NEW s \in Specs, NEW m \in SecretNames \cup {None}, NEW h
  PROVE  Sources(Template(ServiceName, s, m, h)) \subseteq
           MadeFor(ServiceName) \cup CheckedFor(s) \cup {NamedSecret(x) : x \in {m} \ {None}}
             \cup UserSources(s)
  <1> DEFINE provided == MadeFor(ServiceName) \cup CheckedFor(s)
                           \cup {NamedSecret(x) : x \in {m} \ {None}}
                           \cup UserSources(s)
  <1>1. ASSUME NEW v \in BaseVolumes(ServiceName), v.source # EmptyDir PROVE v.source \in provided
    BY <1>1 DEF BaseVolumes, Volume, MadeFor
  <1>2. ASSUME NEW v \in TLSVolumes(s) PROVE v.source \in provided
    BY <1>2 DEF TLSVolumes, Volume, CheckedFor
  <1>3. ASSUME NEW v \in MTLSVolumes(m) PROVE v.source \in provided
    BY <1>3 DEF MTLSVolumes, Volume
  <1>4. ASSUME NEW v \in ExtraVolumes(s) PROVE v.source \in provided
    BY <1>4 DEF UserSources
  <1>5. ServiceAccount(ServiceName) \in provided
    BY DEF MadeFor
  <1> HIDE DEF provided
  <1>6. Sources(Template(ServiceName, s, m, h)) \subseteq provided
    BY <1>1, <1>2, <1>3, <1>4, <1>5 DEF Sources, Template, Volumes
  <1> QED BY <1>6 DEF provided

\* Of an object with any other name it needs the scripts of ServiceName, which
\* no pass for that object makes.
THEOREM ScriptsAreOfServiceName ==
  ASSUME NEW n \in Names, n # ServiceName, NEW s \in Specs, NEW m \in SecretNames \cup {None}, NEW h
  PROVE  /\ ScriptsOf(ServiceName) \in Sources(Template(n, s, m, h))
         /\ ScriptsOf(ServiceName) \notin MadeFor(n) \cup CheckedFor(s)
  <1>1. Volume("scripts", ScriptsOf(ServiceName)) \in Volumes(n, s, m)
    BY DEF Volumes, BaseVolumes
  <1>2. ScriptsOf(ServiceName) \in {v.source : v \in Volumes(n, s, m)}
    BY <1>1 DEF Volume
  <1>3. ScriptsOf(ServiceName) \notin MadeFor(n) \cup CheckedFor(s)
    BY DEF MadeFor, CheckedFor, ScriptsOf, ServiceAccount, ConfigData, SecretKey, NamedSecret, Ref
  <1>4. ScriptsOf(ServiceName) # EmptyDir
    BY DEF ScriptsOf, EmptyDir, Ref
  <1> QED BY <1>2, <1>3, <1>4 DEF Sources, Template
=============================================================================
