--------------------------- MODULE HorizonDeployment ---------------------------
(***************************************************************************)
(* What the pods and the Service of a Horizon object look like:            *)
(* internal/horizon/deployment.go and volumes.go, the propagation of extra *)
(* mounts in api/v1beta1/horizon_types.go, the ports and the endpoint.      *)
(* Operators only, no state.                                               *)
(*                                                                         *)
(* A Kubernetes name that the code puts together is the pair of its two    *)
(* parts.  A path is a model value; all that is asked of it is whether it  *)
(* lies below one of the directories of a theme.                           *)
(***************************************************************************)
EXTENDS Integers

CONSTANTS
  None,          \* unset field
  Names,         \* names a Horizon object may have
  ServiceName,   \* "horizon", the name of everything that is not named after the object
  SecretNames,   \* names of secrets a spec may refer to
  Images,        \* container images; None stands for the empty string
  ExtraMounts,   \* entries of spec.extraMounts
  ExtraPaths,    \* where an extra mount may be mounted
  ThemePaths     \* those of them that name a theme directory

BuiltinVolumes ==
  {"config-data", "horizon-secret-key", "scripts", "logs", "horizon-tls-certs",
   "combined-ca-bundle", "memcached-mtls"}

ASSUME NameAssumptions ==
  /\ ServiceName \in Names
  /\ None \notin Names \cup SecretNames \cup Images

\* Users name their own volumes, mount what they name, and give sources a pod
\* can have: volumes.go 59-62 ignores the error of one that cannot be converted.
ASSUME ExtraAssumptions ==
  /\ ThemePaths \subseteq ExtraPaths
  /\ \A e \in ExtraMounts :
       /\ e.theme \in BOOLEAN /\ e.propagates \in BOOLEAN
       /\ \A v \in e.volumes : v.name \notin BuiltinVolumes
       /\ \A m \in e.mounts : m.path \in ExtraPaths /\ \E v \in e.volumes : v.name = m.volume

Schemes == {"http", "https"}

\* The fields of a spec that shape the objects made for it.
Specs == [secret: SecretNames, cert: SecretNames \cup {None}, ca: SecretNames \cup {None},
          image: Images \cup {None}, topology: {None, "own", "foreign"},
          extra: SUBSET ExtraMounts,
          override: Schemes \cup {None}]    \* scheme of override.service.endpointURL

TLSEnabled(s) == s.cert # None

-----------------------------------------------------------------------------
(* Names of the objects made for the Horizon object n.                       *)

Ref(kind, base, suffix) == [kind |-> kind, base |-> base, suffix |-> suffix]

ServiceAccount(n) == Ref("ServiceAccount", n, "horizon-")
ConfigData(n) == Ref("ConfigMap", n, "-config-data")
ScriptsOf(n) == Ref("ConfigMap", n, "-scripts")
SecretKey == Ref("Secret", ServiceName, "")
Service == Ref("Service", ServiceName, "")
Deployment == Ref("Deployment", ServiceName, "")
NamedSecret(s) == Ref("Secret", s, "")
EmptyDir == Ref("EmptyDir", ServiceName, "")

-----------------------------------------------------------------------------
(* Extra mounts.                                                             *)

\* ValidateThemeExtraMountPath: one mount elsewhere is enough to drop the entry.
ValidTheme(e) == \A m \in e.mounts : m.path \in ThemePaths

\* Propagate, for the only propagation type there is.
Propagated(s) == {e \in s.extra : e.propagates /\ (e.theme => ValidTheme(e))}

ExtraVolumes(s) == UNION {e.volumes : e \in Propagated(s)}
UserSources(s) == {v.source : v \in ExtraVolumes(s)}

-----------------------------------------------------------------------------
(* Volumes and their mounts.                                                 *)

Volume(name, source) == [name |-> name, source |-> source]
Mount(volume, path) == [volume |-> volume, path |-> path]

BaseVolumes(n) ==
  {Volume("config-data", ConfigData(n)),
   Volume("horizon-secret-key", SecretKey),
   Volume("scripts", ScriptsOf(ServiceName)),
   Volume("logs", EmptyDir)}

BaseMounts ==
  {Mount("config-data", "/var/lib/config-data/default/"),
   Mount("config-data", "/var/lib/kolla/config_files/config.json"),
   Mount("horizon-secret-key", "/run/openstack-dashboard/.secrets"),
   Mount("scripts", "/usr/local/bin/container-scripts"),
   Mount("scripts", "/usr/local/bin/kolla_theme_setup"),
   Mount("logs", "/var/log/horizon")}

LogMounts == {Mount("logs", "/var/log/horizon")}

\* formatTLSOptions: the CA bundle is used only next to a certificate.
TLSVolumes(s) ==
  {Volume("horizon-tls-certs", NamedSecret(x)) : x \in {s.cert} \ {None}} \cup
  {Volume("combined-ca-bundle", NamedSecret(x)) : x \in IF TLSEnabled(s) THEN {s.ca} \ {None} ELSE {}}

TLSMounts(s) ==
  (IF TLSEnabled(s)
   THEN {Mount("horizon-tls-certs", p) : p \in {"tls.crt", "tls.key"}} ELSE {}) \cup
  (IF TLSEnabled(s) /\ s.ca # None
   THEN {Mount("combined-ca-bundle", "tls-ca-bundle.pem")} ELSE {})

\* The client certificate for Memcached, m, whether or not the spec asks for TLS.
MTLSVolumes(m) == {Volume("memcached-mtls", NamedSecret(x)) : x \in {m} \ {None}}
MTLSMounts(m) ==
  {Mount("memcached-mtls", p) : p \in IF m = None THEN {} ELSE {"mtls.crt", "mtls.key", "mtls-ca.crt"}}

Volumes(n, s, m) ==
  BaseVolumes(n) \cup ExtraVolumes(s) \cup TLSVolumes(s) \cup MTLSVolumes(m)

Mounts(s, m) ==
  BaseMounts \cup (UNION {e.mounts : e \in Propagated(s)}) \cup TLSMounts(s) \cup MTLSMounts(m)

\* Made by every pass for n, and looked at by every pass before it deploys.
MadeFor(n) == {ServiceAccount(n), ConfigData(n), ScriptsOf(n), SecretKey}
CheckedFor(s) == {NamedSecret(x) : x \in {s.secret, s.cert, s.ca} \ {None}}

-----------------------------------------------------------------------------
(* Ports.                                                                    *)

HorizonSvcPort == 80
HorizonPort == 8080
HorizonSvcPortTLS == 443
HorizonPortTLS == 8443

ContainerPort(s) == IF TLSEnabled(s) THEN HorizonPortTLS ELSE HorizonPort
ProbeScheme(s) == IF TLSEnabled(s) THEN "https" ELSE "http"

ServicePort(s) ==
  IF TLSEnabled(s) THEN [port |-> HorizonSvcPortTLS, target |-> HorizonPortTLS]
  ELSE [port |-> HorizonSvcPort, target |-> HorizonPort]

\* An overridden endpoint is published as it is, whatever the pods speak.
EndpointScheme(s) ==
  IF s.override # None THEN s.override ELSE IF TLSEnabled(s) THEN "https" ELSE "http"

-----------------------------------------------------------------------------
\* The pod template for spec s of the object n, Memcached's client certificate
\* m and the hash h of the inputs.
Template(n, s, m, h) ==
  [account |-> ServiceAccount(n),
   image |-> s.image,
   env |-> h,
   volumes |-> Volumes(n, s, m),
   mounts |-> Mounts(s, m),
   logMounts |-> LogMounts,
   port |-> ContainerPort(s),
   scheme |-> ProbeScheme(s),
   affinity |-> IF s.topology = None THEN "distribute" ELSE s.topology]

\* What has to exist before a pod of template t starts: its account and what it
\* mounts.
Sources(t) == {t.account} \cup ({v.source : v \in t.volumes} \ {EmptyDir})
=============================================================================
