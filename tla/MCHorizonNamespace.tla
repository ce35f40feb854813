--------------------------- MODULE MCHorizonNamespace ---------------------------
(* Instances of HorizonNamespace for TLC.                                      *)
EXTENDS HorizonNamespace, TLC

CONSTANTS horizon, other,             \* names of objects
          osp, cert,                  \* names of secrets
          old, new,                   \* images
          theme, elsewhere            \* paths

MCNames == {horizon, other}
MCSecrets == {osp, cert}
MCImages == {old, new}
MCPaths == {theme, elsewhere}

\* A theme that is not in its place, and a volume of another kind that comes from
\* a secret.
Extra(t, source) ==
  [theme |-> t, propagates |-> TRUE, mounts |-> {Mount("extra", elsewhere)},
   volumes |-> {Volume("extra", source)}]
Misplaced == Extra(TRUE, Ref("PersistentVolumeClaim", "extra", ""))
Brought == Extra(FALSE, NamedSecret(cert))
MCExtras == {Misplaced, Brought}

Plain == [secret |-> osp, cert |-> None, ca |-> None, image |-> None, topology |-> None,
          extra |-> {Misplaced}, override |-> None]
Secured == [Plain EXCEPT !.cert = cert]
Extended == [Plain EXCEPT !.extra = {Misplaced, Brought}]
Routed == [Plain EXCEPT !.override = "https"]
Foreign == [Plain EXCEPT !.topology = "foreign"]
Nil == [k \in Kinds |-> 0]
Situation(w, l, s) == [wanted |-> w, limit |-> l @@ Nil, stored |-> s]

\* Two objects, or one name used twice, while made objects are lost, the operator
\* is replaced, a certificate comes or goes, for TLS or as a user's own volume,
\* another operator looks on an endpoint with a route; edits; an object the webhooks have not seen.
MCStarts ==
  {Situation({Plain}, "create" :> 2 @@ "delete" :> 1 @@ "lose" :> 1, None),
   Situation({Plain}, "create" :> 2 @@ "delete" :> 1 @@ "restart" :> 1, None),
   Situation({Plain, Secured}, "create" :> 2 @@ "secret" :> 1, None),
   Situation({Extended}, "create" :> 2 @@ "delete" :> 1 @@ "secret" :> 1, None),
   Situation({Routed}, "create" :> 2 @@ "delete" :> 1 @@ "consumers" :> 1, None),
   Situation({Plain, Secured, Foreign},
         "create" :> 1 @@ "delete" :> 1 @@ "edit" :> 1 @@ "restart" :> 1, None),
   Situation({Plain}, "edit" :> 1 @@ "delete" :> 1, Foreign)}

ScriptStarts == {Situation({Plain}, "create" :> 2, None)}
=============================================================================
