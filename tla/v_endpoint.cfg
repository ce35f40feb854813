SPECIFICATION Spec
CONSTANTS
  None = None
  t1 = t1
  t2 = t2
  Topologies <- MCTopologies
  MaxVersion = 1
  MaxReplicas = 1
  Specs <- ExposeSpecs
  Volatile <- Nothing
  Lagging <- JustDeployment
  Starts <- PlainStarts
  InitKeepsUnlisted = FALSE
INVARIANT ReadyMatchesEndpoint
\* With all budgets spent and everything current, nothing is left to do.
CHECK_DEADLOCK FALSE
