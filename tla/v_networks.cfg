SPECIFICATION Spec
CONSTANTS
  None = None
  t1 = t1
  t2 = t2
  Topologies <- MCTopologies
  MaxVersion = 1
  MaxReplicas = 1
  Specs <- NetworkSpecs
  Volatile <- Nothing
  Lagging <- JustDeployment
  Starts <- NetworkStarts
  InitKeepsUnlisted = FALSE
PROPERTY WaitsForNetworks
\* With all budgets spent and everything current, nothing is left to do.
CHECK_DEADLOCK FALSE
