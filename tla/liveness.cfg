SPECIFICATION FairSpec
CONSTANTS
  None = None
  t1 = t1
  t2 = t2
  Topologies <- MCTopologies
  MaxVersion = 1
  MaxReplicas = 1
  Specs <- LiveSpecs
  Volatile <- JustKeystone
  Lagging <- JustDeployment
  Starts <- LiveStarts
  InitKeepsUnlisted = FALSE
PROPERTY Converges
PROPERTY NothingRemains
\* With all budgets spent and everything current, nothing is left to do.
CHECK_DEADLOCK FALSE
