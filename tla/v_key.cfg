SPECIFICATION PodSpec
CONSTANTS
  None = None
  t1 = t1
  Topologies <- MCTopologies
  MaxVersion = 1
  MaxReplicas = 2
  Specs <- KeySpecs
  Volatile <- NoInputs
  Lagging <- JustDeployment
  Starts <- KeyStarts
  InitKeepsUnlisted = FALSE
INVARIANT PodsShareTheKey
\* With all budgets spent and everything current, nothing is left to do.
CHECK_DEADLOCK FALSE
