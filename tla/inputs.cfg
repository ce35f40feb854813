SPECIFICATION Spec
CONSTANTS
  None = None
  t1 = t1
  t2 = t2
  Topologies <- MCTopologies
  MaxVersion = 2
  MaxReplicas = 1
  Specs <- InputSpecs
  Volatile <- AllInputs
  Lagging <- InputLag
  Starts <- InputStarts
  InitKeepsUnlisted = TRUE
INVARIANT TypeOK
INVARIANT QuietIsCurrent
INVARIANT QuietIsHonest
\* With all budgets spent and everything current, nothing is left to do.
CHECK_DEADLOCK FALSE
