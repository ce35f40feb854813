SPECIFICATION PodSpec
CONSTANTS
  None = None
  t1 = t1
  Topologies <- MCTopologies
  MaxVersion = 1
  MaxReplicas = 1
  Specs <- PodSpecs
  Volatile <- NoInputs
  Lagging <- JustConfigMap
  Starts <- PodStarts
  InitKeepsUnlisted = FALSE
INVARIANT PodTypeOK
INVARIANT PodsRunTheConfiguration
PROPERTY RollsOutWhatIsRendered
\* With all budgets spent and everything current, nothing is left to do.
CHECK_DEADLOCK FALSE
