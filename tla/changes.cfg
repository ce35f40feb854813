SPECIFICATION Spec
CONSTANTS
  None = None
  t1 = t1
  t2 = t2
  Topologies <- MCTopologies
  MaxVersion = 2
  MaxReplicas = 1
  Specs <- ChangeSpecs
  Volatile <- Nothing
  Lagging <- JustDeployment
  Starts <- ChangeStarts
  InitKeepsUnlisted = FALSE
INVARIANT QuietIsCurrent
INVARIANT FinalizerGuardsWork
PROPERTY ObservedMonotone
PROPERTY ReleaseBeforeRemoval
PROPERTY ImplementsService
\* With all budgets spent and everything current, nothing is left to do.
CHECK_DEADLOCK FALSE
