SPECIFICATION FairSpec
CONSTANTS
  None = None
  horizon = horizon
  other = other
  osp = osp
  cert = cert
  old = old
  new = new
  theme = theme
  elsewhere = elsewhere
  Names <- MCNames
  ServiceName = horizon
  SecretNames <- MCSecrets
  Images <- MCImages
  ExtraMounts <- MCExtras
  ExtraPaths <- MCPaths
  ThemePaths = {theme}
  MaxVersion = 1
  Volatile <- MCSecrets
  Installed = old
  Releases <- MCImages
  Starts <- MCStarts
INVARIANT TypeOK
INVARIANT ReadyIsCurrent
INVARIANT UsualPodsCanStart
INVARIANT ConsumerIsCurrent
PROPERTY ImageIsAskedFor
PROPERTY DeletionsComplete
PROPERTY TakesOver
\* With all budgets spent and everything current, nothing is left to do.
CHECK_DEADLOCK FALSE
