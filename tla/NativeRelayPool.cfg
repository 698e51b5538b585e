SPECIFICATION MCSpec
CONSTANTS
  s1 = s1
  s2 = s2
  u1 = u1
  u2 = u2
  Submitters = {s1, s2, u1, u2}
  Label <- MCLabel
  Parent <- MCParent
  MaxWorkers = 2
  SoftLimit = 1
  None = None
  Configs <- MCConfigs
  MaxResets = 1
  
PROPERTIES QueuedJobsRun ConnectsEnd
CHECK_DEADLOCK FALSE
