\* Two rounds instead of three, so that three instances can exhaust them.
SPECIFICATION FairSpec
CONSTANTS
  p1 = p1  p2 = p2  p3 = p3
  i1 = i1  i2 = i2  i3 = i3
  None = None
  Procs <- ThreeProcs
  Pids <- ThreePids
  Attempts = 2
INVARIANT TypeOK
INVARIANT ExclusiveWhileOwnersLive
PROPERTY LoneRecovery
CHECK_DEADLOCK FALSE
