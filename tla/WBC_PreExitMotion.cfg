SPECIFICATION Spec
CONSTANTS
  GraceTicks = 1
  InitTicks = 1
  RecoveryBlendTicks = 1
  Motions <- MCIdleOnly
  Flavors <- MCOffOnly
  MaxLosses = 1
  MaxSessions = 1
  MaxFailures = 0
  NoPlan = NoPlan
INVARIANT NoPreExitMotion
