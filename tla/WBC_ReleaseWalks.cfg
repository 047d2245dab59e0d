SPECIFICATION Spec
CONSTANTS
  GraceTicks = 1
  InitTicks = 1
  RecoveryBlendTicks = 1
  Motions <- MCStick
  Flavors <- MCFull
  MaxLosses = 0
  MaxSessions = 0
  MaxFailures = 0
  NoPlan = NoPlan
PROPERTY ReleaseDoesNotWalk
