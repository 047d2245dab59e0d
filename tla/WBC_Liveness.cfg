SPECIFICATION FairSpec
CONSTANTS
  GraceTicks = 1
  InitTicks = 1
  RecoveryBlendTicks = 1
  Motions <- MCStick
  Flavors <- MCFull
  MaxLosses = 1
  MaxSessions = 1
  MaxFailures = 1
  NoPlan = NoPlan
ACTION_CONSTRAINT OperatorLeavesFirst
PROPERTIES EstopDamps RecoveryEnds HoldEnds
