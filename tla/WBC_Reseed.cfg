SPECIFICATION EitherSpec
CONSTANTS
  GraceTicks = 1
  InitTicks = 1
  RecoveryBlendTicks = 2
  Motions <- MCMotions
  Flavors <- MCFull
  MaxLosses = 2
  MaxSessions = 2
  MaxFailures = 1
  NoPlan = NoPlan
INVARIANTS
  NoPreLossMotion
  NoPreExitPlan
  HoldsUntilReseeded
  LossPolicy
PROPERTIES
  RecoveryIsEarned
  EstopIsTerminal
