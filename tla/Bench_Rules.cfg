SPECIFICATION BenchSpec
CONSTANTS
  TapMax = 2
  DoubleGap = 1
  MaxScript = 10
  Close = 8
  Fist = 12
  LimitLo = 0
  LimitHi = 12
  Axes <- axes_mc
  VlaTargets <- vla_mc
  Measured <- measured_mc
  DwellTicks = 2
  RampTicks = 2
  FistTicks = 2
  Reach = 3
  StallErr = 1
  StallOffset = 2
  StallTicks = 3
  warn_c = 110
  critical_c = 117
  Temps <- temps_mc
  Positions = {0, 1}
  Cmds = {1, 2, 3}
  frozen_cmd_move = 1
  FrozenTicks = 2
  UnrespTicks = 2
  Commands = {"idle", "walk", "run"}
  Moving = {"walk", "run"}
  ReplanInterval = 2
  Outputs = {0, 3}
  Estimates = {0, 1}
  MaxPlannerFrames = 4
  Capacity = 9
  LookAhead = 2
  BlendFrames = 2
  Paced = TRUE
  MaxBadPlans = 2
  Ring = 3
  Width = 6
  MaxCalls = 9
  NoRow = NoRow
INVARIANTS
  
  SqueezeIsHeld
  TorqueBounded
  
  Reconstructible
PROPERTIES
  NoChatter
  ImplementsQueue
  StopFlushes
  DriveReachesPlayback
CHECK_DEADLOCK FALSE
