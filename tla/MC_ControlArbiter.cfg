SPECIFICATION WindowSpec
CONSTANTS
  Tokens <- MCTokens
  SafeStandingToken = 50
  RecoveryBlendTicks = 50
  HandoffBlendTicks = 35
INVARIANTS
  RecoveryLands
PROPERTIES
  NoStepOnSourceChange
  QuarterStep
  LandsOnTarget
