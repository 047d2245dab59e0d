SPECIFICATION TeleopSpec
CONSTANTS
  HoldTicks = 3
  kRing = 8
  kHistory = 4
  kLookaheadTicks = 2
  kFrames = 4
  StaleMs = 120
  EngageAges <- engage_ages_mc
  ArrivalAges <- arrival_ages_mc
  MaxTicks = 10
INVARIANTS
  FullbodyNotHidden
  TargetsFollowClaims
  NeverBackwards
  WindowShowsGrid
PROPERTIES
  NoRequestInSession
  DropoutLetsGo
