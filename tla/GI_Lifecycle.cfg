SPECIFICATION FairSpec
CONSTANTS
  DiskFaults = {"full"}
  ReleaseAttempts = 2
INVARIANTS
  StopEndsDamped
  LoopsHaveEngines
  EngineIsCurrent
  
PROPERTIES
  QuitEnds
  EstopReachesMotors
