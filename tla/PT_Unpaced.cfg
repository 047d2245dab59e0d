SPECIFICATION PlaybackSpec
CONSTANTS
  Commands = {"idle", "walk", "run"}
  Moving = {"walk", "run"}
  ReplanInterval = 2
  Outputs = {0, 3}
  Estimates = {0, 1}
  MaxPlannerFrames = 4
  Capacity = 9
  LookAhead = 2
  BlendFrames = 2
  Paced = FALSE
  MaxBadPlans = 0
INVARIANT PlanLandsWhereMeant
