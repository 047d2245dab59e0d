SPECIFICATION Spec
CONSTANTS
  Face = {"A", "B", "X", "Y"}
  Chords = {{}, {"A"}, {"B"}, {"X"}, {"Y"}, {"A", "B"}, {"A", "B", "X", "Y"}}
  SingleHoldTicks = 2
  HardHoldTicks = 3
  EstopHoldTicks = 3
  BasicModeMax = 1
  CrouchModes = {2}
  FullModeMax = 3
  TapMax = 2
  DoubleGap = 1
INVARIANTS HeightMatchesMode LabelsFollowStops
PROPERTIES   EstopAnswers SilenceStops
