CONSTANTS
  day = day
  night = night
  Bodies = {day, night}
  Wishes <- RemovalWishes
  InitLayers <- TwoLayers
  MaxAttempts = 1
  MaxId = 4
  MaxStrays = 0
SPECIFICATION Spec
INVARIANT UpdateLeavesWhatWasAsked
