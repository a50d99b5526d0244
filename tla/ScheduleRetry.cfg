CONSTANTS
  day = day
  night = night
  Bodies = {day, night}
  Wishes <- GrowingWishes
  InitLayers <- OneLayer
  MaxAttempts = 2
  MaxId = 4
  MaxStrays = 0
SPECIFICATION Spec
INVARIANT UpdateLeavesWhatWasAsked
