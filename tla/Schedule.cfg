CONSTANTS
  day = day
  night = night
  Bodies = {day, night}
  Wishes <- AnyWishes
  InitLayers <- TwoLayers
  MaxAttempts = 3
  MaxId = 4
  MaxStrays = 1
SPECIFICATION Spec
INVARIANTS
  TypeOK
  EditsStayInPlace
  UndisturbedEditIsExact
PROPERTY OnlyKnownLayersEdited
