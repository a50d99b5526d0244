\* One resource of each kind, two values, a lagging copy, and four years in which
\* the look-behind and the look-ahead end (one and two of them).
CONSTANTS
  Values = {v1, v2}
  Parent = parent
  Primary = primary
  Replicas = {lagging}
  MaxId = 2
  MaxStrays = 2
  MaxCalls = 2
  LookBehind = 1
  LookAhead = 2
  Instants = {1, 3}
  EndOfTime = 4
  NoRecord = NoRecord
SPECIFICATION Spec
INVARIANTS
  TypeOK
  OneResourcePerAnswer
  NoSilentOrphans
  DeletedStaysGone
CHECK_DEADLOCK FALSE
