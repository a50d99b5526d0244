\* One call under the retry budget and the delays the code uses, in milliseconds,
\* with durations of 18 bits, so that the longest hints do not fit.
CONSTANTS
  MaxRetries = 4
  BaseDelay = 500
  MaxDelay = 20000
  Second = 1000
  Word = 131072
  Headers <- MCHeaders
SPECIFICATION Spec
INVARIANTS
  TypeOK
  PostAtMostOnce
  RefusedPostHasNoEffect
  BodiesAccountedFor
  RetriesSpent
  BackoffWithinBounds
  HintHonored
PROPERTIES
  ImplementsRestCall
  CancelledCallEnds
  EveryCallEnds
