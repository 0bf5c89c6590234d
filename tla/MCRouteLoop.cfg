CONSTANTS
  Keys <- MCKeys
  Patterns <- MCPatterns
SPECIFICATION Spec
INVARIANT LoopInvariant
INVARIANT ReturnsMatchSegments
INVARIANT ObeysTopicRule
PROPERTY Terminates
CHECK_DEADLOCK FALSE
