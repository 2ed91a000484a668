\* Buffers of four intervals, up to eight between two retargets that clear.
SPECIFICATION Spec
CONSTANTS
  Parameters <- MCParameters
  Starts <- MCStarts
  Steps <- MCSteps
  Diffs = {2, 3, 9}
  Clock <- MCClock
  Second = 1000
  MaxCalls = 8
INVARIANTS
  TypeOK
  WindowIsLast
  AveragePositive
  DifficultyBounded
PROPERTIES
  RetargetsApart
