SPECIFICATION BootSpec
CONSTANTS
  Spelling <- MCSpelling
  StackSize <- MCStackSize
  Garbage <- MCGarbage
  Unset = {0}
  Lines <- NestedLines
  MaxLines = 2
INVARIANT IncompleteScrubbed
CHECK_DEADLOCK FALSE
