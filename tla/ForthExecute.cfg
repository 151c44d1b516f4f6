SPECIFICATION BootSpec
CONSTANTS
  Spelling <- MCSpelling
  StackSize <- MCStackSize
  Garbage <- MCGarbage
  Unset = {0}
  Lines <- ExecuteLines
  MaxLines = 2
INVARIANT TokenExecuted
CHECK_DEADLOCK FALSE
