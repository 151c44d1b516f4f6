SPECIFICATION FairMonitorSpec
CONSTANTS
  StackSize <- MCStackSize
  BeyondMemory = 255
  MAX_STACK_SIZE = 5
  Images <- MCImages
  Window <- MCWindow
  Addresses <- MCAddresses
INVARIANT MonitorTypeOK
INVARIANT OverflowOnRecord
INVARIANT StepFlagFollowsCommand
PROPERTY ExceptionSticks
PROPERTY EmptyLineIsHarmless
PROPERTY StepReturns
CHECK_DEADLOCK FALSE
