SPECIFICATION MonitorSpec
CONSTANTS
  StackSize <- MCStackSize
  BeyondMemory = 255
  MAX_STACK_SIZE = 5
  Images <- MCImages
  Window <- MCWindow
  Addresses <- MCAddresses
CHECK_DEADLOCK FALSE
INVARIANT DepthWithinSize
