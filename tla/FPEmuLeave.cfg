SPECIFICATION Spec
CONSTANTS
  StackSize <- MCStackSize
  BeyondMemory = 255
  Images <- CallImages
PROPERTY LeaveLoadsReturnAddress
CHECK_DEADLOCK FALSE
