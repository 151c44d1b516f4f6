SPECIFICATION FairSpec
CONSTANTS
  StackSize <- MCStackSize
  BeyondMemory = 255
  Images <- MCImages
INVARIANT TypeOK
INVARIANT StackBound
INVARIANT StopReason
INVARIANT ReturnAddresses
PROPERTY StackEffect
PROPERTY AssembledMeaning
PROPERTY ListedTargets
PROPERTY RunStops
CHECK_DEADLOCK FALSE
