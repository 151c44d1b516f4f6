SPECIFICATION Spec
CONSTANTS
  DEPTH = 4
  Value = {dead, zero, one}
  DEAD = dead
  ZERO = zero
INVARIANT TypeOK
INVARIANT TempsShowStack
PROPERTY IsStackDevice
