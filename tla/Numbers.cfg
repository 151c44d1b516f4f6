SPECIFICATION Spec
CONSTANTS
  Alphabet = {35, 36, 37, 39, 45, 48, 49, 57, 58, 65, 90, 102}
  Bases = {2, 10, 16, 36}
  MaxLength = 4
INVARIANT BaseNumeralsRead
INVARIANT AssemblerReadsPrefixed
INVARIANT ReadersAgree
CHECK_DEADLOCK FALSE
