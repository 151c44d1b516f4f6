SPECIFICATION FairBootSpec
CONSTANTS
  Spelling <- MCSpelling
  StackSize <- MCStackSize
  Garbage <- MCGarbage
  Unset <- MCUnset
  Lines <- MCLines
  MaxLines = 2
INVARIANT BootTypeOK
INVARIANT CompiledMeaning
INVARIANT InterpreterDecides
INVARIANT ReturnsHome
PROPERTY StacksGuarded
PROPERTY CompiledStays
PROPERTY HandsOver
PROPERTY IsWordList
PROPERTY PromptReturns
CHECK_DEADLOCK FALSE
