SPECIFICATION FairToolSpec
CONSTANTS
  foo = foo
  bar = bar
  Symbol = {foo, bar}
  Sources <- MCSources
  FA_MAX_NUMBER_OF_SYMBOLS = 2
  HEX_MAX_BUFFER_SIZE = 3
INVARIANT TypeOK
INVARIANT FileComplete
INVARIANT PhasesAgree
INVARIANT WriterInStep
INVARIANT LabelsResolve
INVARIANT LoadedAsAssembled
INVARIANT PartialLoad
PROPERTY SymbolsStable
PROPERTY Terminates
CHECK_DEADLOCK FALSE
