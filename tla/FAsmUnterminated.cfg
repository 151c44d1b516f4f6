SPECIFICATION FairSpec
CONSTANTS
  foo = foo
  bar = bar
  Symbol = {foo, bar}
  Sources <- AllSources
  FA_MAX_NUMBER_OF_SYMBOLS = 2
  HEX_MAX_BUFFER_SIZE = 3
PROPERTY UnterminatedReported
CHECK_DEADLOCK FALSE
