SPECIFICATION Spec
CONSTANTS
  MAXPARAMS_LIBRARIES = 2
  DefaultModem = "Magic"
  NULL = NULL
  Types = {"Tx", "ModemRx"}
  MAX_ERRORS = 1
  Closed = Closed
  Missing = Missing
  Blank = Blank
  TooLong = TooLong
  CommandLines <- MCCommandLines
  OldFiles <- MCOldFiles
  Lines = {a, b}
  MaxLines = 4
CHECK_DEADLOCK FALSE
INVARIANTS
  TypeOK
  ExitStatusTellsUnmatched
  StatsAreExact
  StopsAtFirstDifference
PROPERTIES
  OldDumpsAreKept
  LibrariesGetTheirArguments
