CONSTANTS
  PATH_ENTRIES = 6
  Paths <- MCPaths
SPECIFICATION ParserSpec
INVARIANTS
  ParserTypeOK
  ScanStaysInPath
  ParsesAsEntries
  OverflowsOnlyWhenTooMany
PROPERTIES
  ParseEnds
CHECK_DEADLOCK FALSE
