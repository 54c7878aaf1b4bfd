CONSTANTS
  PATH_ENTRIES = 6
  Paths <- MCPaths
SPECIFICATION ParserSpec
INVARIANTS
  TrailingSlashClosesComponent
CHECK_DEADLOCK FALSE
