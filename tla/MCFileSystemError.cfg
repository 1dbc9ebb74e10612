SPECIFICATION FairSpec
CONSTANTS
  Paths <- MCPaths
  Compressed <- MCCompressed
  Uses <- MCFaultyUse
  MaxWorks = 1
PROPERTY WorkCompletes
CHECK_DEADLOCK FALSE
