SPECIFICATION FairSpec
CONSTANTS
  Paths <- MCPaths
  Compressed <- MCCompressed
  Uses <- MCUses
  MaxWorks = 3
INVARIANTS TypeOK ReadsLastWrite LeaksAreFailures WholeReads NoUseAfterDestroy
PROPERTIES CarefulWorkCompletes ShutdownCompletes
CHECK_DEADLOCK FALSE
