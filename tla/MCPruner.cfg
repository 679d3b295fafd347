SPECIFICATION PrunerSpec
CONSTANTS
  InitSlack = 1
  MaxStateHistory = 1
  DropDelay = 0
  MaxAhead = 1
  MaxReorg = 2
  MaxWrites = 1
  MaxFaults = 2
  MaxBlocks = 8
INVARIANTS StateAvailable ArchiveComplete
CHECK_DEADLOCK FALSE
