SPECIFICATION FairSpec
CONSTANTS
  Blocks <- MCBlocks
  Genesis = "g"
  Chain <- MCChain
  Score <- MCScore
  LocalBlocks <- MCLocal
  PeerStart = "b3"
  PeerCount = 3
  BatchSize = 2
  StreamCap = 1
  MaxErrors = 1
INVARIANTS AncestorFound
PROPERTIES SyncCatchesUp DownloadReturns SyncedAtLast
CHECK_DEADLOCK FALSE
