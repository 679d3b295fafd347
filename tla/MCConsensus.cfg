SPECIFICATION ConsensusSpec
CONSTANTS
  BlockInterval = 1
  MaxBlockProposers = 2
  Masters <- MCMasters
  GenesisList <- MCGenesis
  Endorsor <- MCEndorsor
  Bodies <- MCBodies
  Hash <- MCHash
  VIP191 = 2
  CacheSize = 2
  MaxBlocks = 2
  LastTime = 3
INVARIANTS CacheCoherent PackedIsValid
CHECK_DEADLOCK FALSE
