SPECIFICATION PropagationFairSpec
CONSTANTS
  Peers = {p1, p2, p3}
  Blocks <- MCBlocks
  Genesis = "g"
  Parent <- MCParent
  Number <- MCNumber
  Time <- MCTime
  Valid <- MCValid
  maxFetches = 2
  FutureLimit = 2
  MaxNow = 2
  MaxMessages = 1
INVARIANTS FetchesCounted QueueDrains
PROPERTY EarlyIsStored
CHECK_DEADLOCK FALSE
