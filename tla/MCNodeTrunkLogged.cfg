SPECIFICATION Spec
CONSTANTS
  Blocks <- MCBlocks
  Genesis = "g"
  Parent <- MCParent
  Score <- MCScore
  Rank <- MCRank
  HasLogs = {"a1", "a3", "b1"}
  Workers = {"stream", "packer"}
  MaxErrors = 0
  MaxCrashes = 1
INVARIANT TrunkLogged
CHECK_DEADLOCK FALSE
