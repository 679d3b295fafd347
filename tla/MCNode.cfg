SPECIFICATION FairSpec
CONSTANTS
  Blocks <- MCBlocks
  Genesis = "g"
  Parent <- MCParent
  Score <- MCScore
  Rank <- MCRank
  HasLogs = {"a1", "a3", "b1"}
  Workers = {"stream", "packer"}
  MaxErrors = 1
  MaxCrashes = 1
INVARIANTS RepositorySound BestIsBest LogsMatchTrunk SideTxsOffered
PROPERTIES BestOnlyImproves SyncRepairsBelowBest CommitReturns
CHECK_DEADLOCK FALSE
