SPECIFICATION Spec
CONSTANTS
  BlockInterval = 2
  MaxBlockProposers = 2
  Addrs <- MCAddrs
  Horizon = 8
  HashMax = 2
PROPERTIES SchedulePromise ScoreCountsActives
CHECK_DEADLOCK FALSE
