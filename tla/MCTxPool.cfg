SPECIFICATION FairSpec
CONSTANTS
  Txs = {"a1", "a2"}
  Ids = {"ida"}
  Id <- MCId
  Origins = {"ann"}
  Origin <- MCOrigin
  Price <- MCPrice
  Callers = {"p2p", "api"}
  Methods = {"Add", "AddLocal", "StrictlyAdd"}
  Limit = 1
  LimitPerAccount = 1
  SmallPool = 3
  Verdicts <- MCVerdicts
  MaxObjs = 2
  MaxEvents = 1
INVARIANTS QuotaExact IdIndexSound WashKeepsLimit OfferedIsAnnounced
PROPERTIES AccountLimited OfferedEventually
CHECK_DEADLOCK FALSE
