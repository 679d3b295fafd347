SPECIFICATION GasLimitFairSpec
CONSTANTS
  MinGasLimit = 5
  GasLimitBoundDivisor = 4
  MaxUint64 = 40
  InitialGasLimit = 16
  Targets <- MCTargets
  Speeds <- MCSpeeds
  MaxForeign = 3
INVARIANT PackedLimitIsValid
PROPERTY TargetReached
