------------------------------ MODULE GasLimit ------------------------------
(***************************************************************************)
(* The gas limit of blocks (block/gas_limit.go): how a packer moves it to  *)
(* its target (packer.gasLimit, packerLoop), where the target comes from   *)
(* when none is set (cmd/luckyshare/bandwidth), and what validation        *)
(* accepts of others (validateBlockHeader).                                *)
(***************************************************************************)
EXTENDS Naturals

CONSTANTS
  MinGasLimit,
  GasLimitBoundDivisor,
  MaxUint64,       \* math.MaxUint64
  InitialGasLimit, \* of genesis
  Targets,         \* gas limits an operator may set, 0 for none
  Speeds,          \* gas per second a block may have run at
  MaxForeign       \* bound: blocks of other packers

ASSUME GasLimitAssumption ==
  /\ {MinGasLimit, GasLimitBoundDivisor, MaxUint64, InitialGasLimit, MaxForeign} \subseteq Nat
  /\ 1 <= GasLimitBoundDivisor
  /\ GasLimitBoundDivisor <= MinGasLimit
  /\ MinGasLimit <= InitialGasLimit /\ InitialGasLimit <= MaxUint64
  /\ Targets \subseteq 0..MaxUint64
  /\ Speeds \subseteq 0..MaxUint64

VARIABLES
  gasLimit,        \* of the best block
  targetGasLimit,  \* of this packer, 0 for none
  bandwidth,       \* gas per second, 0 before the first measurement
  foreign

gasLimitVars == <<gasLimit, targetGasLimit, bandwidth, foreign>>

-----------------------------------------------------------------------------
min64(a, b) == IF a > b THEN b ELSE a

maxDiff(gl) == gl \div GasLimitBoundDivisor

\* Mutant: the largest step is refused.
IsValid_TooStrict(gl, parent) ==
  /\ gl >= MinGasLimit
  /\ (IF gl > parent THEN gl - parent ELSE parent - gl) < maxDiff(parent)

IsValid(gl, parent) ==
  /\ gl >= MinGasLimit
  /\ (IF gl > parent THEN gl - parent ELSE parent - gl) <= maxDiff(parent)

\* Adjust with a positive delta, which must not overflow,
Increase(gl, delta) ==
  LET diff == min64(delta, maxDiff(gl))
  IN  IF MaxUint64 - diff < gl THEN MaxUint64 ELSE gl + diff

\* and with one that is not, which must not fall below the floor.
Reduce(gl, delta) ==
  LET diff == min64(delta, maxDiff(gl))
  IN  IF MinGasLimit + diff > gl THEN MinGasLimit ELSE gl - diff

\* Mutant: a limit that is close is taken for reached.
Qualify_Hysteresis(gl, parent) ==
  IF gl > parent + 1 THEN Increase(parent, min64(gl - parent, maxDiff(parent)))
  ELSE Reduce(parent, IF gl > parent THEN 0 ELSE min64(parent - gl, maxDiff(parent)))

\* A delta of 0 is a reduction.
Qualify(gl, parent) ==
  IF gl > parent THEN Increase(parent, min64(gl - parent, maxDiff(parent)))
                 ELSE Reduce(parent, min64(parent - gl, maxDiff(parent)))

\* TolerableBlockPackingTime is half a second.
SuggestGasLimit == bandwidth \div 2

\* What packerLoop sets before it schedules.
Target == IF targetGasLimit = 0 THEN SuggestGasLimit ELSE targetGasLimit

\* Packer.gasLimit
PackedGasLimit == IF Target = 0 THEN gasLimit ELSE Qualify(Target, gasLimit)

-----------------------------------------------------------------------------
GasLimitInit ==
  /\ gasLimit = InitialGasLimit
  /\ targetGasLimit \in Targets
  /\ bandwidth = 0
  /\ foreign = 0

PackLimit ==
  /\ gasLimit' = PackedGasLimit
  /\ UNCHANGED <<targetGasLimit, bandwidth, foreign>>

\* A valid block of somebody else becomes the best block.
Accept(gl) ==
  /\ foreign < MaxForeign
  /\ IsValid(gl, gasLimit)
  /\ gasLimit' = gl
  /\ foreign' = foreign + 1
  /\ UNCHANGED <<targetGasLimit, bandwidth>>

\* Bandwidth.Update: a low pass, except for the first.
UpdateBandwidth(newValue) ==
  /\ bandwidth' = IF bandwidth = 0 THEN newValue ELSE (bandwidth * 15 + newValue) \div 16
  /\ UNCHANGED <<gasLimit, targetGasLimit, foreign>>

GasLimitNext ==
  \/ PackLimit
  \/ \E gl \in 0..MaxUint64 : Accept(gl)
  \/ \E v \in Speeds : UpdateBandwidth(v)

GasLimitSpec == GasLimitInit /\ [][GasLimitNext]_gasLimitVars

\* The packer's turn comes again and again.
GasLimitFairSpec == GasLimitSpec /\ WF_gasLimitVars(PackLimit)

-----------------------------------------------------------------------------
GasLimitTypeOK ==
  /\ gasLimit \in MinGasLimit..MaxUint64
  /\ targetGasLimit \in Targets
  /\ bandwidth \in 0..MaxUint64
  /\ foreign \in 0..MaxForeign

\* What this packer would pack now, for whatever target, is valid for every
\* validator: Qualify and IsValid agree, also at the floor and near the largest
\* number.
PackedLimitIsValid == IsValid(PackedGasLimit, gasLimit)

Goal == IF targetGasLimit < MinGasLimit THEN MinGasLimit ELSE targetGasLimit

\* A block of this packer is not farther from its target than its parent, and not on
\* the other side of it.
Approaches ==
  [][ PackLimit /\ targetGasLimit # 0 =>
        \/ gasLimit <= gasLimit' /\ gasLimit' <= Goal
        \/ gasLimit >= gasLimit' /\ gasLimit' >= Goal ]_gasLimitVars

\* Once others stop, the gas limit gets to the target an operator set, and stays.
TargetReached == targetGasLimit # 0 => <>[](gasLimit = Goal)
=============================================================================
