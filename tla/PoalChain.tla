----------------------------- MODULE PoalChain -----------------------------
(***************************************************************************)
(* A chain on which the listed proposers build block after block, each on  *)
(* the schedule of package poal: Packer.Schedule asks the scheduler for    *)
(* the next slot, writes the Active flags back through authority.Update    *)
(* and adds the score to the parent's total.  The hash is any function of  *)
(* time: every block draws the values it may look at.                      *)
(***************************************************************************)
EXTENDS Poal

CONSTANTS
  Addrs,      \* the proposers, in the order of the authority's list
  Horizon,    \* bound: the last slot time
  HashMax     \* the hash takes the values 0..HashMax

ASSUME ChainAssumption ==
  /\ Len(Addrs) \in Nat \ {0}
  /\ DOMAIN Addrs = 1..Len(Addrs)
  /\ \A i, j \in DOMAIN Addrs : Addrs[i] = Addrs[j] => i = j
  /\ Horizon \in Nat
  /\ HashMax \in Nat

VARIABLES
  proposers,   \* the list of [Address, Active]
  blockTime,   \* timestamp of the best block
  totalScore,  \* its total score
  nowTime      \* the clock the last block was scheduled with

vars == <<proposers, blockTime, totalScore, nowTime>>

\* The times a block on top of the best one may have.
Later == { t \in 0..Horizon : t > blockTime }

Init ==
  /\ proposers = [ i \in DOMAIN Addrs |-> [Address |-> Addrs[i], Active |-> TRUE] ]
  /\ blockTime = 0
  /\ totalScore = 0
  /\ nowTime = 0

\* authority.Update refuses an entry that is not linked, which is how the only
\* entry of the list looks.
Linked == \E i \in DOMAIN Addrs : i # 1

Update(s, t) ==
  [ i \in DOMAIN proposers |->
      IF Linked THEN [proposers[i] EXCEPT !.Active = ActiveAfter(s, t, proposers[i])]
                ELSE proposers[i] ]

Produce(addr, now, dprp, t) ==
  LET s == NewScheduler(addr, proposers, dprp, blockTime)
  IN  /\ Listed(addr, proposers)
      /\ Schedule(s, now, t)
      /\ proposers' = Update(s, t)
      /\ blockTime' = t
      /\ totalScore' = totalScore + score(s, t)
      /\ nowTime' = now

Next ==
  \E i \in DOMAIN Addrs, now \in 0..Horizon, dprp \in [Later -> 0..HashMax], t \in Later :
    Produce(Addrs[i], now, dprp, t)

Spec == Init /\ [][Next]_vars

-----------------------------------------------------------------------------
TypeOK ==
  /\ proposers \in [DOMAIN Addrs -> [Address : {Addrs[i] : i \in DOMAIN Addrs}, Active : BOOLEAN]]
  /\ \A i \in DOMAIN Addrs : proposers[i].Address = Addrs[i]
  /\ blockTime \in 0..Horizon
  /\ totalScore \in Nat
  /\ nowTime \in 0..Horizon

ActiveIdx == { i \in DOMAIN proposers : proposers[i].Active }

\* What Schedule promises (sched.go, "newBlockTime is promised to be >= nowTime
\* and > parentBlockTime"), and that the slot stays aligned with the parent.
SchedulePromise ==
  [][ /\ blockTime' >= nowTime'
      /\ blockTime' > blockTime
      /\ (blockTime' - blockTime) % BlockInterval = 0 ]_vars

\* A block always adds score, however many proposers it deactivates: the total
\* score grows along every chain, so a block can never be as good as its parent.
TotalScoreGrows == [][totalScore' > totalScore]_vars

\* The score of a block is the number of proposers the block leaves active: the
\* fork choice by total score follows the fork with more online proposers.
ScoreCountsActives ==
  [][Linked => totalScore' - totalScore = Cardinality(ActiveIdx')]_vars

\* A proposer a block deactivates missed a slot: with no slot between the block
\* and its parent, nobody is deactivated.
NoMissNoDeactivation ==
  [][blockTime' = blockTime + BlockInterval => ActiveIdx \subseteq ActiveIdx']_vars
=============================================================================
