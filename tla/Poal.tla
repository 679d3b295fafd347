------------------------------- MODULE Poal -------------------------------
(***************************************************************************)
(* The proof-of-authority scheduler (consensus/poal/sched.go): which       *)
(* proposer owns a time slot, when a proposer may build on a parent, and   *)
(* which proposers a new block activates, deactivates and scores.          *)
(*                                                                         *)
(* A scheduler is built on one parent block, so the hash dprp(number, t)   *)
(* is the function `dprp` of the slot time alone.  The slice `actives` is  *)
(* kept as the set of its positions in `proposers`; its k-th element is    *)
(* the position with k smaller ones.                                       *)
(***************************************************************************)
EXTENDS Integers, Sequences, FiniteSets

CONSTANTS
  BlockInterval,      \* seconds between two slots
  MaxBlockProposers   \* how many slots Updates looks back

ASSUME PoalAssumption ==
  /\ BlockInterval \in Nat \ {0}
  /\ MaxBlockProposers \in Nat \ {0}

Listed(addr, proposers) == \E i \in DOMAIN proposers : proposers[i].Address = addr

NewScheduler(addr, proposers, dprp, parentBlockTime) ==
  [ proposer        |-> addr,
    proposers       |-> proposers,
    actives         |-> { i \in DOMAIN proposers :
                            proposers[i].Address = addr \/ proposers[i].Active },
    dprp            |-> dprp,
    parentBlockTime |-> parentBlockTime ]

\* The member of S that has exactly k smaller members: S listed upwards, at k.
Nth(S, k) == CHOOSE i \in S : Cardinality({ j \in S : j < i }) = k

whoseTurn(s, t) ==
  s.proposers[Nth(s.actives, s.dprp[t] % Cardinality(s.actives))].Address

\* Mutant: the clock is not looked at.
FirstSlot_IgnoresClock(s, nowTime) == s.parentBlockTime + BlockInterval

\* The slot Schedule tries first: the earliest one that is not before nowTime.
FirstSlot(s, nowTime) ==
  LET first == s.parentBlockTime + BlockInterval
  IN  IF nowTime > first
      THEN first + ((nowTime - first + BlockInterval - 1) \div BlockInterval) * BlockInterval
      ELSE first

\* The slots Schedule's loop visits from `first` on, as far as the hash is given.
SlotsFrom(s, first) ==
  { t \in DOMAIN s.dprp : t >= first /\ (t - first) % BlockInterval = 0 }

\* newBlockTime is the result of Schedule(nowTime): the loop leaves at the
\* first slot that belongs to the proposer.
Schedule(s, nowTime, newBlockTime) ==
  LET slots == SlotsFrom(s, FirstSlot(s, nowTime))
  IN  /\ newBlockTime \in slots
      /\ whoseTurn(s, newBlockTime) = s.proposer
      /\ \A t \in slots : t < newBlockTime => whoseTurn(s, t) # s.proposer

IsTheTime(s, newBlockTime) ==
  /\ newBlockTime > s.parentBlockTime
  /\ (newBlockTime - s.parentBlockTime) % BlockInterval = 0
  /\ whoseTurn(s, newBlockTime) = s.proposer

\* The slots Updates walks back over, newest first, at most MaxBlockProposers.
MissedSlots(s, newBlockTime) ==
  { t \in { newBlockTime - i * BlockInterval : i \in 1..MaxBlockProposers } :
      t > s.parentBlockTime }

toDeactivate(s, newBlockTime) ==
  { whoseTurn(s, t) : t \in MissedSlots(s, newBlockTime) } \ { s.proposer }

score(s, newBlockTime) ==
  Cardinality(s.actives) - Cardinality(toDeactivate(s, newBlockTime))

\* Mutant: an inactive proposer is not put back.
ActiveAfter_NoReactivation(s, newBlockTime, p) ==
  p.Active /\ p.Address \notin toDeactivate(s, newBlockTime)

\* The Active flag the updates of the block leave to a proposer.
ActiveAfter(s, newBlockTime, p) ==
  \/ p.Address = s.proposer
  \/ p.Active /\ p.Address \notin toDeactivate(s, newBlockTime)
=============================================================================
