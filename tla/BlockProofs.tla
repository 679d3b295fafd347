----------------------------- MODULE BlockProofs -----------------------------
(***************************************************************************)
(* Schedules and scores: the scheduler's promises, for every number of     *)
(* proposers, every slot length and every hash.                            *)
(*                                                                         *)
(* Gas limits: for every floor, divisor, word size and target, Qualify     *)
(* gives what IsValid accepts, on the way to the target and never past it. *)
(*                                                                         *)
(* Validation: for every size of the cache and every order of blocks, the  *)
(* cached candidates are those of the block they are filed under, so that  *)
(* whatever Packer.Schedule allows, validation accepts.                    *)
(***************************************************************************)
EXTENDS PoalChain, GasLimit, Consensus, FiniteSetTheorems, TLAPS

\* A finite set of integers has a k-th member in ascending order, for every
\* k below its size: whoseTurn's index into `actives` is always in range.
LEMMA NthExists ==
  ASSUME NEW S, IsFiniteSet(S), S \subseteq Int, NEW k \in Nat, k < Cardinality(S)
  PROVE  Nth(S, k) \in S
  <1> DEFINE below(i) == { j \in S : j < i }
             T == 0 .. Cardinality(S) - 1
             rank == [ i \in S |-> Cardinality(below(i)) ]
  <1>1. Cardinality(S) \in Nat
    BY FS_CardinalityType
  <1>2. \A i \in S : IsFiniteSet(below(i)) /\ Cardinality(below(i)) \in Nat
    <2> SUFFICES ASSUME NEW i \in S PROVE IsFiniteSet(below(i)) /\ Cardinality(below(i)) \in Nat
      OBVIOUS
    <2>1. below(i) \in SUBSET S
      OBVIOUS
    <2>2. IsFiniteSet(below(i))
      BY <2>1, FS_Subset
    <2>3. QED
      BY <2>2, FS_CardinalityType
  <1>3. \A i \in S : Cardinality(below(i)) <= Cardinality(S) - 1
    <2> SUFFICES ASSUME NEW i \in S PROVE Cardinality(below(i)) <= Cardinality(S) - 1
      OBVIOUS
    <2>1. below(i) \in SUBSET (S \ {i})
      OBVIOUS
    <2>2. IsFiniteSet(S \ {i}) /\ Cardinality(S \ {i}) = Cardinality(S) - 1
      BY FS_RemoveElement
    <2>3. QED
      BY <2>1, <2>2, FS_Subset
  <1>4. \A i, j \in S : i < j => Cardinality(below(i)) < Cardinality(below(j))
    <2> SUFFICES ASSUME NEW i \in S, NEW j \in S, i < j
                 PROVE  Cardinality(below(i)) < Cardinality(below(j))
      OBVIOUS
    <2>1. below(i) \in SUBSET below(j) /\ i \in below(j) /\ i \notin below(i)
      <3>1. i \in Int /\ j \in Int /\ \A n \in S : n \in Int
        OBVIOUS
      <3>2. \A n \in S : n < i => n < j
        BY <3>1
      <3>3. ~(i < i)
        BY <3>1
      <3>4. QED
        BY <3>2, <3>3, Zenon
    <2>2. Cardinality(below(i)) <= Cardinality(below(j))
          /\ (Cardinality(below(j)) = Cardinality(below(i)) => below(j) = below(i))
      BY <2>1, <1>2, FS_Subset
    <2>3. QED
      BY <2>1, <2>2, <1>2
  <1>5. rank \in [S -> T]
    BY <1>1, <1>2, <1>3
  <1>6. \A i, j \in S : rank[i] = rank[j] => i = j
    <2> SUFFICES ASSUME NEW i \in S, NEW j \in S, rank[i] = rank[j] PROVE i = j
      OBVIOUS
    <2>1. Cardinality(below(i)) = Cardinality(below(j)) /\ Cardinality(below(i)) \in Nat
      BY <1>2
    <2>2. ~(i < j) /\ ~(j < i)
      BY <2>1, <1>4
    <2>3. QED
      BY <2>2
  <1>7. rank \in Injection(S, T)
    BY <1>5, <1>6, Zenon DEF Injection, IsInjective
  <1>8. IsFiniteSet(T) /\ Cardinality(T) = Cardinality(S)
    <2>1. 0 \in Int /\ Cardinality(S) - 1 \in Int
      BY <1>1
    <2>2. /\ IsFiniteSet(T)
          /\ Cardinality(T) = IF 0 > Cardinality(S) - 1 THEN 0 ELSE (Cardinality(S) - 1) - 0 + 1
      BY <2>1, FS_Interval, Zenon
    <2>3. QED
      BY <2>2, <1>1
  <1>9. rank \in Surjection(S, T)
    BY <1>7, <1>8, FS_Injection
  <1>10. k \in T
    BY <1>1
  <1>11. PICK i \in S : rank[i] = k
    BY <1>9, <1>10, Zenon DEF Surjection
  <1>12. \E n \in S : Cardinality({ j \in S : j < n }) = k
    BY <1>11
  <1>13. QED
    BY <1>12, Zenon DEF Nth

\* The hypotheses under which Updates runs: a scheduler that NewScheduler built
\* for a listed proposer over a list without duplicates, and a hash for every
\* time between the parent and the new block.
WellFormed(s, addr, t) ==
  /\ \E dprp \in [ Later -> 0..HashMax ] : s = NewScheduler(addr, proposers, dprp, blockTime)
  /\ Listed(addr, proposers)
  /\ t \in Later

\* whoseTurn names an active proposer, or the one being scheduled.
LEMMA TurnIsActive ==
  ASSUME TypeOK, NEW addr, NEW s, NEW u \in Later, NEW t, WellFormed(s, addr, t)
  PROVE  \E i \in s.actives : whoseTurn(s, u) = proposers[i].Address
  <1> USE ChainAssumption
  <1>1. PICK dprp \in [ Later -> 0..HashMax ] : s = NewScheduler(addr, proposers, dprp, blockTime)
    BY DEF WellFormed
  <1>2. /\ s.proposers = proposers /\ s.dprp = dprp
        /\ s.actives = { i \in DOMAIN proposers : proposers[i].Address = addr \/ proposers[i].Active }
    BY <1>1 DEF NewScheduler
  <1>3. DOMAIN proposers = 1..Len(Addrs)
    BY DEF TypeOK
  <1>4. IsFiniteSet(1..Len(Addrs))
    BY FS_Interval
  <1>5. s.actives \in SUBSET (1..Len(Addrs)) /\ s.actives \subseteq Int
    BY <1>2, <1>3
  <1>6. IsFiniteSet(s.actives)
    BY <1>4, <1>5, FS_Subset
  <1>7. s.actives # {}
    BY <1>2 DEF WellFormed, Listed
  <1>8. Cardinality(s.actives) \in Nat /\ Cardinality(s.actives) # 0
    BY <1>6, <1>7, FS_CardinalityType, FS_EmptySet
  <1>9. s.dprp[u] \in Nat
    BY <1>1, <1>2
  <1> DEFINE k == s.dprp[u] % Cardinality(s.actives)
  <1>10. k \in Nat /\ k < Cardinality(s.actives)
    BY <1>8, <1>9, SMTT(60)
  <1> HIDE DEF k
  <1>12. Nth(s.actives, k) \in s.actives
    BY <1>5, <1>6, <1>10, NthExists, Zenon
  <1>13. QED
    BY <1>2, <1>12, Zenon DEF whoseTurn, k

\* The score of a block counts the positions whose Active flag its updates leave
\* set, and the proposer's own position is one of them.
LEMMA ScoreOfUpdates ==
  ASSUME TypeOK, NEW addr, NEW s, NEW t, WellFormed(s, addr, t)
  PROVE  LET left == { i \in DOMAIN proposers : ActiveAfter(s, t, proposers[i]) }
         IN  /\ score(s, t) = Cardinality(left)
             /\ score(s, t) \in Nat \ {0}
  <1> USE ChainAssumption
  <1> DEFINE left == { i \in DOMAIN proposers : ActiveAfter(s, t, proposers[i]) }
             gone == { i \in s.actives : proposers[i].Address \in toDeactivate(s, t) }
             name == [ i \in gone |-> proposers[i].Address ]
  <1>1. /\ s.proposers = proposers /\ s.proposer = addr /\ s.parentBlockTime = blockTime
        /\ s.actives = { i \in DOMAIN proposers : proposers[i].Address = addr \/ proposers[i].Active }
    BY DEF WellFormed, NewScheduler
  <1>2. /\ DOMAIN proposers = 1..Len(Addrs)
        /\ \A i \in 1..Len(Addrs) : proposers[i].Address = Addrs[i] /\ proposers[i].Active \in BOOLEAN
    BY DEF TypeOK
  <1>3. IsFiniteSet(s.actives)
    <2>1. IsFiniteSet(1..Len(Addrs))
      BY FS_Interval
    <2>2. s.actives \in SUBSET (1..Len(Addrs))
      BY <1>1, <1>2
    <2>3. QED
      BY <2>1, <2>2, FS_Subset
  <1>4. MissedSlots(s, t) \subseteq Later
    <2> SUFFICES ASSUME NEW u \in MissedSlots(s, t) PROVE u \in Later
      OBVIOUS
    <2>1. PICK i \in 1..MaxBlockProposers : u = t - i * BlockInterval
      BY DEF MissedSlots
    <2>2. i * BlockInterval \in Nat
      BY PoalAssumption
    <2>3. t \in Int /\ t <= Horizon /\ blockTime \in Nat
      BY DEF WellFormed, Later, TypeOK
    <2>4. u > blockTime
      BY <1>1 DEF MissedSlots
    <2>5. QED
      BY <2>1, <2>2, <2>3, <2>4 DEF Later
  <1>5. \A a \in toDeactivate(s, t) : a # addr /\ \E i \in s.actives : proposers[i].Address = a
    <2> SUFFICES ASSUME NEW a \in toDeactivate(s, t)
                 PROVE  a # addr /\ \E i \in s.actives : proposers[i].Address = a
      OBVIOUS
    <2>1. PICK u \in MissedSlots(s, t) : a = whoseTurn(s, u)
      BY DEF toDeactivate
    <2>2. QED
      BY <2>1, <1>1, <1>4, TurnIsActive DEF toDeactivate
  <1>6. Cardinality(toDeactivate(s, t)) = Cardinality(gone)
    <2>1. gone \in SUBSET s.actives
      OBVIOUS
    <2>2. IsFiniteSet(gone)
      BY <2>1, <1>3, FS_Subset
    <2>3. name \in Surjection(gone, toDeactivate(s, t))
      BY <1>5 DEF Surjection
    <2>4. name \in Injection(gone, toDeactivate(s, t))
      BY <1>1, <1>2 DEF Injection, IsInjective
    <2> HIDE DEF name, gone
    <2>5. QED
      BY <2>2, <2>3, <2>4, FS_Surjection
  <1>7. left = s.actives \ gone
    BY <1>1, <1>2, <1>5 DEF ActiveAfter
  <1>8. IsFiniteSet(left) /\ Cardinality(left) = Cardinality(s.actives) - Cardinality(gone)
    <2>1. s.actives \cap gone = gone
      OBVIOUS
    <2> HIDE DEF gone, left
    <2>2. /\ IsFiniteSet(s.actives \ gone)
          /\ Cardinality(s.actives \ gone) = Cardinality(s.actives) - Cardinality(s.actives \cap gone)
      BY <1>3, FS_Difference, Zenon
    <2>3. QED
      BY <2>1, <2>2, <1>7, Zenon
  <1>9. left # {}
    <2>1. PICK i \in DOMAIN proposers : proposers[i].Address = addr
      BY DEF WellFormed, Listed
    <2>2. i \in left
      BY <2>1, <1>1 DEF ActiveAfter
    <2>3. QED
      BY <2>2
  <1> HIDE DEF left, gone
  <1>10. Cardinality(left) \in Nat \ {0}
    BY <1>8, <1>9, FS_CardinalityType, FS_EmptySet
  <1>11. score(s, t) = Cardinality(left)
    BY <1>6, <1>8 DEF score
  <1>12. QED
    BY <1>10, <1>11 DEF left

-----------------------------------------------------------------------------
(* Slot arithmetic. *)

\* Rounding a positive distance up to a multiple of b.
LEMMA RoundUp ==
  ASSUME NEW a \in Nat, NEW b \in Nat \ {0}
  PROVE  LET q == (a + b - 1) \div b IN q \in Nat /\ q * b >= a
  <1> DEFINE c == a + b - 1
             q == c \div b
             r == c % b
  <1>1. c \in Nat
    OBVIOUS
  <1> HIDE DEF c
  <1>2. q \in Nat /\ r \in 0..b-1 /\ c = b * q + r
    BY <1>1
  <1> HIDE DEF q, r
  <1>3. b * q = q * b /\ q * b \in Int
    BY <1>2
  <1>4. q * b >= a
    BY <1>2, <1>3 DEF c
  <1>5. QED
    BY <1>2, <1>4 DEF q, c

\* Multiples of b are closed under addition.
LEMMA MultiplesAdd ==
  ASSUME NEW b \in Nat \ {0}, NEW x \in Int, NEW k \in Int, x % b = 0
  PROVE  (x + k * b) % b = 0
  <1> DEFINE q == x \div b
             y == x + k * b
             d == y \div b
             r == y % b
  <1>1. q \in Int /\ x = b * q + 0
    OBVIOUS
  <1>2. y = b * (q + k) /\ y \in Int
    BY <1>1
  <1> HIDE DEF y
  <1>3. d \in Int /\ r \in 0..b-1 /\ y = b * d + r
    BY <1>2
  <1> HIDE DEF q, d, r
  <1>4. q + k - d \in Int /\ b * (q + k - d) = r
    BY <1>1, <1>2, <1>3
  <1>5. \A z \in Int : z >= 1 => b * z >= b
    OBVIOUS
  <1>6. \A z \in Int : z <= -1 => b * z < 0
    OBVIOUS
  <1>7. q + k - d = 0
    BY <1>3, <1>4, <1>5, <1>6
  <1>8. QED
    BY <1>4, <1>7 DEF r, y

\* Schedule starts at a slot that is aligned with the parent and not before the
\* clock.
LEMMA FirstSlotAligned ==
  ASSUME NEW s, NEW instant \in Nat, s.parentBlockTime \in Nat
  PROVE  /\ FirstSlot(s, instant) >= instant
         /\ \E k \in Nat \ {0} : FirstSlot(s, instant) = s.parentBlockTime + k * BlockInterval
  <1> USE PoalAssumption
  <1> DEFINE first == s.parentBlockTime + BlockInterval
             q == ((instant - first) + BlockInterval - 1) \div BlockInterval
  <1>1. CASE instant > first
    <2>1. instant - first \in Nat
      BY <1>1
    <2>2. q \in Nat /\ q * BlockInterval >= instant - first
      BY <2>1, RoundUp, ZenonT(60)
    <2>3. FirstSlot(s, instant) = first + q * BlockInterval
      BY <1>1 DEF FirstSlot
    <2> HIDE DEF q
    <2>4. FirstSlot(s, instant) = s.parentBlockTime + (q + 1) * BlockInterval
      BY <2>2, <2>3
    <2>5. q * BlockInterval \in Int
      BY <2>2
    <2>6. FirstSlot(s, instant) >= instant
      BY <2>1, <2>2, <2>3, <2>5
    <2>7. q + 1 \in Nat \ {0}
      BY <2>2
    <2>8. QED
      BY Zenon, <2>4, <2>6, <2>7
  <1>2. CASE ~(instant > first)
    <2>1. FirstSlot(s, instant) = s.parentBlockTime + 1 * BlockInterval
      BY <1>2 DEF FirstSlot
    <2>2. FirstSlot(s, instant) >= instant
      BY <1>2, <2>1
    <2>3. QED
      BY <2>1, <2>2
  <1>3. QED
    BY <1>1, <1>2

\* What one block does to the state, from which every theorem follows.
LEMMA ProduceStep ==
  ASSUME TypeOK, NEW i \in DOMAIN Addrs, NEW instant \in 0..Horizon,
         NEW dprp \in [Later -> 0..HashMax], NEW t \in Later,
         Produce(Addrs[i], instant, dprp, t)
  PROVE  LET s == NewScheduler(Addrs[i], proposers, dprp, blockTime)
         IN  /\ WellFormed(s, Addrs[i], t)
             /\ t >= instant
             /\ (t - blockTime) % BlockInterval = 0
             /\ score(s, t) \in Nat \ {0}
             /\ Linked => score(s, t) = Cardinality(ActiveIdx')
  <1> USE ChainAssumption, PoalAssumption
  <1> DEFINE s == NewScheduler(Addrs[i], proposers, dprp, blockTime)
             first == FirstSlot(s, instant)
  <1>1. WellFormed(s, Addrs[i], t)
    BY DEF Produce, WellFormed
  <1>2. s.parentBlockTime = blockTime /\ blockTime \in Nat /\ s.dprp = dprp /\ t \in Nat
    BY DEF NewScheduler, TypeOK, Later
  <1>3. t >= first /\ (t - first) % BlockInterval = 0
    BY DEF Produce, Schedule, SlotsFrom
  <1> HIDE DEF s
  <1>4. PICK k \in Nat \ {0} : first = blockTime + k * BlockInterval
    <2>1. instant \in Nat /\ s.parentBlockTime \in Nat
      BY <1>2
    <2>2. \E n \in Nat \ {0} : first = s.parentBlockTime + n * BlockInterval
      BY <2>1, FirstSlotAligned, Zenon
    <2>3. QED
      BY <1>2, <2>2, Zenon
  <1>5. first >= instant
    <2>1. instant \in Nat /\ s.parentBlockTime \in Nat
      BY <1>2
    <2>2. QED
      BY <2>1, FirstSlotAligned, Zenon
  <1> HIDE DEF first
  <1>6. k * BlockInterval \in Int /\ first \in Int /\ t - first \in Int
    BY <1>2, <1>4
  <1>7. t >= instant
    BY <1>2, <1>3, <1>5, <1>6
  <1>8. (t - blockTime) % BlockInterval = 0
    <2>1. t - blockTime = (t - first) + k * BlockInterval
      BY <1>2, <1>4, <1>6
    <2>2. k \in Int
      BY <1>4
    <2>3. ((t - first) + k * BlockInterval) % BlockInterval = 0
      BY <1>3, <1>6, <2>2, MultiplesAdd, Zenon
    <2>4. QED
      BY <2>1, <2>3
  <1>9. score(s, t) \in Nat \ {0}
    BY <1>1, ScoreOfUpdates, Zenon
  <1>10. ASSUME Linked PROVE score(s, t) = Cardinality(ActiveIdx')
    <2>1. proposers' = [ j \in DOMAIN proposers |->
                           [proposers[j] EXCEPT !.Active = ActiveAfter(s, t, proposers[j])] ]
      BY <1>10 DEF Produce, Update, s
    <2>2. \A j \in DOMAIN proposers : proposers'[j].Active = ActiveAfter(s, t, proposers[j])
      BY <2>1, SMTT(60) DEF TypeOK
    <2>3. ActiveIdx' = { j \in DOMAIN proposers : ActiveAfter(s, t, proposers[j]) }
      BY <2>1, <2>2 DEF ActiveIdx
    <2>4. QED
      BY <2>3, <1>1, ScoreOfUpdates
  <1>11. QED
    BY <1>1, <1>7, <1>8, <1>9, <1>10 DEF s

-----------------------------------------------------------------------------
\* The type invariant of the chain.
THEOREM ChainTypes == Spec => []TypeOK
  <1> USE ChainAssumption, PoalAssumption
  <1>1. Init => TypeOK
    BY DEF Init, TypeOK
  <1>2. TypeOK /\ [Next]_vars => TypeOK'
    <2> SUFFICES ASSUME TypeOK, [Next]_vars PROVE TypeOK'
      OBVIOUS
    <2>1. CASE UNCHANGED vars
      BY <2>1 DEF vars, TypeOK
    <2>2. ASSUME NEW i \in DOMAIN Addrs, NEW instant \in 0..Horizon,
                 NEW dprp \in [Later -> 0..HashMax], NEW t \in Later,
                 Produce(Addrs[i], instant, dprp, t)
          PROVE  TypeOK'
      <3> DEFINE s == NewScheduler(Addrs[i], proposers, dprp, blockTime)
      <3>1. score(s, t) \in Nat
        BY <2>2, ProduceStep
      <3>2. totalScore' \in Nat /\ blockTime' \in 0..Horizon /\ nowTime' \in 0..Horizon
        BY <2>2, <3>1 DEF Produce, TypeOK, Later
      <3>3. proposers' = Update(s, t)
        BY <2>2 DEF Produce
      <3>4. \A p : ActiveAfter(s, t, p) \in BOOLEAN
        BY DEF ActiveAfter
      <3> HIDE DEF s
      <3>5. /\ proposers' \in [DOMAIN Addrs -> [Address : {Addrs[j] : j \in DOMAIN Addrs}, Active : BOOLEAN]]
            /\ \A j \in DOMAIN Addrs : proposers'[j].Address = Addrs[j]
        BY <3>3, <3>4, SMTT(60) DEF Update, TypeOK
      <3>6. QED
        BY <3>2, <3>5, SMTT(60) DEF TypeOK
    <2>3. QED
      BY <2>1, <2>2 DEF Next
  <1>3. QED
    BY <1>1, <1>2, PTL DEF Spec

\* Schedule keeps what its comment promises, and the slot is aligned.
THEOREM SchedulePromised == Spec => SchedulePromise
  <1>1. TypeOK /\ [Next]_vars
          => [ /\ blockTime' >= nowTime'
               /\ blockTime' > blockTime
               /\ (blockTime' - blockTime) % BlockInterval = 0 ]_vars
    BY ProduceStep, ZenonT(60) DEF Next, Produce, Later, vars
  <1>2. QED
    BY <1>1, ChainTypes, PTL DEF Spec, SchedulePromise

\* Every block adds at least one point, so no block is as good as its parent.
THEOREM TotalScoreGrew == Spec => TotalScoreGrows
  <1>1. TypeOK /\ [Next]_vars => [totalScore' > totalScore]_vars
    BY ProduceStep DEF Next, Produce, TypeOK, vars
  <1>2. QED
    BY <1>1, ChainTypes, PTL DEF Spec, TotalScoreGrows

\* The score of a block is the number of proposers it leaves active.
THEOREM ScoreCounted == Spec => ScoreCountsActives
  <1>1. TypeOK /\ [Next]_vars
          => [Linked => totalScore' - totalScore = Cardinality(ActiveIdx')]_vars
    BY ProduceStep DEF Next, Produce, TypeOK, vars
  <1>2. QED
    BY <1>1, ChainTypes, PTL DEF Spec, ScoreCountsActives

\* A block in the slot right after its parent deactivates nobody.
THEOREM NobodyDeactivated == Spec => NoMissNoDeactivation
  <1> USE ChainAssumption, PoalAssumption
  <1>1. ASSUME TypeOK, NEW i \in DOMAIN Addrs, NEW instant \in 0..Horizon,
               NEW dprp \in [Later -> 0..HashMax], NEW t \in Later,
               Produce(Addrs[i], instant, dprp, t), blockTime' = blockTime + BlockInterval
        PROVE  ActiveIdx \subseteq ActiveIdx'
    <2> DEFINE s == NewScheduler(Addrs[i], proposers, dprp, blockTime)
    <2>1. t = blockTime + BlockInterval /\ blockTime \in Nat /\ s.parentBlockTime = blockTime
      BY <1>1 DEF Produce, TypeOK, NewScheduler
    <2>2. \A k \in 1..MaxBlockProposers : k * BlockInterval >= BlockInterval /\ k * BlockInterval \in Int
      OBVIOUS
    <2> HIDE DEF s
    <2>3. MissedSlots(s, t) = {}
      <3> SUFFICES ASSUME NEW k \in 1..MaxBlockProposers, t - k * BlockInterval > blockTime PROVE FALSE
        BY <2>1 DEF MissedSlots
      <3>1. QED
        BY <2>1, <2>2
    <2>4. toDeactivate(s, t) = {}
      BY <2>3 DEF toDeactivate
    <2>5. \A j \in DOMAIN proposers : proposers[j].Active => ActiveAfter(s, t, proposers[j])
      BY <2>4 DEF ActiveAfter
    <2>6. proposers' = Update(s, t)
      BY <1>1 DEF Produce, s
    <2>7. QED
      BY <1>1, <2>5, <2>6, SMTT(60) DEF Update, ActiveIdx, TypeOK
  <1>2. TypeOK /\ [Next]_vars
          => [blockTime' = blockTime + BlockInterval => ActiveIdx \subseteq ActiveIdx']_vars
    BY <1>1 DEF Next
  <1>3. QED
    BY <1>2, ChainTypes, PTL DEF Spec, NoMissNoDeactivation

-----------------------------------------------------------------------------
(* The gas limit. *)

\* The constants are numbers.
LEMMA Constants ==
  /\ MinGasLimit \in Nat /\ GasLimitBoundDivisor \in Nat /\ MaxUint64 \in Nat /\ MaxForeign \in Nat
  /\ InitialGasLimit \in Nat
  /\ 1 <= GasLimitBoundDivisor
  /\ MinGasLimit <= InitialGasLimit /\ InitialGasLimit <= MaxUint64
  /\ Targets \subseteq 0..MaxUint64 /\ Speeds \subseteq 0..MaxUint64
  BY GasLimitAssumption

\* The largest step from a limit is not larger than the limit.
LEMMA MaxDiffBounded ==
  ASSUME NEW gl \in Nat
  PROVE  maxDiff(gl) \in Nat /\ maxDiff(gl) <= gl
  <1>1. PICK d \in Nat : d = GasLimitBoundDivisor /\ 1 <= d
    BY Constants
  <1>2. gl \div d \in Nat /\ gl \div d <= gl
    BY <1>1, SMTT(30)
  <1> QED
    BY <1>1, <1>2 DEF maxDiff

\* Increase does not overflow, and goes up by at most what was asked for and what is
\* allowed.
LEMMA IncreaseBounded ==
  ASSUME NEW gl \in MinGasLimit..MaxUint64, NEW delta \in Nat
  PROVE  /\ Increase(gl, delta) \in gl..MaxUint64
         /\ Increase(gl, delta) - gl <= maxDiff(gl)
         /\ Increase(gl, delta) - gl <= delta
  <1> DEFINE m == maxDiff(gl)
  <1>1. gl \in Nat /\ gl <= MaxUint64 /\ MaxUint64 \in Nat
    BY Constants
  <1>2. m \in Nat /\ m <= gl
    BY <1>1, MaxDiffBounded
  <1>3. Increase(gl, delta) = IF MaxUint64 - min64(delta, m) < gl THEN MaxUint64 ELSE gl + min64(delta, m)
    BY DEF Increase
  <1> HIDE DEF m
  <1>4. min64(delta, m) \in Nat /\ min64(delta, m) <= delta /\ min64(delta, m) <= m
    BY <1>2 DEF min64
  <1>5. Increase(gl, delta) \in gl..MaxUint64 /\ Increase(gl, delta) - gl <= m /\ Increase(gl, delta) - gl <= delta
    BY <1>1, <1>2, <1>3, <1>4
  <1> QED
    BY <1>5 DEF m

\* Reduce stays above the floor, and goes down by at most what was asked for and what
\* is allowed.
LEMMA ReduceBounded ==
  ASSUME NEW gl \in MinGasLimit..MaxUint64, NEW delta \in Nat
  PROVE  /\ Reduce(gl, delta) \in MinGasLimit..gl
         /\ gl - Reduce(gl, delta) <= maxDiff(gl)
         /\ gl - Reduce(gl, delta) <= delta
  <1> DEFINE m == maxDiff(gl)
  <1>1. gl \in Nat /\ MinGasLimit <= gl /\ MinGasLimit \in Nat
    BY Constants
  <1>2. m \in Nat /\ m <= gl
    BY <1>1, MaxDiffBounded
  <1>3. Reduce(gl, delta) = IF MinGasLimit + min64(delta, m) > gl THEN MinGasLimit ELSE gl - min64(delta, m)
    BY DEF Reduce
  <1> HIDE DEF m
  <1>4. min64(delta, m) \in Nat /\ min64(delta, m) <= delta /\ min64(delta, m) <= m
    BY <1>2 DEF min64
  <1>5. Reduce(gl, delta) \in MinGasLimit..gl /\ gl - Reduce(gl, delta) <= m /\ gl - Reduce(gl, delta) <= delta
    BY <1>1, <1>2, <1>3, <1>4
  <1> QED
    BY <1>5 DEF m

\* Qualify takes a limit towards any target, within the step that is allowed.
LEMMA QualifyBounded ==
  ASSUME NEW gl \in Nat, NEW parent \in MinGasLimit..MaxUint64
  PROVE  /\ Qualify(gl, parent) \in MinGasLimit..MaxUint64
         /\ IsValid(Qualify(gl, parent), parent)
         /\ gl > parent => parent <= Qualify(gl, parent) /\ Qualify(gl, parent) <= gl
         /\ gl <= parent => /\ Qualify(gl, parent) <= parent
                            /\ Qualify(gl, parent) >= IF gl < MinGasLimit THEN MinGasLimit ELSE gl
  <1> DEFINE q == Qualify(gl, parent)
             m == maxDiff(parent)
  <1>1. parent \in Nat /\ MinGasLimit \in Nat /\ MaxUint64 \in Nat /\ MinGasLimit <= parent /\ parent <= MaxUint64
    BY Constants
  <1>2. m \in Nat
    BY <1>1, MaxDiffBounded
  <1>3. CASE gl > parent
    <2> DEFINE d == min64(gl - parent, m)
    <2>1. gl - parent \in Nat
      BY <1>1, <1>3
    <2>2. d \in Nat /\ d <= gl - parent
      BY <1>2, <2>1 DEF min64
    <2>3. q = Increase(parent, d)
      BY <1>3 DEF Qualify
    <2> HIDE DEF d
    <2>4. q \in parent..MaxUint64 /\ q - parent <= m /\ q - parent <= d
      BY <2>2, <2>3, IncreaseBounded
    <2> HIDE DEF q, m
    <2>5. q \in MinGasLimit..MaxUint64 /\ parent <= q /\ q <= gl
      BY <1>1, <2>1, <2>2, <2>4
    <2>6. q >= MinGasLimit /\ (IF q > parent THEN q - parent ELSE parent - q) <= m
      BY <1>1, <1>2, <2>4
    <2>7. IsValid(q, parent)
      BY <2>6 DEF IsValid, m
    <2> QED
      BY <1>1, <1>3, <2>5, <2>7 DEF q
  <1>4. CASE ~(gl > parent)
    <2> DEFINE d == min64(parent - gl, m)
    <2>1. parent - gl \in Nat
      BY <1>1, <1>4
    <2>2. d \in Nat /\ d <= parent - gl
      BY <1>2, <2>1 DEF min64
    <2>3. q = Reduce(parent, d)
      BY <1>4 DEF Qualify
    <2> HIDE DEF d
    <2>4. q \in MinGasLimit..parent /\ parent - q <= m /\ parent - q <= d
      BY <2>2, <2>3, ReduceBounded
    <2> HIDE DEF q, m
    <2>5. q \in MinGasLimit..MaxUint64 /\ q <= parent /\ q >= MinGasLimit /\ q >= gl
      BY <1>1, <2>1, <2>2, <2>4
    <2>6. q >= MinGasLimit /\ (IF q > parent THEN q - parent ELSE parent - q) <= m
      BY <1>1, <1>2, <2>4
    <2>7. IsValid(q, parent)
      BY <2>6 DEF IsValid, m
    <2> QED
      BY <1>1, <1>4, <2>5, <2>7 DEF q
  <1> QED
    BY <1>3, <1>4

\* Half of what was measured is a number.
LEMMA TargetIsNat ==
  ASSUME GasLimitTypeOK
  PROVE  Target \in Nat
  <1>1. bandwidth \in Nat /\ targetGasLimit \in Nat
    BY Constants DEF GasLimitTypeOK
  <1>2. bandwidth \div 2 \in Nat
    BY <1>1
  <1> QED
    BY <1>1, <1>2 DEF Target, SuggestGasLimit

\* What a packer packs is in range and valid.
LEMMA PackedInRange ==
  ASSUME GasLimitTypeOK
  PROVE  PackedGasLimit \in MinGasLimit..MaxUint64 /\ IsValid(PackedGasLimit, gasLimit)
  <1>1. gasLimit \in MinGasLimit..MaxUint64 /\ gasLimit \in Nat /\ MinGasLimit \in Nat /\ gasLimit >= MinGasLimit
    BY Constants DEF GasLimitTypeOK
  <1>2. CASE Target = 0
    <2>1. PackedGasLimit = gasLimit
      BY <1>2 DEF PackedGasLimit
    <2>2. maxDiff(gasLimit) \in Nat
      BY <1>1, MaxDiffBounded
    <2>3. IsValid(gasLimit, gasLimit)
      BY <1>1, <2>2 DEF IsValid
    <2> QED
      BY <1>1, <2>1, <2>3
  <1>3. CASE Target # 0
    <2>1. PackedGasLimit = Qualify(Target, gasLimit)
      BY <1>3 DEF PackedGasLimit
    <2> QED
      BY <1>1, <2>1, TargetIsNat, QualifyBounded
  <1> QED
    BY <1>2, <1>3

\* The low pass stays between what it was and what was measured.
LEMMA LowPassBounded ==
  ASSUME NEW b \in Nat, NEW v \in Nat, NEW x \in Nat, b <= x, v <= x
  PROVE  (b * 15 + v) \div 16 \in 0..x
  OBVIOUS

\* The gas limit of every chain of valid blocks stays between the floor and the
\* largest number, for all the packer and others do.
THEOREM LimitStaysInRange == GasLimitSpec => []GasLimitTypeOK
  <1>1. GasLimitInit => GasLimitTypeOK
    BY Constants DEF GasLimitInit, GasLimitTypeOK
  <1>2. GasLimitTypeOK /\ [GasLimitNext]_gasLimitVars => GasLimitTypeOK'
    <2> SUFFICES ASSUME GasLimitTypeOK, [GasLimitNext]_gasLimitVars PROVE GasLimitTypeOK'
      OBVIOUS
    <2>1. CASE PackLimit
      BY <2>1, PackedInRange DEF PackLimit, GasLimitTypeOK
    <2>2. ASSUME NEW gl \in 0..MaxUint64, Accept(gl) PROVE GasLimitTypeOK'
      BY <2>2, Constants DEF Accept, IsValid, GasLimitTypeOK
    <2>3. ASSUME NEW v \in Speeds, UpdateBandwidth(v) PROVE GasLimitTypeOK'
      <3>1. bandwidth \in Nat /\ bandwidth <= MaxUint64 /\ v \in Nat /\ v <= MaxUint64 /\ MaxUint64 \in Nat
        BY Constants DEF GasLimitTypeOK
      <3>2. (bandwidth * 15 + v) \div 16 \in 0..MaxUint64
        BY <3>1, LowPassBounded
      <3>3. bandwidth' \in 0..MaxUint64
        BY <2>3, <3>1, <3>2 DEF UpdateBandwidth
      <3> QED
        BY <2>3, <3>3 DEF UpdateBandwidth, GasLimitTypeOK
    <2>4. CASE UNCHANGED gasLimitVars
      BY <2>4 DEF gasLimitVars, GasLimitTypeOK
    <2> QED
      BY <2>1, <2>2, <2>3, <2>4 DEF GasLimitNext
  <1> QED
    BY <1>1, <1>2, PTL DEF GasLimitSpec

\* Every block this packer makes has a gas limit that validation accepts.
THEOREM PackedStaysValid == GasLimitSpec => []PackedLimitIsValid
  <1>1. GasLimitTypeOK => PackedLimitIsValid
    BY PackedInRange DEF PackedLimitIsValid
  <1> QED
    BY <1>1, LimitStaysInRange, PTL

\* A block of this packer goes to its target and not past it.
THEOREM TargetApproached == GasLimitSpec => Approaches
  <1>1. GasLimitTypeOK /\ [GasLimitNext]_gasLimitVars =>
          [ PackLimit /\ targetGasLimit # 0 =>
              \/ gasLimit <= gasLimit' /\ gasLimit' <= Goal
              \/ gasLimit >= gasLimit' /\ gasLimit' >= Goal ]_gasLimitVars
    <2> SUFFICES ASSUME GasLimitTypeOK, PackLimit, targetGasLimit # 0
                 PROVE  \/ gasLimit <= gasLimit' /\ gasLimit' <= Goal
                        \/ gasLimit >= gasLimit' /\ gasLimit' >= Goal
      BY DEF gasLimitVars
    <2>1. targetGasLimit \in Nat /\ gasLimit \in MinGasLimit..MaxUint64 /\ gasLimit \in Nat
          /\ MinGasLimit \in Nat /\ MinGasLimit <= gasLimit /\ MaxUint64 \in Nat
      BY Constants DEF GasLimitTypeOK
    <2>2. gasLimit' = Qualify(targetGasLimit, gasLimit)
      BY DEF PackLimit, PackedGasLimit, Target
    <2>3. gasLimit' \in MinGasLimit..MaxUint64
      BY <2>1, <2>2, QualifyBounded
    <2>4. CASE targetGasLimit > gasLimit
      <3>1. gasLimit <= gasLimit' /\ gasLimit' <= targetGasLimit
        BY <2>1, <2>2, <2>4, QualifyBounded
      <3>2. Goal = targetGasLimit
        BY <2>1, <2>4 DEF Goal
      <3> QED
        BY <3>1, <3>2
    <2>5. CASE targetGasLimit <= gasLimit
      <3>1. gasLimit' <= gasLimit /\ gasLimit' >= Goal
        BY <2>1, <2>2, <2>5, QualifyBounded DEF Goal
      <3>2. Goal \in Nat
        BY <2>1 DEF Goal
      <3> QED
        BY <2>1, <2>3, <3>1, <3>2
    <2> QED
      BY <2>1, <2>4, <2>5
  <1> QED
    BY <1>1, LimitStaysInRange, PTL DEF GasLimitSpec, Approaches

-----------------------------------------------------------------------------
(* Validation: the scheduler. *)

\* whoseTurn names an active proposer.
LEMMA TurnOfActive ==
  ASSUME NEW s, IsFiniteSet(s.actives), s.actives \subseteq Int, s.actives # {}, NEW u, s.dprp[u] \in Nat
  PROVE  \E i \in s.actives : whoseTurn(s, u) = s.proposers[i].Address
  <1>1. Cardinality(s.actives) \in Nat /\ Cardinality(s.actives) # 0
    BY FS_CardinalityType, FS_EmptySet
  <1> DEFINE k == s.dprp[u] % Cardinality(s.actives)
  <1>2. k \in Nat /\ k < Cardinality(s.actives)
    BY <1>1, SMTT(60)
  <1> HIDE DEF k
  <1>3. Nth(s.actives, k) \in s.actives
    BY <1>2, NthExists, Zenon
  <1>4. QED
    BY <1>3, Zenon DEF whoseTurn, k

\* A block of a listed proposer has a score, however many it deactivates.
LEMMA ScorePositive ==
  ASSUME NEW s, IsFiniteSet(s.actives), s.actives \subseteq Int, NEW t,
         \A u \in MissedSlots(s, t) : s.dprp[u] \in Nat,
         NEW o \in s.actives, s.proposers[o].Address = s.proposer
  PROVE  score(s, t) \in Nat \ {0}
  <1> DEFINE rest == s.actives \ {o}
             names == { s.proposers[i].Address : i \in rest }
             D == toDeactivate(s, t)
  <1>1. IsFiniteSet(rest) /\ Cardinality(rest) = Cardinality(s.actives) - 1
    BY Zenon, FS_RemoveElement
  <1>2. Cardinality(s.actives) \in Nat /\ Cardinality(rest) \in Nat
    BY <1>1, FS_CardinalityType
  <1>3. IsFiniteSet(names) /\ Cardinality(names) <= Cardinality(rest)
    <2> DEFINE f == [i \in rest |-> s.proposers[i].Address]
    <2>1. f \in Surjection(rest, names)
      BY DEF Surjection
    <2> HIDE DEF f, rest, names
    <2>2. QED
      BY <1>1, <2>1, FS_Surjection
  <1>4. D \subseteq names
    <2> SUFFICES ASSUME NEW a \in D PROVE a \in names
      OBVIOUS
    <2>1. PICK u \in MissedSlots(s, t) : a = whoseTurn(s, u) /\ a # s.proposer
      BY DEF toDeactivate
    <2>2. PICK i \in s.actives : whoseTurn(s, u) = s.proposers[i].Address
      <3>1. s.dprp[u] \in Nat /\ s.actives # {}
        BY <2>1
      <3>2. QED
        BY <3>1, TurnOfActive
    <2>3. i # o
      BY <2>1, <2>2
    <2>4. QED
      BY <2>1, <2>2, <2>3
  <1> HIDE DEF D, names, rest
  <1>5. Cardinality(D) <= Cardinality(names) /\ Cardinality(D) \in Nat /\ Cardinality(names) \in Nat
    BY <1>3, <1>4, FS_Subset, FS_CardinalityType
  <1>6. Cardinality(s.actives) - Cardinality(D) \in Nat \ {0}
    BY <1>1, <1>2, <1>3, <1>5
  <1>7. QED
    BY <1>6, Zenon DEF score, D

-----------------------------------------------------------------------------
(* Validation: lists and the cache. *)

\* An object of the cache, and an entry.
Object == [list : Ptrs, satisfied : SUBSET Nat, referenced : BOOLEAN]
EntrySet == [id : Nat, c : Object]

\* There is one list more than cached entries, for the object being updated.
LEMMA PtrsAre == Ptrs = 1..CacheSize + 1 /\ CacheSize \in Nat \ {0}
  BY ConsensusAssumption DEF Ptrs

\* A sequence without its i-th element keeps the order of the others.
LEMMA WithoutIs ==
  ASSUME NEW R, NEW seq \in Seq(R), NEW i \in DOMAIN seq
  PROVE  /\ Without(seq, i) \in Seq(R) /\ Len(Without(seq, i)) = Len(seq) - 1
         /\ \A j \in DOMAIN Without(seq, i) :
               \E k \in DOMAIN seq : k = (IF j < i THEN j ELSE j + 1) /\ Without(seq, i)[j] = seq[k]
  <1> DEFINE n == Len(seq) - 1
             w == [ j \in 1..n |-> seq[IF j < i THEN j ELSE j + 1] ]
  <1>1. Len(seq) \in Nat /\ DOMAIN seq = 1..Len(seq) /\ i \in 1..Len(seq) /\ n \in Nat
    <2>1. Len(seq) \in Nat /\ DOMAIN seq = 1..Len(seq)
      OBVIOUS
    <2>2. QED
      BY <2>1
  <1>2. \A j \in 1..n : (IF j < i THEN j ELSE j + 1) \in 1..Len(seq)
    BY <1>1
  <1>3. \A k \in 1..Len(seq) : seq[k] \in R
    OBVIOUS
  <1>4. w \in [1..n -> R]
    BY <1>2, <1>3
  <1>5. w \in Seq(R) /\ Len(w) = n /\ DOMAIN w = 1..n
    <2> HIDE DEF w, n
    <2>1. w \in Seq(R) /\ DOMAIN w = 1..n
      BY <1>1, <1>4
    <2>2. QED
      BY <1>1, <2>1
  <1>6. \A j \in 1..n : w[j] = seq[IF j < i THEN j ELSE j + 1]
    OBVIOUS
  <1>7. w = Without(seq, i)
    BY DEF Without
  <1> HIDE DEF w
  <1>8. QED
    BY Zenon, <1>1, <1>2, <1>5, <1>6, <1>7

\* Add puts the entry in front, keeps the limit and invents nothing.
LEMMA LruAddIs ==
  ASSUME NEW entries \in Seq(EntrySet), NEW id \in Nat, NEW c \in Object
  PROVE  /\ LruAdd(entries, id, c) \in Seq(EntrySet) /\ Len(LruAdd(entries, id, c)) <= CacheSize
         /\ \A i \in DOMAIN LruAdd(entries, id, c) :
              \/ LruAdd(entries, id, c)[i] = [id |-> id, c |-> c]
              \/ \E j \in DOMAIN entries : LruAdd(entries, id, c)[i] = entries[j]
  <1> DEFINE old == { i \in DOMAIN entries : entries[i].id = id }
             rest == IF old = {} THEN entries ELSE Without(entries, CHOOSE i \in old : TRUE)
             e == [id |-> id, c |-> c]
             n == IF Len(rest) < CacheSize THEN Len(rest) + 1 ELSE CacheSize
             w == [ i \in 1..n |-> IF i = 1 THEN e ELSE rest[i - 1] ]
  <1>1. w = LruAdd(entries, id, c)
    BY Zenon DEF LruAdd
  <1>2. rest \in Seq(EntrySet) /\ \A k \in DOMAIN rest : \E j \in DOMAIN entries : rest[k] = entries[j]
    <2>1. CASE old = {}
      BY <2>1
    <2>2. CASE old # {}
      <3> DEFINE o == CHOOSE i \in old : TRUE
      <3>1. o \in old
        BY <2>2
      <3>2. o \in DOMAIN entries
        BY <3>1
      <3>3. rest = Without(entries, o)
        BY <2>2, Zenon
      <3> HIDE DEF o, rest
      <3>4. QED
        BY <3>2, <3>3, WithoutIs
    <2>3. QED
      BY Zenon, <2>1, <2>2
  <1>3. e \in EntrySet
    BY DEF EntrySet
  <1> HIDE DEF rest, e
  <1>4. Len(rest) \in Nat /\ DOMAIN rest = 1..Len(rest) /\ \A k \in 1..Len(rest) : rest[k] \in EntrySet
    BY <1>2
  <1>5. n \in Nat /\ n <= CacheSize /\ \A i \in 1..n : i = 1 \/ i - 1 \in 1..Len(rest)
    BY <1>4, PtrsAre
  <1>6. w \in [1..n -> EntrySet]
    BY <1>3, <1>4, <1>5
  <1>7. \A i \in 1..n : w[i] = e \/ \E j \in DOMAIN entries : w[i] = entries[j]
    BY <1>2, <1>4, <1>5
  <1>8. w \in Seq(EntrySet) /\ Len(w) = n /\ DOMAIN w = 1..n
    <2> HIDE DEF w, n
    <2>1. w \in Seq(EntrySet) /\ DOMAIN w = 1..n
      BY <1>5, <1>6
    <2>2. QED
      BY <1>5, <2>1
  <1> HIDE DEF w, n
  <1>9. QED
    BY <1>1, <1>5, <1>7, <1>8 DEF e

\* A list has no node master twice, and the masters it has are known.
Distinct(list) == \A i, j \in DOMAIN list : list[i].NodeMaster = list[j].NodeMaster => i = j
KnownTo(list, known) == \A i \in DOMAIN list : list[i].NodeMaster \in known

\* Two lists have the same candidates, whatever their flags.
SameMasters(l1, l2) ==
  /\ DOMAIN l1 = DOMAIN l2
  /\ \A i \in DOMAIN l1 : l1[i].NodeMaster = l2[i].NodeMaster /\ l1[i].Endorsor = l2[i].Endorsor

\* Which positions are picked depends on who is endorsed only.
LEMMA RePickSame ==
  ASSUME NEW l1 \in Seq(Candidate), NEW l2 \in Seq(Candidate), NEW r1, NEW r2, DOMAIN l1 = DOMAIN l2,
         \A i \in DOMAIN l1 : l1[i].Endorsor \in r1 <=> l2[i].Endorsor \in r2
  PROVE  RePick(l1, r1) = RePick(l2, r2)
  <1>1. DOMAIN l1 = 1..Len(l1) /\ Len(l1) \in Nat
    OBVIOUS
  <1>2. ASSUME NEW i \in DOMAIN l1
        PROVE  { j \in 1..i - 1 : l1[j].Endorsor \in r1 } = { j \in 1..i - 1 : l2[j].Endorsor \in r2 }
    <2>1. \A j \in 1..i - 1 : j \in DOMAIN l1
      BY <1>1
    <2>2. QED
      BY <2>1
  <1>3. QED
    BY <1>2, Zenon DEF RePick

\* A cached list that agrees with the contract's has the same masters and endorsors at
\* the same positions.
LEMMA AlikeSame ==
  ASSUME NEW l1 \in Seq(Candidate), NEW l2 \in Seq(Candidate), Alike(l1, l2)
  PROVE  SameMasters(l1, l2)
  <1>1. DOMAIN l1 = 1..Len(l1) /\ DOMAIN l2 = 1..Len(l2)
    OBVIOUS
  <1>2. CASE l1 = l2
    BY <1>2 DEF SameMasters
  <1>3. CASE l1 # l2
    <2>1. /\ Len(l1) = 1 /\ Len(l2) = 1
          /\ l1[1].NodeMaster = l2[1].NodeMaster /\ l1[1].Endorsor = l2[1].Endorsor
      BY <1>3, Zenon DEF Alike
    <2>2. DOMAIN l1 = {1} /\ DOMAIN l2 = {1}
      BY <1>1, <2>1
    <2>3. QED
      BY <2>1, <2>2 DEF SameMasters
  <1>4. QED
    BY <1>2, <1>3

\* Candidates.Update writes active flags only: length, masters and endorsors stay, and
\* without an update nothing changes.
LEMMA ApplyIs ==
  ASSUME NEW s, NEW t, NEW list \in Seq(Candidate)
  PROVE  /\ Apply(s, t, list) \in Seq(Candidate) /\ Len(Apply(s, t, list)) = Len(list)
         /\ SameMasters(Apply(s, t, list), list)
         /\ (\A i \in DOMAIN list : ~Updated(s, t, list[i].NodeMaster)) => Apply(s, t, list) = list
  <1> DEFINE w == Apply(s, t, list)
             flag(i) == [list[i] EXCEPT !.Active = (list[i].NodeMaster = s.proposer)]
  <1>1. Len(list) \in Nat /\ DOMAIN list = 1..Len(list) /\ list = [i \in DOMAIN list |-> list[i]]
    OBVIOUS
  <1>2. w = [ i \in DOMAIN list |-> IF Updated(s, t, list[i].NodeMaster) THEN flag(i) ELSE list[i] ]
    BY Zenon DEF Apply
  <1>3. ASSUME NEW i \in DOMAIN list
        PROVE  /\ flag(i) \in Candidate /\ list[i] \in Candidate
               /\ flag(i).NodeMaster = list[i].NodeMaster /\ flag(i).Endorsor = list[i].Endorsor
    <2>1. list[i] \in Candidate
      OBVIOUS
    <2>2. QED
      BY Zenon, <2>1 DEF Candidate
  <1> HIDE DEF flag, w
  <1>4. w \in [1..Len(list) -> Candidate]
    BY <1>1, <1>2, <1>3
  <1>5. w \in Seq(Candidate) /\ Len(w) = Len(list)
    BY <1>1, <1>4
  <1>6. SameMasters(w, list)
    BY <1>2, <1>3 DEF SameMasters
  <1>7. ASSUME \A i \in DOMAIN list : ~Updated(s, t, list[i].NodeMaster) PROVE w = list
    <2>1. w = [i \in DOMAIN list |-> list[i]]
      BY <1>2, <1>7, Zenon
    <2>2. QED
      BY <1>1, <2>1
  <1>8. QED
    BY <1>5, <1>6, <1>7 DEF w

\* Authority.Update in the state writes active flags only.
LEMMA StateUpdateIs ==
  ASSUME NEW s, NEW t, NEW list \in Seq(Candidate)
  PROVE  StateUpdate(s, t, list) \in Seq(Candidate) /\ SameMasters(StateUpdate(s, t, list), list)
  <1>1. CASE Len(list) > 1
    BY <1>1, ApplyIs DEF StateUpdate
  <1>2. CASE ~(Len(list) > 1)
    BY <1>2 DEF StateUpdate, SameMasters
  <1>3. QED
    BY <1>1, <1>2

\* The transactions of a block leave a list without duplicates, of known masters.
LEMMA ListAfterIs ==
  ASSUME NEW list \in Seq(Candidate), NEW known, Distinct(list), KnownTo(list, known), NEW body \in Bodies
  PROVE  LET l == ListAfter(list, body, known)
         IN  /\ l \in Seq(Candidate) /\ Distinct(l)
             /\ KnownTo(l, IF body.op = "add" THEN known \cup {body.m} ELSE known)
  <1> DEFINE l == ListAfter(list, body, known)
  <1>0. Len(list) \in Nat /\ DOMAIN list = 1..Len(list)
    OBVIOUS
  <1>1. CASE body.op = "add" /\ body.m \notin known
    <2> DEFINE c == [NodeMaster |-> body.m, Endorsor |-> Endorsor[body.m], Active |-> TRUE]
    <2>1. l = Append(list, c)
      BY <1>1 DEF ListAfter
    <2>2. c \in Candidate /\ c.NodeMaster = body.m
      BY <1>1, ConsensusAssumption DEF Candidate
    <2> HIDE DEF c, l
    <2>3. /\ l \in Seq(Candidate) /\ DOMAIN l = 1..Len(list) + 1
          /\ l[Len(list) + 1] = c /\ \A i \in 1..Len(list) : l[i] = list[i]
      BY <1>0, <2>1, <2>2
    <2>4. \A i \in DOMAIN l : i = Len(list) + 1 \/ i \in DOMAIN list
      BY <1>0, <2>3
    <2>5. KnownTo(l, known \cup {body.m})
      <3> SUFFICES ASSUME NEW i \in DOMAIN l PROVE l[i].NodeMaster \in known \cup {body.m}
        BY DEF KnownTo
      <3>1. QED
        BY <1>0, <2>2, <2>3, <2>4 DEF KnownTo
    <2>6. Distinct(l)
      <3> SUFFICES ASSUME NEW i \in DOMAIN l, NEW j \in DOMAIN l, l[i].NodeMaster = l[j].NodeMaster PROVE i = j
        BY DEF Distinct
      <3>1. CASE i \in DOMAIN list /\ j \in DOMAIN list
        BY <1>0, <2>3, <3>1 DEF Distinct
      <3>2. CASE i = Len(list) + 1 /\ j \in DOMAIN list
        BY <1>0, <1>1, <2>2, <2>3, <3>2 DEF KnownTo
      <3>3. CASE j = Len(list) + 1 /\ i \in DOMAIN list
        BY <1>0, <1>1, <2>2, <2>3, <3>3 DEF KnownTo
      <3>4. QED
        BY <2>4, <3>1, <3>2, <3>3
    <2>7. QED
      BY Zenon, <1>1, <2>3, <2>5, <2>6 DEF l
  <1>2. CASE body.op = "revoke" /\ Len(list) > 1 /\ PositionsOf(list, body.m) # {}
    <2> DEFINE o == CHOOSE i \in PositionsOf(list, body.m) : TRUE
    <2>1. l = Without(list, o)
      BY <1>2 DEF ListAfter
    <2>2. o \in PositionsOf(list, body.m)
      BY <1>2
    <2>3. o \in DOMAIN list
      BY <2>2 DEF PositionsOf
    <2> HIDE DEF o, l
    <2>4. /\ l \in Seq(Candidate)
          /\ \A j \in DOMAIN l : \E k \in DOMAIN list : k = (IF j < o THEN j ELSE j + 1) /\ l[j] = list[k]
      BY <2>1, <2>3, WithoutIs
    <2>5. KnownTo(l, known)
      BY <2>4 DEF KnownTo
    <2>6. Distinct(l)
      <3> SUFFICES ASSUME NEW i \in DOMAIN l, NEW j \in DOMAIN l, l[i].NodeMaster = l[j].NodeMaster PROVE i = j
        BY DEF Distinct
      <3>1. PICK a \in DOMAIN list : a = (IF i < o THEN i ELSE i + 1) /\ l[i] = list[a]
        BY <2>4
      <3>2. PICK d \in DOMAIN list : d = (IF j < o THEN j ELSE j + 1) /\ l[j] = list[d]
        BY <2>4
      <3>3. a = d
        BY <3>1, <3>2 DEF Distinct
      <3>4. i \in Nat /\ j \in Nat /\ o \in Nat
        BY <1>0, <2>3, <2>4
      <3>5. QED
        BY <3>1, <3>2, <3>3, <3>4
    <2>7. QED
      BY <1>2, <2>4, <2>5, <2>6 DEF l
  <1>3. CASE ~(body.op = "add" /\ body.m \notin known) /\ ~(body.op = "revoke" /\ Len(list) > 1 /\ PositionsOf(list, body.m) # {})
    <2>1. l = list
      BY <1>3 DEF ListAfter
    <2> HIDE DEF l
    <2>2. QED
      BY <2>1 DEF KnownTo, l
  <1>4. QED
    BY Zenon, <1>1, <1>2, <1>3

-----------------------------------------------------------------------------
(* Validation: the invariant. *)

BlockOk(B, b) ==
  /\ B[b].Parent \in 0..b - 1 /\ B[b].Number \in 0..b - 1 /\ B[b].Time \in 0..LastTime /\ B[b].TotalScore \in Nat
  /\ B[b].list \in Seq(Candidate) /\ Distinct(B[b].list) /\ KnownTo(B[b].list, B[b].known)

\* The blocks, in the order they were accepted or packed.
BlocksOk(B) ==
  /\ (\E S : B \in Seq(S)) /\ Len(B) <= MaxBlocks + 1
  /\ \A b \in 1..Len(B) : BlockOk(B, b)

\* An entry agrees with the block it is filed under.
Coherent(B, H, e) ==
  /\ e.id \in 1..Len(B) /\ Alike(H[e.c.list], B[e.id].list)
  /\ e.c.satisfied # {} => e.c.satisfied = RePick(B[e.id].list, B[e.id].rich)

ConsensusIInv ==
  /\ BlocksOk(blocks) /\ committed \in SUBSET (1..Len(blocks))
  /\ heap \in [Ptrs -> Seq(Candidate)]
  /\ cache \in Seq(EntrySet) /\ Len(cache) <= CacheSize
  /\ \A i \in DOMAIN cache : Coherent(blocks, heap, cache[i])

\* What the inductive invariant says of a single cache entry and of a single block.
LEMMA ConsensusParts ==
  ASSUME ConsensusIInv
  PROVE  /\ Len(blocks) \in Nat /\ DOMAIN blocks = 1..Len(blocks)
         /\ Len(cache) \in Nat /\ DOMAIN cache = 1..Len(cache)
         /\ \A i \in DOMAIN cache : cache[i] \in EntrySet /\ cache[i].c \in Object /\ cache[i].c.list \in Ptrs
                                     /\ cache[i].id \in Nat /\ cache[i].c.satisfied \in SUBSET Nat
         /\ \A b \in 1..Len(blocks) : BlockOk(blocks, b)
  <1>1. PICK S : blocks \in Seq(S)
    BY Zenon DEF ConsensusIInv, BlocksOk
  <1>2. Len(blocks) \in Nat /\ DOMAIN blocks = 1..Len(blocks)
    BY <1>1
  <1>3. cache \in Seq(EntrySet)
    BY Zenon DEF ConsensusIInv
  <1>4. Len(cache) \in Nat /\ DOMAIN cache = 1..Len(cache) /\ \A i \in DOMAIN cache : cache[i] \in EntrySet
    BY <1>3
  <1>5. \A e \in EntrySet : e.c \in Object /\ e.id \in Nat /\ e.c.list \in Ptrs /\ e.c.satisfied \in SUBSET Nat
    BY DEF EntrySet, Object
  <1>6. \A b \in 1..Len(blocks) : BlockOk(blocks, b)
    BY Zenon DEF ConsensusIInv, BlocksOk
  <1>7. QED
    BY <1>2, <1>4, <1>5, <1>6

\* There is a list no cached object points to.
LEMMA FreePtrIs ==
  ASSUME ConsensusIInv
  PROVE  FreePtr \in Ptrs /\ \A i \in DOMAIN cache : cache[i].c.list # FreePtr
  <1> DEFINE used == { cache[i].c.list : i \in DOMAIN cache }
             f == [i \in DOMAIN cache |-> cache[i].c.list]
  <1>1. DOMAIN cache = 1..Len(cache) /\ Len(cache) \in Nat /\ Len(cache) <= CacheSize
    BY Zenon, ConsensusParts DEF ConsensusIInv
  <1>2. IsFiniteSet(DOMAIN cache) /\ Cardinality(DOMAIN cache) = Len(cache)
    <2>1. 1 \in Int /\ Len(cache) \in Int
      BY <1>1
    <2>2. /\ IsFiniteSet(1..Len(cache))
          /\ Cardinality(1..Len(cache)) = IF 1 > Len(cache) THEN 0 ELSE Len(cache) - 1 + 1
      BY <2>1, FS_Interval, Zenon
    <2>3. QED
      BY <1>1, <2>2
  <1>3. f \in Surjection(DOMAIN cache, used)
    BY DEF Surjection
  <1> HIDE DEF used, f
  <1>4. IsFiniteSet(used) /\ Cardinality(used) <= Len(cache)
    BY <1>2, <1>3, FS_Surjection
  <1>5. IsFiniteSet(Ptrs) /\ Cardinality(Ptrs) = CacheSize + 1
    <2>1. IsFiniteSet(1..CacheSize + 1) /\ Cardinality(1..CacheSize + 1) = CacheSize + 1
      BY PtrsAre, FS_Interval
    <2>2. QED
      BY <2>1, PtrsAre
  <1>6. \E p \in Ptrs : p \notin used
    <2> SUFFICES ASSUME Ptrs \subseteq used PROVE FALSE
      OBVIOUS
    <2>1. Cardinality(Ptrs) <= Cardinality(used) /\ Cardinality(used) \in Nat
      BY <1>4, FS_Subset, FS_CardinalityType
    <2>2. QED
      BY <1>1, <1>4, <1>5, <2>1, PtrsAre
  <1>7. \E p \in Ptrs : \A i \in DOMAIN cache : cache[i].c.list # p
    BY <1>6 DEF used
  <1>8. QED
    BY <1>7, Zenon DEF FreePtr

-----------------------------------------------------------------------------
(* Validation: what Process works on. *)

\* A cached block has an entry filed under its id, which is the one that Get finds.
LEMMA EntryIs ==
  ASSUME ConsensusIInv, NEW id, Cached(id)
  PROVE  \E i \in DOMAIN cache : Entry(id) = cache[i] /\ cache[i].id = id
  <1>1. \E i \in DOMAIN cache : cache[i].id = id
    BY Zenon DEF Cached
  <1> DEFINE o == CHOOSE i \in DOMAIN cache : cache[i].id = id
  <1>2. o \in DOMAIN cache /\ cache[o].id = id
    BY <1>1, Zenon
  <1>3. Entry(id) = cache[o]
    BY Zenon DEF Entry
  <1>4. QED
    BY <1>2, <1>3, Zenon

\* Candidates.Copy shares the list and keeps the picked positions, marked as referenced.
LEMMA CopyIs ==
  ASSUME NEW c \in Object
  PROVE  Copy(c) \in Object /\ Copy(c).list = c.list /\ Copy(c).satisfied = c.satisfied /\ Copy(c).referenced = TRUE
  BY Zenon DEF Copy, Object

\* The object, its list and the heap that validateProposer gets.
LEMMA CandidatesIs ==
  ASSUME ConsensusIInv, NEW id \in 1..Len(blocks)
  PROVE  /\ Candidates(id) \in Object
         /\ ListOf(id) \in Seq(Candidate) /\ Alike(ListOf(id), blocks[id].list)
         /\ Candidates(id).satisfied # {} => Candidates(id).satisfied = RePick(blocks[id].list, blocks[id].rich)
         /\ Candidates(id).referenced \/ Candidates(id).list = FreePtr
         /\ HeapWith(id) \in [Ptrs -> Seq(Candidate)] /\ HeapWith(id)[Candidates(id).list] = ListOf(id)
         /\ \A i \in DOMAIN cache : HeapWith(id)[cache[i].c.list] = heap[cache[i].c.list]
  <1>1. heap \in [Ptrs -> Seq(Candidate)]
    BY Zenon DEF ConsensusIInv
  <1>2. \A i \in DOMAIN cache : cache[i].c \in Object /\ cache[i].c.list \in Ptrs /\ Coherent(blocks, heap, cache[i])
    BY ConsensusParts, Zenon DEF ConsensusIInv
  <1>3. CASE Cached(id)
    <2>1. PICK i \in DOMAIN cache : Entry(id) = cache[i] /\ cache[i].id = id
      BY <1>3, EntryIs
    <2>2. Candidates(id) = Copy(cache[i].c) /\ ListOf(id) = heap[cache[i].c.list]
      BY <1>3, <2>1, Zenon DEF Candidates, ListOf
    <2>3. /\ Candidates(id) \in Object /\ Candidates(id).list = cache[i].c.list
          /\ Candidates(id).satisfied = cache[i].c.satisfied /\ Candidates(id).referenced = TRUE
      BY Zenon, <1>2, <2>2, CopyIs
    <2>4. /\ Alike(heap[cache[i].c.list], blocks[id].list)
          /\ cache[i].c.satisfied # {} => cache[i].c.satisfied = RePick(blocks[id].list, blocks[id].rich)
      BY <1>2, <2>1, Zenon DEF Coherent
    <2>5. ListOf(id) \in Seq(Candidate)
      BY <1>1, <1>2, <2>2, Zenon
    <2>6. HeapWith(id) = heap
      BY <1>1, <1>2, <2>2, <2>3, Zenon DEF HeapWith
    <2>7. QED
      BY <1>1, <2>2, <2>3, <2>4, <2>5, <2>6, Zenon
  <1>4. CASE ~Cached(id)
    <2>1. Candidates(id) = [list |-> FreePtr, satisfied |-> {}, referenced |-> FALSE] /\ ListOf(id) = blocks[id].list
      BY <1>4, Zenon DEF Candidates, ListOf, NewCandidates
    <2>2. Candidates(id) \in Object /\ Candidates(id).list = FreePtr /\ Candidates(id).satisfied = {}
      BY <2>1, FreePtrIs DEF Object
    <2>3. ListOf(id) \in Seq(Candidate) /\ Alike(ListOf(id), blocks[id].list)
      BY <2>1, ConsensusParts, Zenon DEF BlockOk, Alike
    <2>4. HeapWith(id) = [heap EXCEPT ![FreePtr] = ListOf(id)]
      BY <2>2, Zenon DEF HeapWith
    <2>5. /\ HeapWith(id) \in [Ptrs -> Seq(Candidate)] /\ HeapWith(id)[FreePtr] = ListOf(id)
          /\ \A p \in Ptrs : p # FreePtr => HeapWith(id)[p] = heap[p]
      BY <1>1, <2>3, <2>4, FreePtrIs, Zenon
    <2>6. QED
      BY <1>2, <2>2, <2>3, <2>5, FreePtrIs, Zenon
  <1>5. QED
    BY Zenon, <1>3, <1>4

\* Whether picked before or now: the positions the state of the block gives.
LEMMA PickIs ==
  ASSUME ConsensusIInv, NEW id \in 1..Len(blocks)
  PROVE  /\ Pick(Candidates(id), ListOf(id), blocks[id].rich) = RePick(blocks[id].list, blocks[id].rich)
         /\ RePick(blocks[id].list, blocks[id].rich) \in SUBSET Nat
         /\ blocks[id].list \in Seq(Candidate)
  <1>1. blocks[id].list \in Seq(Candidate) /\ ListOf(id) \in Seq(Candidate) /\ Alike(ListOf(id), blocks[id].list)
    BY Zenon, CandidatesIs, ConsensusParts DEF BlockOk
  <1>2. RePick(blocks[id].list, blocks[id].rich) \in SUBSET Nat
    <2>1. DOMAIN blocks[id].list \subseteq Nat
      BY <1>1
    <2>2. QED
      BY <2>1 DEF RePick
  <1>3. RePick(ListOf(id), blocks[id].rich) = RePick(blocks[id].list, blocks[id].rich)
    <2>1. SameMasters(ListOf(id), blocks[id].list)
      BY <1>1, AlikeSame
    <2>2. QED
      BY <1>1, <2>1, RePickSame DEF SameMasters
  <1>4. QED
    BY <1>1, <1>2, <1>3, CandidatesIs, Zenon DEF Pick

\* Get hands out nothing that does not agree.
LEMMA CacheAfterGetIs ==
  ASSUME ConsensusIInv, NEW id \in 1..Len(blocks)
  PROVE  /\ CacheAfterGet(id) \in Seq(EntrySet) /\ Len(CacheAfterGet(id)) <= CacheSize
         /\ \A i \in DOMAIN CacheAfterGet(id) :
              /\ Coherent(blocks, heap, CacheAfterGet(id)[i])
              /\ \E j \in DOMAIN cache : CacheAfterGet(id)[i].c.list = cache[j].c.list
  <1>1. \A j \in DOMAIN cache : cache[j] \in EntrySet /\ cache[j].c \in Object /\ Coherent(blocks, heap, cache[j])
    BY ConsensusParts, Zenon DEF ConsensusIInv
  <1>2. cache \in Seq(EntrySet) /\ Len(cache) <= CacheSize /\ id \in Nat
    BY DEF ConsensusIInv
  <1>3. CASE Cached(id)
    <2>1. PICK k \in DOMAIN cache : Entry(id) = cache[k] /\ cache[k].id = id
      BY <1>3, EntryIs
    <2> DEFINE c == Copy(cache[k].c)
               e == [id |-> id, c |-> c]
               w == LruAdd(cache, id, c)
    <2>2. w = CacheAfterGet(id)
      BY <1>3, <2>1, Zenon DEF CacheAfterGet
    <2>3. c \in Object /\ c.list = cache[k].c.list /\ c.satisfied = cache[k].c.satisfied
      BY Zenon, <1>1, CopyIs
    <2>4. e.id = id /\ e.c = c
      OBVIOUS
    <2> HIDE DEF c
    <2>5. Coherent(blocks, heap, e) /\ e.c.list = cache[k].c.list
      <3> HIDE DEF e
      <3>1. QED
        BY <1>1, <2>1, <2>3, <2>4, Zenon DEF Coherent
    <2>6. /\ w \in Seq(EntrySet) /\ Len(w) <= CacheSize
          /\ \A i \in DOMAIN w : w[i] = e \/ \E j \in DOMAIN cache : w[i] = cache[j]
      BY <1>2, <2>3, LruAddIs, Zenon
    <2> HIDE DEF e, w
    <2>7. \A i \in DOMAIN w : Coherent(blocks, heap, w[i]) /\ \E j \in DOMAIN cache : w[i].c.list = cache[j].c.list
      BY <1>1, <2>5, <2>6, Zenon
    <2>8. QED
      BY <2>2, <2>6, <2>7
  <1>4. CASE ~Cached(id)
    <2>1. CacheAfterGet(id) = cache
      BY <1>4 DEF CacheAfterGet
    <2>2. QED
      BY <1>1, <1>2, <2>1
  <1>5. QED
    BY <1>3, <1>4

-----------------------------------------------------------------------------
(* Validation: the new block. *)

\* Distinct and known masters are a matter of the masters alone.
LEMMA SameKeeps ==
  ASSUME NEW l1, NEW l2, NEW known, SameMasters(l1, l2), Distinct(l2), KnownTo(l2, known)
  PROVE  Distinct(l1) /\ KnownTo(l1, known)
  BY DEF SameMasters, Distinct, KnownTo

\* A block has its parent's list with the scheduler's updates and the clauses applied,
\* and no master twice.
LEMMA MadeBlock ==
  ASSUME ConsensusIInv, NEW h, h.Parent \in 1..Len(blocks), NEW s, NEW body \in Bodies
  PROVE  LET new == MakeBlock(h, s, body)
             p == blocks[h.Parent]
         IN  /\ new.Parent = h.Parent /\ new.Number = p.Number + 1 /\ new.Time = h.Time
             /\ new.TotalScore = h.TotalScore
             /\ new.list = ListAfter(StateUpdate(s, h.Time, p.list), body, p.known)
             /\ new.rich = RichAfter(p.rich, body)
             /\ new.list \in Seq(Candidate) /\ Distinct(new.list) /\ KnownTo(new.list, new.known)
  <1> DEFINE new == MakeBlock(h, s, body)
             p == blocks[h.Parent]
             list == StateUpdate(s, h.Time, p.list)
  <1>1. p.list \in Seq(Candidate) /\ Distinct(p.list) /\ KnownTo(p.list, p.known)
    BY ConsensusParts, Zenon DEF BlockOk
  <1>2. /\ new.Parent = h.Parent /\ new.Number = p.Number + 1 /\ new.Time = h.Time
        /\ new.TotalScore = h.TotalScore
        /\ new.list = ListAfter(list, body, p.known) /\ new.rich = RichAfter(p.rich, body)
        /\ new.known = IF body.op = "add" THEN p.known \cup {body.m} ELSE p.known
    BY Zenon DEF MakeBlock
  <1>3. list \in Seq(Candidate) /\ SameMasters(list, p.list)
    BY <1>1, StateUpdateIs
  <1>4. Distinct(list) /\ KnownTo(list, p.known)
    BY <1>1, <1>3, SameKeeps
  <1>5. /\ ListAfter(list, body, p.known) \in Seq(Candidate) /\ Distinct(ListAfter(list, body, p.known))
        /\ KnownTo(ListAfter(list, body, p.known), IF body.op = "add" THEN p.known \cup {body.m} ELSE p.known)
    <2> HIDE DEF list, p
    <2>1. QED
      BY Zenon, <1>3, <1>4, ListAfterIs
  <1> HIDE DEF new
  <1>6. QED
    BY <1>2, <1>5, Zenon DEF new

Appended(B, new) ==
  /\ BlocksOk(B) /\ Len(B) = Len(blocks) + 1 /\ B[Len(blocks) + 1] = new
  /\ \A b \in 1..Len(blocks) : b \in 1..Len(B) /\ B[b] = blocks[b]

\* Adding a block to the repository leaves a sound tree and the other blocks as they
\* were.
LEMMA BlocksAppend ==
  ASSUME ConsensusIInv, Len(blocks) <= MaxBlocks, NEW h, h.Parent \in 1..Len(blocks), h.Time \in 1..LastTime,
         h.TotalScore \in Nat, NEW s, NEW body \in Bodies
  PROVE  Appended(Append(blocks, MakeBlock(h, s, body)), MakeBlock(h, s, body))
  <1> DEFINE new == MakeBlock(h, s, body)
             B == Append(blocks, new)
             n == Len(blocks)
  <1>1. n \in Nat /\ \A b \in 1..n : BlockOk(blocks, b)
    BY Zenon, ConsensusParts
  <1>2. PICK S : blocks \in Seq(S)
    BY Zenon DEF ConsensusIInv, BlocksOk
  <1>3. /\ new.Parent = h.Parent /\ new.Number = blocks[h.Parent].Number + 1 /\ new.Time = h.Time
        /\ new.TotalScore = h.TotalScore
        /\ new.list \in Seq(Candidate) /\ Distinct(new.list) /\ KnownTo(new.list, new.known)
    BY MadeBlock, Zenon
  <1>4. blocks[h.Parent].Number \in 0..h.Parent - 1
    BY <1>1, Zenon DEF BlockOk
  <1> HIDE DEF new
  <1>5. /\ B \in Seq(S \cup {new}) /\ Len(B) = n + 1 /\ B[n + 1] = new
        /\ \A b \in 1..n : b \in 1..Len(B) /\ B[b] = blocks[b]
    <2>1. blocks \in Seq(S \cup {new}) /\ new \in S \cup {new}
      BY <1>2
    <2> DEFINE R == S \cup {new}
    <2> HIDE DEF R
    <2>2. blocks \in Seq(R) /\ new \in R
      BY <2>1 DEF R
    <2>3. /\ B \in Seq(R) /\ Len(B) = n + 1 /\ B[n + 1] = new
          /\ \A b \in 1..n : b \in 1..Len(B) /\ B[b] = blocks[b]
      BY <1>1, <2>2
    <2>4. QED
      BY Zenon, <2>3 DEF R
  <1> HIDE DEF B
  <1>6. ASSUME NEW b \in 1..n PROVE BlockOk(B, b)
    BY <1>1, <1>5, Zenon DEF BlockOk
  <1>7. BlockOk(B, n + 1)
    <2>1. B[n + 1].Parent \in 0..(n + 1) - 1 /\ B[n + 1].Number \in 0..(n + 1) - 1 /\ B[n + 1].Time \in 0..LastTime
      <3>1. h.Parent \in 1..n /\ LastTime \in Nat
        BY ConsensusAssumption
      <3>2. h.Parent \in 0..(n + 1) - 1 /\ blocks[h.Parent].Number + 1 \in 0..(n + 1) - 1 /\ h.Time \in 0..LastTime
        <4>1. \A a \in 1..n : \A d \in 0..a - 1 : a \in 0..(n + 1) - 1 /\ d + 1 \in 0..(n + 1) - 1
          BY <1>1
        <4>2. QED
          BY <1>4, <3>1, <4>1
      <3>3. QED
        BY <1>3, <1>5, <3>2, Zenon
    <2>2. QED
      BY <1>3, <1>5, <2>1, Zenon DEF BlockOk
  <1>8. \A b \in 1..Len(B) : b \in 1..n \/ b = n + 1
    BY <1>1, <1>5
  <1>9. Len(B) <= MaxBlocks + 1
    BY <1>1, <1>5, ConsensusAssumption
  <1>10. BlocksOk(B)
    BY <1>5, <1>6, <1>7, <1>8, <1>9, Zenon DEF BlocksOk
  <1>11. QED
    BY Zenon, <1>5, <1>10 DEF new, B, Appended

\* What Update leaves: the list with the flags of the block in the object that keeps
\* its picked positions, and the lists of the cached objects as they were.
Written(done, id, s, t, satisfied) ==
  /\ done.c \in Object /\ done.c.satisfied = satisfied
  /\ done.heap \in [Ptrs -> Seq(Candidate)] /\ done.heap[done.c.list] = Apply(s, t, ListOf(id))
  /\ \A i \in DOMAIN cache : done.heap[cache[i].c.list] = heap[cache[i].c.list]

\* Update copies a shared list before it writes: what is cached stays.
LEMMA CandidatesUpdateIs ==
  ASSUME ConsensusIInv, NEW id \in 1..Len(blocks), NEW s, NEW t, NEW c \in Object,
         c.list = Candidates(id).list, c.referenced = Candidates(id).referenced
  PROVE  Written(CandidatesUpdate(c, s, t, HeapWith(id)), id, s, t, c.satisfied)
  <1> DEFINE done == CandidatesUpdate(c, s, t, HeapWith(id))
             H == HeapWith(id)
             L == ListOf(id)
             p == IF c.referenced THEN FreePtr ELSE c.list
             written == \E i \in DOMAIN L : Updated(s, t, L[i].NodeMaster)
  <1>1. /\ L \in Seq(Candidate) /\ H \in [Ptrs -> Seq(Candidate)] /\ H[c.list] = L
        /\ \A i \in DOMAIN cache : H[cache[i].c.list] = heap[cache[i].c.list]
    BY CandidatesIs, Zenon
  <1>2. p = FreePtr
    BY CandidatesIs, Zenon
  <1>3. FreePtr \in Ptrs /\ \A i \in DOMAIN cache : cache[i].c.list \in Ptrs /\ cache[i].c.list # FreePtr
    BY FreePtrIs, ConsensusParts, Zenon
  <1>4. Apply(s, t, L) \in Seq(Candidate)
    BY Zenon, <1>1, ApplyIs
  <1>5. CASE written
    <2>1. done = [ c |-> [c EXCEPT !.list = FreePtr, !.referenced = FALSE], heap |-> [H EXCEPT ![FreePtr] = Apply(s, t, L)] ]
      BY <1>1, <1>2, <1>5, Zenon DEF CandidatesUpdate
    <2> HIDE DEF done, H, L
    <2>2. done.heap = [H EXCEPT ![FreePtr] = Apply(s, t, L)] /\ done.c = [c EXCEPT !.list = FreePtr, !.referenced = FALSE]
      BY <2>1
    <2>3. done.c \in Object /\ done.c.satisfied = c.satisfied /\ done.c.list = FreePtr
      BY Zenon, <1>3, <2>2 DEF Object
    <2>4. /\ done.heap \in [Ptrs -> Seq(Candidate)] /\ done.heap[FreePtr] = Apply(s, t, L)
          /\ \A q \in Ptrs : q # FreePtr => done.heap[q] = H[q]
      BY <1>1, <1>3, <1>4, <2>2, Zenon
    <2>5. \A i \in DOMAIN cache : done.heap[cache[i].c.list] = heap[cache[i].c.list]
      BY <1>1, <1>3, <2>4, Zenon
    <2>6. QED
      BY <2>3, <2>4, <2>5, Zenon DEF done, L, Written
  <1>6. CASE ~written
    <2>1. done = [ c |-> c, heap |-> H ]
      BY <1>1, <1>6, Zenon DEF CandidatesUpdate
    <2>2. Apply(s, t, L) = L
      BY <1>1, <1>6, ApplyIs, Zenon
    <2> HIDE DEF done, H, L
    <2>3. done.c = c /\ done.heap = H
      BY Zenon, <2>1
    <2>4. QED
      BY <1>1, <2>2, <2>3, Zenon DEF done, L, Written
  <1>7. QED
    BY Zenon, <1>5, <1>6

\* Arithmetic of the length that StateUpdate tests.
LEMMA MoreThanOne ==
  ASSUME NEW n \in Nat, n > 1
  PROVE  n # 1
  OBVIOUS

\* What the updates leave in the object and in the state is alike.
LEMMA UpdatesAlike ==
  ASSUME NEW L \in Seq(Candidate), NEW B \in Seq(Candidate), Alike(L, B), NEW s, NEW t
  PROVE  Alike(Apply(s, t, L), StateUpdate(s, t, B))
  <1>1. /\ Apply(s, t, L) \in Seq(Candidate) /\ Len(Apply(s, t, L)) = Len(L) /\ SameMasters(Apply(s, t, L), L)
        /\ (\A i \in DOMAIN L : ~Updated(s, t, L[i].NodeMaster)) => Apply(s, t, L) = L
    BY ApplyIs
  <1>2. SameMasters(L, B)
    BY AlikeSame
  <1>3. Len(L) \in Nat /\ DOMAIN L = 1..Len(L)
    OBVIOUS
  <1>4. Len(B) = Len(L) /\ (Len(L) # 1 => L = B)
    BY DEF Alike
  <1>5. CASE Len(L) > 1
    <2>0. Len(L) # 1
      BY <1>3, <1>5, MoreThanOne, Zenon
    <2>1. L = B /\ Len(B) > 1
      BY <1>4, <1>5, <2>0, Zenon
    <2>2. QED
      BY <2>1, Zenon DEF StateUpdate, Alike
  <1>6. CASE Len(L) = 0
    <2>1. L = B /\ ~(Len(B) > 1) /\ DOMAIN L = {}
      BY <1>3, <1>4, <1>6
    <2>2. Apply(s, t, L) = L
      BY <1>1, <2>1
    <2>3. QED
      BY <2>1, <2>2, Zenon DEF StateUpdate, Alike
  <1>7. CASE Len(L) = 1
    <2>1. ~(Len(B) > 1) /\ 1 \in DOMAIN L
      BY <1>3, <1>4, <1>7
    <2>2. StateUpdate(s, t, B) = B
      BY <2>1, Zenon DEF StateUpdate
    <2>3. DOMAIN Apply(s, t, L) = DOMAIN L
      BY <1>1, Zenon DEF SameMasters
    <2>4. Apply(s, t, L)[1].NodeMaster = B[1].NodeMaster /\ Apply(s, t, L)[1].Endorsor = B[1].Endorsor
      BY <1>1, <1>2, <2>1, <2>3, Zenon DEF SameMasters
    <2>5. QED
      BY <1>1, <1>4, <1>7, <2>2, <2>4, Zenon DEF Alike
  <1>8. QED
    BY <1>3, <1>5, <1>6, <1>7

\* Without an event, who is listed and who of them is endorsed stay as they were.
LEMMA PickedStays ==
  ASSUME ConsensusIInv, NEW h, h.Parent \in 1..Len(blocks), NEW s, NEW body \in Bodies, NEW L \in Seq(Candidate),
         SameMasters(L, blocks[h.Parent].list), ~HasEndorsorEvent(L, body),
         MakeBlock(h, s, body).list = StateUpdate(s, h.Time, blocks[h.Parent].list)
  PROVE  LET new == MakeBlock(h, s, body)
             p == blocks[h.Parent]
         IN  RePick(new.list, new.rich) = RePick(p.list, p.rich)
  <1> DEFINE new == MakeBlock(h, s, body)
             p == blocks[h.Parent]
  <1>1. p.list \in Seq(Candidate)
    BY ConsensusParts, Zenon DEF BlockOk
  <1>2. new.list \in Seq(Candidate) /\ SameMasters(new.list, p.list) /\ new.rich = RichAfter(p.rich, body)
    BY Zenon, <1>1, StateUpdateIs, MadeBlock
  <1> HIDE DEF new, p
  <1>3. ASSUME NEW i \in DOMAIN new.list PROVE new.list[i].Endorsor \in new.rich <=> p.list[i].Endorsor \in p.rich
    <2>1. i \in DOMAIN L /\ new.list[i].Endorsor = L[i].Endorsor /\ p.list[i].Endorsor = L[i].Endorsor
      BY <1>2, <1>3, Zenon DEF SameMasters, p
    <2>2. body.op # "params" /\ (body.op = "transfer" => body.e # L[i].Endorsor)
      BY <2>1, Zenon DEF HasEndorsorEvent, IsEndorsor
    <2>3. L[i].Endorsor \in RichAfter(p.rich, body) <=> L[i].Endorsor \in p.rich
      <3>1. CASE body.op = "transfer"
        BY <2>2, <3>1 DEF RichAfter
      <3>2. CASE body.op # "transfer"
        BY <2>2, <3>2 DEF RichAfter
      <3>3. QED
        BY Zenon, <3>1, <3>2
    <2>4. QED
      BY <1>2, <2>1, <2>3, Zenon
  <1>4. DOMAIN new.list = DOMAIN p.list
    BY <1>2, Zenon DEF SameMasters
  <1>5. RePick(new.list, new.rich) = RePick(p.list, p.rich)
    BY <1>1, <1>2, <1>3, <1>4, RePickSame
  <1>6. QED
    BY Zenon, <1>5 DEF new, p

\* Agreement carries over to more blocks and to a heap that kept the list.
LEMMA CoherentKept ==
  ASSUME NEW B, NEW H, NEW e, Coherent(B, H, e), NEW B2, NEW H2, H2[e.c.list] = H[e.c.list],
         \A b \in 1..Len(B) : b \in 1..Len(B2) /\ B2[b] = B[b]
  PROVE  Coherent(B2, H2, e)
  BY Zenon DEF Coherent

\* Dropping the lists that no cache entry points to keeps the lists of the cached
\* entries.
LEMMA CollectIs ==
  ASSUME NEW H \in [Ptrs -> Seq(Candidate)], NEW entries \in Seq(EntrySet)
  PROVE  /\ Collect(H, entries) \in [Ptrs -> Seq(Candidate)]
         /\ \A i \in DOMAIN entries : Collect(H, entries)[entries[i].c.list] = H[entries[i].c.list]
  <1>1. <<>> \in Seq(Candidate)
    OBVIOUS
  <1>2. Collect(H, entries) \in [Ptrs -> Seq(Candidate)]
    BY <1>1, Zenon DEF Collect
  <1>3. ASSUME NEW i \in DOMAIN entries PROVE Collect(H, entries)[entries[i].c.list] = H[entries[i].c.list]
    <2>1. entries[i] \in EntrySet
      OBVIOUS
    <2>2. entries[i].c.list \in Ptrs
      BY <2>1 DEF EntrySet, Object
    <2>3. QED
      BY <2>2, Zenon DEF Collect
  <1>4. QED
    BY <1>2, <1>3

-----------------------------------------------------------------------------
(* Validation: every step keeps the invariant. *)

\* The invariant after a step, from its parts.
LEMMA ConsensusNow ==
  ASSUME BlocksOk(blocks'), committed' \in SUBSET (1..Len(blocks')), heap' \in [Ptrs -> Seq(Candidate)],
         cache' \in Seq(EntrySet), Len(cache') <= CacheSize,
         \A i \in DOMAIN cache' : Coherent(blocks', heap', cache'[i])
  PROVE  ConsensusIInv'
  BY Zenon DEF ConsensusIInv

\* A block that validation refuses changes the order of the cache at most.
LEMMA RejectStep ==
  ASSUME ConsensusIInv, NEW id \in 1..Len(blocks), cache' = CacheAfterGet(id), UNCHANGED <<blocks, heap, committed>>
  PROVE  ConsensusIInv'
  <1>1. /\ cache' \in Seq(EntrySet) /\ Len(cache') <= CacheSize
        /\ \A i \in DOMAIN cache' : Coherent(blocks, heap, cache'[i])
    BY CacheAfterGetIs, Zenon
  <1>2. /\ BlocksOk(blocks') /\ committed' \in SUBSET (1..Len(blocks')) /\ heap' \in [Ptrs -> Seq(Candidate)]
    BY Zenon DEF ConsensusIInv
  <1>3. \A i \in DOMAIN cache' : Coherent(blocks', heap', cache'[i])
    BY <1>1, Zenon
  <1>4. QED
    BY <1>1, <1>2, <1>3, ConsensusNow, Zenon

\* Arithmetic of the number of the next block.
LEMMA NextIndex ==
  ASSUME NEW n \in Nat
  PROVE  n + 1 \in 1..n + 1 /\ n + 1 \in Nat
  OBVIOUS

\* Arithmetic of the number of a stored block.
LEMMA IndexIsNat ==
  ASSUME NEW n \in Nat, NEW i \in 1..n
  PROVE  i \in Nat
  OBVIOUS

\* Accepting a block and filing its candidates keeps the invariant: the cache gets the
\* list of the new block, unless the block has an Authority event.
LEMMA AcceptStep ==
  ASSUME ConsensusIInv, NEW h, h.Parent \in 1..Len(blocks), h.Time \in 1..LastTime, h.TotalScore \in Nat, NEW s,
         NEW body \in Bodies, UNCHANGED committed,
         NEW done, AcceptOrNot(h, s, body, done),
         Written(done, h.Parent, s, h.Time, RePick(blocks[h.Parent].list, blocks[h.Parent].rich))
  PROVE  ConsensusIInv'
  <1>0. /\ done.c \in Object /\ done.heap \in [Ptrs -> Seq(Candidate)]
        /\ done.c.satisfied = RePick(blocks[h.Parent].list, blocks[h.Parent].rich)
        /\ done.heap[done.c.list] = Apply(s, h.Time, ListOf(h.Parent))
        /\ \A i \in DOMAIN cache : done.heap[cache[i].c.list] = heap[cache[i].c.list]
    BY Zenon DEF Written
  <1> USE <1>0
  <1> DEFINE id == h.Parent
             parent == blocks[id]
             L == Apply(s, h.Time, ListOf(id))
             new == MakeBlock(h, s, body)
             known == { b \in DOMAIN blocks : blocks[b] = new }
             newId == IF known = {} THEN Len(blocks) + 1 ELSE CHOOSE b \in known : TRUE
             c == IF HasEndorsorEvent(done.heap[done.c.list], body) THEN InvalidateCache(done.c) ELSE done.c
             kept == CacheAfterGet(id)
             grown == IF known = {} THEN Append(blocks, new) ELSE blocks
             event == HasAuthorityEvent(StateUpdate(s, h.Time, parent.list), body, parent.known)
  <1>1. /\ newId <= MaxBlocks + 1
        /\ \/ cache' = kept /\ blocks' = blocks
           \/ /\ cache' = IF event THEN kept ELSE LruAdd(kept, newId, c)
              /\ blocks' = grown
        /\ heap' = Collect(done.heap, cache')
    BY Zenon DEF AcceptOrNot
  <1>2. /\ kept \in Seq(EntrySet) /\ Len(kept) <= CacheSize
        /\ \A i \in DOMAIN kept : /\ Coherent(blocks, heap, kept[i])
                                 /\ \E j \in DOMAIN cache : kept[i].c.list = cache[j].c.list
    BY CacheAfterGetIs, Zenon
  <1>3. Len(blocks) \in Nat /\ DOMAIN blocks = 1..Len(blocks) /\ id \in 1..Len(blocks)
    BY Zenon, ConsensusParts
  <1>4. BlocksOk(blocks) /\ committed \in SUBSET (1..Len(blocks))
    BY Zenon DEF ConsensusIInv
  <1>5. c \in Object /\ c.list = done.c.list /\ (c.satisfied # {} => c = done.c /\ ~HasEndorsorEvent(L, body))
    <2>1. CASE HasEndorsorEvent(done.heap[done.c.list], body)
      <3>1. c = [done.c EXCEPT !.satisfied = {}]
        BY <2>1, Zenon DEF InvalidateCache
      <3> HIDE DEF c
      <3>2. QED
        BY <3>1 DEF Object
    <2>2. CASE ~HasEndorsorEvent(done.heap[done.c.list], body)
      <3>1. c = done.c
        BY <2>2, Zenon
      <3> HIDE DEF c
      <3>2. QED
        BY <2>2, <3>1, Zenon
    <2>3. QED
      BY <2>1, <2>2, Zenon
  <1>6. /\ BlocksOk(grown) /\ newId \in 1..Len(grown) /\ newId \in Nat /\ grown[newId] = new
        /\ \A b \in 1..Len(blocks) : b \in 1..Len(grown) /\ grown[b] = blocks[b]
    <2>1. CASE known = {}
      <3>1. newId = Len(blocks) + 1 /\ grown = Append(blocks, new)
        BY <2>1, Zenon
      <3>2. Len(blocks) <= MaxBlocks
        <4>1. MaxBlocks \in Nat
          BY Zenon, ConsensusAssumption
        <4>2. Len(blocks) + 1 <= MaxBlocks + 1
          BY <1>1, <3>1, Zenon
        <4>3. QED
          BY <1>3, <4>1, <4>2
      <3>3. /\ BlocksOk(Append(blocks, new)) /\ Len(Append(blocks, new)) = Len(blocks) + 1
            /\ Append(blocks, new)[Len(blocks) + 1] = new
            /\ \A b \in 1..Len(blocks) : b \in 1..Len(Append(blocks, new)) /\ Append(blocks, new)[b] = blocks[b]
        <4>1. Appended(Append(blocks, new), new)
          BY <3>2, BlocksAppend, Zenon
        <4> HIDE DEF new
        <4>2. QED
          BY <4>1, Zenon DEF Appended
      <3>4. Len(blocks) + 1 \in 1..Len(blocks) + 1 /\ Len(blocks) + 1 \in Nat
        BY <1>3, NextIndex, Zenon
      <3>5. QED
        BY <3>1, <3>3, <3>4, Zenon
    <2>2. CASE known # {}
      <3>1. newId \in known /\ grown = blocks
        BY <2>2, Zenon
      <3>2. newId \in 1..Len(blocks) /\ blocks[newId] = new
        BY <1>3, <3>1, Zenon
      <3>3. newId \in Nat
        BY <1>3, <3>2, IndexIsNat, Zenon
      <3>4. QED
        BY <1>4, <3>1, <3>2, <3>3, Zenon
    <2>3. QED
      BY <2>1, <2>2, Zenon
  <1>7. /\ BlocksOk(blocks') /\ committed' \in SUBSET (1..Len(blocks'))
        /\ \A b \in 1..Len(blocks) : b \in 1..Len(blocks') /\ blocks'[b] = blocks[b]
    <2>1. CASE blocks' = blocks
      BY <1>4, <2>1, Zenon
    <2>2. CASE blocks' = grown
      BY <1>4, <1>6, <2>2, Zenon
    <2>3. QED
      BY <1>1, <2>1, <2>2, Zenon
  <1> DEFINE e == [id |-> newId, c |-> c]
  <1>8. e.id = newId /\ e.c = c
    BY Zenon
  <1>9. ~event => Coherent(grown, done.heap, e)
    <2> SUFFICES ASSUME ~event PROVE Coherent(grown, done.heap, e)
      BY Zenon
    <2>1. /\ new.list = ListAfter(StateUpdate(s, h.Time, parent.list), body, parent.known)
          /\ new.list \in Seq(Candidate)
      BY MadeBlock, Zenon
    <2>2. new.list = StateUpdate(s, h.Time, parent.list)
      BY <2>1, Zenon DEF HasAuthorityEvent
    <2>3. parent.list \in Seq(Candidate) /\ ListOf(id) \in Seq(Candidate) /\ Alike(ListOf(id), parent.list)
      BY <1>3, CandidatesIs, PickIs, Zenon
    <2>4. Alike(L, new.list)
      BY <2>2, <2>3, UpdatesAlike, Zenon
    <2>5. SameMasters(L, parent.list) /\ L \in Seq(Candidate)
      <3>1. SameMasters(ListOf(id), parent.list)
        BY <2>3, AlikeSame, Zenon
      <3>2. SameMasters(L, ListOf(id)) /\ L \in Seq(Candidate)
        BY <2>3, ApplyIs, Zenon
      <3>3. QED
        BY <3>1, <3>2, Zenon DEF SameMasters
    <2>6. ASSUME c.satisfied # {} PROVE c.satisfied = RePick(new.list, new.rich)
      <3>1. c = done.c /\ ~HasEndorsorEvent(L, body)
        BY <1>5, <2>6, Zenon
      <3>2. RePick(new.list, new.rich) = RePick(parent.list, parent.rich)
        BY <2>2, <2>5, <3>1, PickedStays, Zenon
      <3>3. QED
        BY <3>1, <3>2, Zenon
    <2> HIDE DEF e, c, newId, grown, L, new
    <2>7. QED
      BY <1>5, <1>6, <1>8, <2>4, <2>6, Zenon DEF Coherent, L
  <1> HIDE DEF event, e
  <1>10. /\ cache' \in Seq(EntrySet) /\ Len(cache') <= CacheSize
         /\ \A i \in DOMAIN cache' : \/ \E j \in DOMAIN kept : cache'[i] = kept[j]
                                     \/ cache'[i] = e /\ ~event /\ blocks' = grown
    <2>1. CASE cache' = kept
      BY <1>2, <2>1, Zenon
    <2>2. CASE cache' = LruAdd(kept, newId, c) /\ ~event /\ blocks' = grown
      <3> HIDE DEF newId, c, grown, kept
      <3>1. /\ LruAdd(kept, newId, c) \in Seq(EntrySet) /\ Len(LruAdd(kept, newId, c)) <= CacheSize
            /\ \A i \in DOMAIN LruAdd(kept, newId, c) :
                  \/ LruAdd(kept, newId, c)[i] = [id |-> newId, c |-> c]
                  \/ \E j \in DOMAIN kept : LruAdd(kept, newId, c)[i] = kept[j]
        BY <1>2, <1>5, <1>6, LruAddIs, Zenon
      <3>2. QED
        BY <2>2, <3>1, Zenon DEF e
    <2>3. QED
      BY <1>1, <2>1, <2>2, Zenon
  <1>11. /\ heap' \in [Ptrs -> Seq(Candidate)]
         /\ \A i \in DOMAIN cache' : heap'[cache'[i].c.list] = done.heap[cache'[i].c.list]
    BY <1>1, <1>10, CollectIs, Zenon
  <1>12. ASSUME NEW i \in DOMAIN cache' PROVE Coherent(blocks', heap', cache'[i])
    <2> HIDE DEF newId, c, grown, kept, new, known
    <2>1. CASE \E j \in DOMAIN kept : cache'[i] = kept[j]
      <3>1. PICK j \in DOMAIN kept : cache'[i] = kept[j]
        BY Zenon, <2>1
      <3>2. Coherent(blocks, heap, cache'[i]) /\ heap'[cache'[i].c.list] = heap[cache'[i].c.list]
        <4>1. Coherent(blocks, heap, kept[j]) /\ \E k \in DOMAIN cache : kept[j].c.list = cache[k].c.list
          BY <1>2, Zenon
        <4>2. PICK k \in DOMAIN cache : kept[j].c.list = cache[k].c.list
          BY Zenon, <4>1
        <4>3. done.heap[cache[k].c.list] = heap[cache[k].c.list]
          BY Zenon
        <4>4. heap'[cache'[i].c.list] = done.heap[cache'[i].c.list]
          BY <1>11, Zenon
        <4>5. QED
          BY <3>1, <4>1, <4>2, <4>3, <4>4, Zenon
      <3>3. QED
        BY <1>7, <3>2, CoherentKept, Zenon
    <2>2. CASE cache'[i] = e /\ ~event /\ blocks' = grown
      <3>1. Coherent(blocks', done.heap, cache'[i])
        BY <1>9, <2>2, Zenon
      <3>2. heap'[cache'[i].c.list] = done.heap[cache'[i].c.list]
        BY <1>11, Zenon
      <3>3. \A b \in 1..Len(blocks') : b \in 1..Len(blocks') /\ blocks'[b] = blocks'[b]
        BY Zenon
      <3>4. QED
        BY <3>1, <3>2, <3>3, CoherentKept, Zenon
    <2>3. QED
      BY <1>10, <2>1, <2>2, Zenon
  <1>13. QED
    BY <1>7, <1>10, <1>11, <1>12, ConsensusNow, Zenon

\* Consensus.Process keeps the invariant, whatever the outcome of its checks.
LEMMA ProcessStep ==
  ASSUME ConsensusIInv, NEW h, h.Parent \in 1..Len(blocks), h.Time \in 1..LastTime, h.TotalScore \in Nat, NEW u,
         Process(h, u)
  PROVE  ConsensusIInv'
  <1> DEFINE id == h.Parent
             list == ListOf(id)
             satisfied == Pick(Candidates(id), list, blocks[id].rich)
             s == SchedulerOn(id, h.Signer, list, satisfied)
             picked == [Candidates(id) EXCEPT !.satisfied = satisfied]
             done == CandidatesUpdate(picked, s, h.Time, HeapWith(id))
  <1>1. /\ \/ \E body \in Bodies : AcceptOrNot(h, s, body, done)
           \/ cache' = CacheAfterGet(id) /\ UNCHANGED <<blocks, heap>>
        /\ UNCHANGED committed
    BY Zenon DEF Process
  <1>2. satisfied = RePick(blocks[id].list, blocks[id].rich) /\ satisfied \in SUBSET Nat
    BY PickIs, Zenon
  <1>3. /\ picked \in Object /\ picked.list = Candidates(id).list /\ picked.referenced = Candidates(id).referenced
        /\ picked.satisfied = satisfied
    <2>1. Candidates(id) \in Object
      BY CandidatesIs, Zenon
    <2> HIDE DEF satisfied
    <2>2. QED
      BY <1>2, <2>1 DEF Object
  <1> HIDE DEF satisfied, picked, s
  <1>4. Written(done, id, s, h.Time, RePick(blocks[id].list, blocks[id].rich))
    <2>1. Written(done, id, s, h.Time, picked.satisfied)
      BY <1>3, CandidatesUpdateIs, Zenon
    <2> HIDE DEF done
    <2>2. QED
      BY <1>2, <1>3, <2>1, Zenon
  <1> HIDE DEF done
  <1>5. CASE \E body \in Bodies : AcceptOrNot(h, s, body, done)
    <2>1. PICK body \in Bodies : AcceptOrNot(h, s, body, done)
      BY <1>5
    <2>2. QED
      BY <1>1, <1>4, <2>1, AcceptStep, Zenon
  <1>6. CASE cache' = CacheAfterGet(id) /\ UNCHANGED <<blocks, heap>>
    BY <1>1, <1>6, RejectStep, Zenon
  <1>7. QED
    BY <1>1, <1>5, <1>6

-----------------------------------------------------------------------------
(* Validation: the packer. *)

\* What a scheduler on a block is made of.
SchedulerFor(s, id, m, list, sat) ==
  /\ s.proposer = m /\ s.proposers = Proposers(list, sat) /\ s.dprp = Hash[blocks[id].Number]
  /\ s.parentBlockTime = blocks[id].Time /\ s.parentBlockTime \in Nat
  /\ s.actives = { i \in sat : list[i].NodeMaster = m \/ list[i].Active }
  /\ IsFiniteSet(s.actives) /\ s.actives \subseteq Int
  /\ DOMAIN s.dprp = 1..LastTime /\ \A u \in 1..LastTime : s.dprp[u] \in Nat

\* A scheduler built on a block, over any list and any picked positions of it.
LEMMA SchedulerOnIs ==
  ASSUME ConsensusIInv, NEW id \in 1..Len(blocks), NEW list \in Seq(Candidate), NEW sat \in SUBSET (DOMAIN list), NEW m,
         NEW s, s = SchedulerOn(id, m, list, sat)
  PROVE  SchedulerFor(s, id, m, list, sat)
  <1> DEFINE P == Proposers(list, sat)
  <1>1. /\ s.proposer = m /\ s.proposers = P /\ s.dprp = Hash[blocks[id].Number]
        /\ s.parentBlockTime = blocks[id].Time
        /\ s.actives = { i \in DOMAIN P : P[i].Address = m \/ P[i].Active }
    <2> HIDE DEF P
    <2>1. s = NewScheduler(m, P, Hash[blocks[id].Number], blocks[id].Time)
      BY Zenon DEF SchedulerOn, NumberOf, P
    <2>2. QED
      BY <2>1 DEF NewScheduler
  <1>2. DOMAIN P = sat /\ \A i \in sat : P[i].Address = list[i].NodeMaster /\ (P[i].Active <=> list[i].Active)
    <2>1. P = [ i \in sat |-> [Address |-> list[i].NodeMaster, Active |-> list[i].Active] ]
      BY Zenon DEF Proposers
    <2> HIDE DEF P
    <2>2. DOMAIN P = sat
      BY <2>1, Zenon
    <2>3. ASSUME NEW i \in sat PROVE P[i].Address = list[i].NodeMaster /\ (P[i].Active <=> list[i].Active)
      <3>1. P[i] = [Address |-> list[i].NodeMaster, Active |-> list[i].Active]
        BY <2>1, Zenon
      <3>2. list[i] \in Candidate
        OBVIOUS
      <3>3. list[i].Active \in BOOLEAN
        BY <3>2 DEF Candidate
      <3>4. P[i].Address = list[i].NodeMaster /\ P[i].Active = list[i].Active
        BY <3>1
      <3>5. QED
        BY <3>3, <3>4
    <2>4. QED
      BY <2>2, <2>3
  <1> HIDE DEF P
  <1>3. s.actives = { i \in sat : list[i].NodeMaster = m \/ list[i].Active }
    BY <1>1, <1>2, Zenon
  <1>4. s.actives \subseteq DOMAIN list
    BY <1>3, Zenon
  <1>5. DOMAIN list = 1..Len(list) /\ Len(list) \in Nat
    OBVIOUS
  <1>6. IsFiniteSet(DOMAIN list)
    <2>1. 1 \in Int /\ Len(list) \in Int
      BY <1>5
    <2>2. IsFiniteSet(1..Len(list))
      BY <2>1, FS_Interval, Zenon
    <2>3. QED
      BY <1>5, <2>2, Zenon
  <1>7. IsFiniteSet(s.actives)
    BY <1>4, <1>6, FS_Subset, Zenon
  <1>8. s.actives \subseteq Int
    BY <1>4, <1>5
  <1>9. blocks[id].Number \in 0..id - 1 /\ blocks[id].Time \in 0..LastTime
    BY ConsensusParts, Zenon DEF BlockOk
  <1>10. blocks[id].Number \in 0..MaxBlocks /\ blocks[id].Time \in Nat
    <2>1. MaxBlocks \in Nat /\ LastTime \in Nat
      BY ConsensusAssumption
    <2>2. Len(blocks) \in Nat /\ Len(blocks) <= MaxBlocks + 1
      BY ConsensusParts, Zenon DEF ConsensusIInv, BlocksOk
    <2>3. QED
      BY <1>9, <2>1, <2>2
  <1>11. Hash[blocks[id].Number] \in [1..LastTime -> Nat]
    BY <1>10, ConsensusAssumption, Zenon
  <1>12. DOMAIN s.dprp = 1..LastTime /\ \A u \in 1..LastTime : s.dprp[u] \in Nat
    BY <1>1, <1>11, Zenon
  <1>13. QED
    BY <1>1, <1>3, <1>7, <1>8, <1>10, <1>12, Zenon DEF P, SchedulerFor

\* Candidates.Pick takes positions of the list.
LEMMA RePickWithin ==
  ASSUME NEW list, NEW rich
  PROVE  RePick(list, rich) \in SUBSET (DOMAIN list)
  BY Zenon DEF RePick

\* The slots Updates walks back over are ones the draw is given for.
LEMMA MissedWithin ==
  ASSUME NEW s, s.parentBlockTime \in Nat, NEW t \in 1..LastTime
  PROVE  MissedSlots(s, t) \subseteq 1..LastTime
  <1> SUFFICES ASSUME NEW u \in MissedSlots(s, t) PROVE u \in 1..LastTime
    OBVIOUS
  <1>1. LastTime \in Nat /\ MaxBlockProposers \in Nat \ {0} /\ BlockInterval \in Nat \ {0}
    BY ConsensusAssumption, PoalAssumption
  <1>2. PICK i \in 1..MaxBlockProposers : u = t - i * BlockInterval
    BY DEF MissedSlots
  <1>3. u > s.parentBlockTime
    BY DEF MissedSlots
  <1>4. i * BlockInterval \in Nat
    BY <1>1
  <1>5. QED
    BY <1>1, <1>2, <1>3, <1>4

\* Who is listed has a score, over any list.
LEMMA ListedScore ==
  ASSUME ConsensusIInv, NEW id \in 1..Len(blocks), NEW list \in Seq(Candidate), NEW sat \in SUBSET (DOMAIN list), NEW m,
         NEW t \in 1..LastTime, NEW s, s = SchedulerOn(id, m, list, sat), Listed(m, s.proposers)
  PROVE  score(s, t) \in Nat \ {0}
  <1>1. /\ s.proposer = m /\ s.proposers = Proposers(list, sat)
        /\ s.parentBlockTime \in Nat
        /\ s.actives = { i \in sat : list[i].NodeMaster = m \/ list[i].Active }
        /\ IsFiniteSet(s.actives) /\ s.actives \subseteq Int
        /\ \A u \in 1..LastTime : s.dprp[u] \in Nat
    <2>1. SchedulerFor(s, id, m, list, sat)
      BY SchedulerOnIs, Zenon
    <2>2. QED
      BY <2>1, Zenon DEF SchedulerFor
  <1>2. DOMAIN Proposers(list, sat) = sat /\ \A i \in sat : Proposers(list, sat)[i].Address = list[i].NodeMaster
    BY DEF Proposers
  <1>3. PICK o \in sat : Proposers(list, sat)[o].Address = m
    BY <1>1, <1>2, Zenon DEF Listed
  <1>4. o \in s.actives /\ s.proposers[o].Address = s.proposer
    BY <1>1, <1>2, <1>3, Zenon
  <1>5. \A u \in MissedSlots(s, t) : s.dprp[u] \in Nat
    BY Zenon, <1>1, MissedWithin
  <1>6. score(s, t) \in Nat \ {0}
    BY Zenon, <1>1, <1>4, <1>5, ScorePositive
  <1>7. QED
    BY <1>6

\* Scheduling and packing a block keeps the invariant; the packer does not touch the
\* cache.
LEMMA PackStep ==
  ASSUME ConsensusIInv, NEW id \in 1..Len(blocks), NEW m, NEW t \in 1..LastTime, NEW body \in Bodies,
         Pack(id, m, t, body)
  PROVE  ConsensusIInv'
  <1> DEFINE s == PackerScheduler(id, m)
             h == [ Parent |-> id, Signer |-> m, Time |-> t,
                    TotalScore |-> blocks[id].TotalScore + score(s, t) ]
             new == MakeBlock(h, s, body)
  <1>1. /\ Len(blocks) <= MaxBlocks /\ t \in ScheduledTimes(id, m)
        /\ blocks' = Append(blocks, new) /\ committed' = committed \cup {Len(blocks) + 1}
        /\ cache' = cache /\ heap' = heap
    BY Zenon DEF Pack
  <1>2. Listed(m, s.proposers)
    BY <1>1, Zenon DEF ScheduledTimes
  <1>3. blocks[id].TotalScore \in Nat /\ blocks[id].list \in Seq(Candidate)
    BY ConsensusParts, Zenon DEF BlockOk
  <1>4. score(s, t) \in Nat \ {0}
    BY <1>2, <1>3, RePickWithin, ListedScore, Zenon DEF PackerScheduler
  <1> HIDE DEF s
  <1>5. h.Parent = id /\ h.Time = t /\ h.TotalScore \in Nat
    BY <1>3, <1>4
  <1> HIDE DEF h
  <1>6. /\ BlocksOk(blocks') /\ Len(blocks') = Len(blocks) + 1
        /\ \A b \in 1..Len(blocks) : b \in 1..Len(blocks') /\ blocks'[b] = blocks[b]
    <2>1. Appended(Append(blocks, new), new)
      BY <1>1, <1>5, BlocksAppend, Zenon
    <2> HIDE DEF new
    <2>2. QED
      BY <1>1, <2>1, Zenon DEF Appended
  <1>7. /\ committed \in SUBSET (1..Len(blocks)) /\ heap' \in [Ptrs -> Seq(Candidate)] /\ cache' \in Seq(EntrySet)
        /\ Len(cache') <= CacheSize /\ \A i \in DOMAIN cache' : Coherent(blocks, heap, cache'[i])
    BY <1>1, Zenon DEF ConsensusIInv
  <1>8. committed' \in SUBSET (1..Len(blocks'))
    <2>1. Len(blocks) \in Nat
      BY ConsensusParts
    <2>2. Len(blocks) + 1 \in 1..Len(blocks')
      BY <1>6, <2>1
    <2>3. QED
      BY <1>1, <1>6, <1>7, <2>2, Zenon
  <1>9. \A i \in DOMAIN cache' : Coherent(blocks', heap', cache'[i])
    <2> SUFFICES ASSUME NEW i \in DOMAIN cache' PROVE Coherent(blocks', heap', cache'[i])
      OBVIOUS
    <2>1. Coherent(blocks, heap, cache'[i]) /\ heap'[cache'[i].c.list] = heap[cache'[i].c.list]
      BY <1>1, <1>7, Zenon
    <2>2. QED
      BY <1>6, <2>1, CoherentKept, Zenon
  <1>10. QED
    BY <1>6, <1>7, <1>8, <1>9, ConsensusNow, Zenon

\* The genesis block and an empty cache satisfy the invariant.
LEMMA ConsensusInitIInv == ConsensusInit => ConsensusIInv
  <1> SUFFICES ASSUME ConsensusInit PROVE ConsensusIInv
    OBVIOUS
  <1> DEFINE g == [ Parent |-> 0, Number |-> 0, Time |-> 0, Signer |-> "none", TotalScore |-> 0,
                    body |-> [op |-> "none"], list |-> GenesisList,
                    known |-> { GenesisList[i].NodeMaster : i \in DOMAIN GenesisList },
                    rich |-> { Endorsor[m] : m \in Masters } ]
  <1>1. blocks = <<g>> /\ committed = {1} /\ cache = <<>> /\ heap = [p \in Ptrs |-> <<>>]
    BY Zenon DEF ConsensusInit
  <1>2. /\ g.Parent = 0 /\ g.Number = 0 /\ g.Time = 0 /\ g.TotalScore = 0 /\ g.list = GenesisList
        /\ g.known = { GenesisList[i].NodeMaster : i \in DOMAIN GenesisList }
    BY Zenon
  <1> HIDE DEF g
  <1>3. blocks \in Seq({g}) /\ Len(blocks) = 1 /\ blocks[1] = g
    BY <1>1
  <1>4. LastTime \in Nat /\ MaxBlocks \in Nat /\ CacheSize \in Nat
    BY ConsensusAssumption
  <1>5. GenesisList \in Seq(Candidate) /\ Distinct(GenesisList) /\ KnownTo(GenesisList, g.known)
    BY <1>2, ConsensusAssumption, Zenon DEF Distinct, KnownTo
  <1>6. BlockOk(blocks, 1)
    <2>1. 0 \in 0..1 - 1 /\ 0 \in 0..LastTime /\ 0 \in Nat
      BY <1>4
    <2>2. QED
      BY <1>2, <1>3, <1>5, <2>1, Zenon DEF BlockOk
  <1>7. BlocksOk(blocks)
    <2>1. 1..Len(blocks) = {1} /\ Len(blocks) <= MaxBlocks + 1
      BY <1>3, <1>4
    <2>2. QED
      BY <1>3, <1>6, <2>1, Zenon DEF BlocksOk
  <1>8. committed \in SUBSET (1..Len(blocks))
    BY <1>1, <1>3
  <1>9. heap \in [Ptrs -> Seq(Candidate)]
    BY <1>1
  <1>10. cache \in Seq(EntrySet) /\ Len(cache) = 0 /\ DOMAIN cache = {}
    BY <1>1
  <1>11. Len(cache) <= CacheSize
    BY <1>4, <1>10
  <1>12. QED
    BY <1>7, <1>8, <1>9, <1>10, <1>11, Zenon DEF ConsensusIInv

\* Processing and packing keep the invariant.
LEMMA ConsensusNextIInv == ConsensusIInv /\ [ConsensusNext]_consensusVars => ConsensusIInv'
  <1> SUFFICES ASSUME ConsensusIInv, [ConsensusNext]_consensusVars PROVE ConsensusIInv'
    OBVIOUS
  <1>0. committed \in SUBSET (1..Len(blocks)) /\ DOMAIN blocks = 1..Len(blocks)
    BY ConsensusParts, Zenon DEF ConsensusIInv
  <1>1. ASSUME NEW id \in committed, NEW m \in Masters, NEW t \in 1..LastTime, NEW k \in 1..Cardinality(Masters), NEW f \in BOOLEAN,
               Process([Parent |-> id, Signer |-> m, Time |-> t, TotalScore |-> blocks[id].TotalScore + k,
                        TxsFeatures |-> f], LastTime)
        PROVE  ConsensusIInv'
    <2> DEFINE h == [Parent |-> id, Signer |-> m, Time |-> t, TotalScore |-> blocks[id].TotalScore + k,
                     TxsFeatures |-> f]
    <2>1. h.Parent = id /\ h.Time = t /\ h.TotalScore = blocks[id].TotalScore + k
      OBVIOUS
    <2>2. blocks[id].TotalScore \in Nat
      BY <1>0, ConsensusParts, Zenon DEF BlockOk
    <2>3. k \in Nat
      OBVIOUS
    <2>4. Process(h, LastTime)
      BY <1>1, Zenon
    <2> HIDE DEF h
    <2>5. h.TotalScore \in Nat
      BY <2>1, <2>2, <2>3
    <2>6. QED
      BY <1>0, <2>1, <2>4, <2>5, ProcessStep, Zenon
  <1>2. ASSUME NEW b \in DOMAIN blocks, Commit(b) PROVE ConsensusIInv'
    <2>1. committed' = committed \cup {b} /\ UNCHANGED <<blocks, cache, heap>>
      BY <1>2, Zenon DEF Commit
    <2>2. committed' \in SUBSET (1..Len(blocks'))
      BY <1>0, <2>1, Zenon
    <2>3. /\ BlocksOk(blocks') /\ heap' \in [Ptrs -> Seq(Candidate)] /\ cache' \in Seq(EntrySet)
          /\ Len(cache') <= CacheSize /\ \A i \in DOMAIN cache' : Coherent(blocks', heap', cache'[i])
      BY <2>1, Zenon DEF ConsensusIInv
    <2>4. QED
      BY <2>2, <2>3, ConsensusNow, Zenon
  <1>3. ASSUME NEW id \in committed, NEW m \in Masters, NEW t \in 1..LastTime, NEW body \in Bodies, Pack(id, m, t, body)
        PROVE  ConsensusIInv'
    BY <1>0, <1>3, PackStep, Zenon
  <1>4. ASSUME UNCHANGED consensusVars PROVE ConsensusIInv'
    <2>1. UNCHANGED <<blocks, committed, cache, heap>>
      BY <1>4, Zenon DEF consensusVars
    <2>2. /\ BlocksOk(blocks') /\ heap' \in [Ptrs -> Seq(Candidate)] /\ cache' \in Seq(EntrySet)
          /\ committed' \in SUBSET (1..Len(blocks'))
          /\ Len(cache') <= CacheSize /\ \A i \in DOMAIN cache' : Coherent(blocks', heap', cache'[i])
      BY <2>1, Zenon DEF ConsensusIInv
    <2>3. QED
      BY <2>2, ConsensusNow, Zenon
  <1>5. QED
    BY <1>1, <1>2, <1>3, <1>4, Zenon DEF ConsensusNext

\* The candidates of every cached block agree with the Authority contract at this block,
\* and its picked positions are what a new pick would give, in every state of the node.
THEOREM ConsensusIInvariant == ConsensusSpec => []ConsensusIInv
  BY ConsensusInitIInv, ConsensusNextIInv, PTL DEF ConsensusSpec

\* What the candidates cache holds of a block is what the Authority contract holds in
\* the state of this block (consensus.go and poal/candidates.go): a list is copied
\* before it is written, and invalidated or not filed at all after an event.
THEOREM CacheStaysCoherent == ConsensusSpec => []CacheCoherent
  <1>1. ConsensusIInv => CacheCoherent
    <2> SUFFICES ASSUME ConsensusIInv PROVE CacheCoherent
      OBVIOUS
    <2>1. /\ DOMAIN blocks = 1..Len(blocks) /\ DOMAIN cache = 1..Len(cache)
          /\ \A b \in 1..Len(blocks) : BlockOk(blocks, b)
          /\ \A i \in DOMAIN cache : cache[i].c.list \in Ptrs
      BY ConsensusParts, Zenon
    <2>2. /\ committed \subseteq 1..Len(blocks) /\ Len(cache) <= CacheSize
          /\ \A i \in DOMAIN cache : Coherent(blocks, heap, cache[i])
      BY Zenon DEF ConsensusIInv
    <2>3. ConsensusTypeOK
      BY <2>1, <2>2, Zenon DEF ConsensusTypeOK, BlockOk, Coherent, Distinct
    <2>4. QED
      BY <2>2, <2>3, Zenon DEF CacheCoherent, Coherent
  <1>2. QED
    BY <1>1, ConsensusIInvariant, PTL

\* Over a list that is alike, the scheduler of a listed proposer decides alike.
LEMMA SchedulesAlike ==
  ASSUME ConsensusIInv, NEW id \in 1..Len(blocks), NEW L \in Seq(Candidate), NEW B \in Seq(Candidate), Alike(L, B),
         NEW sat \in SUBSET (DOMAIN B), NEW m, NEW t \in 1..LastTime,
         NEW s, s = SchedulerOn(id, m, B, sat), Listed(m, s.proposers), whoseTurn(s, t) = m,
         NEW r, r = SchedulerOn(id, m, L, sat)
  PROVE  Listed(m, r.proposers) /\ whoseTurn(r, t) = m /\ score(r, t) = score(s, t)
  <1>1. CASE L = B
    BY <1>1, Zenon
  <1>2. CASE L # B
    <2>1. Len(L) = 1 /\ Len(B) = 1 /\ L[1].NodeMaster = B[1].NodeMaster
      BY <1>2, Zenon DEF Alike
    <2>2. DOMAIN L = {1} /\ DOMAIN B = {1}
      BY <2>1
    <2>3. DOMAIN Proposers(B, sat) = sat /\ \A i \in sat : Proposers(B, sat)[i].Address = B[i].NodeMaster
      BY DEF Proposers
    <2>4. DOMAIN Proposers(L, sat) = sat /\ \A i \in sat : Proposers(L, sat)[i].Address = L[i].NodeMaster
      BY DEF Proposers
    <2>5. /\ s.proposer = m /\ s.proposers = Proposers(B, sat) /\ s.parentBlockTime \in Nat
          /\ s.actives = { i \in sat : B[i].NodeMaster = m \/ B[i].Active }
          /\ \A u \in 1..LastTime : s.dprp[u] \in Nat
      <3>1. SchedulerFor(s, id, m, B, sat)
        BY SchedulerOnIs, Zenon
      <3>2. QED
        BY <3>1, Zenon DEF SchedulerFor
    <2>6. sat \in SUBSET (DOMAIN L)
      BY <2>2, Zenon
    <2>7. /\ r.proposer = m /\ r.proposers = Proposers(L, sat) /\ r.parentBlockTime \in Nat
          /\ r.actives = { i \in sat : L[i].NodeMaster = m \/ L[i].Active }
          /\ \A u \in 1..LastTime : r.dprp[u] \in Nat
      <3>1. SchedulerFor(r, id, m, L, sat)
        BY <2>6, SchedulerOnIs, Zenon
      <3>2. QED
        BY <3>1, Zenon DEF SchedulerFor
    <2>8. sat = {1} /\ B[1].NodeMaster = m
      <3>1. PICK o \in sat : B[o].NodeMaster = m
        BY <2>3, <2>5, Zenon DEF Listed
      <3>2. QED
        BY <2>2, <3>1, Zenon
    <2>9. s.actives = {1} /\ s.proposers[1].Address = m /\ r.actives = {1} /\ r.proposers[1].Address = m
      BY <2>1, <2>3, <2>4, <2>5, <2>7, <2>8, Zenon
    <2>10. IsFiniteSet({1}) /\ {1} \subseteq Int /\ {1} # {}
      <3>1. IsFiniteSet({1})
        BY FS_Singleton, Zenon
      <3>2. QED
        BY <3>1
    <2>11. ASSUME NEW u \in 1..LastTime PROVE whoseTurn(s, u) = m /\ whoseTurn(r, u) = m
      <3>1. \E i \in s.actives : whoseTurn(s, u) = s.proposers[i].Address
        <4>1. IsFiniteSet(s.actives) /\ s.actives \subseteq Int /\ s.actives # {} /\ s.dprp[u] \in Nat
          BY <2>5, <2>9, <2>10, Zenon
        <4>2. QED
          BY <4>1, TurnOfActive, Zenon
      <3>2. \E i \in r.actives : whoseTurn(r, u) = r.proposers[i].Address
        <4>1. IsFiniteSet(r.actives) /\ r.actives \subseteq Int /\ r.actives # {} /\ r.dprp[u] \in Nat
          BY <2>7, <2>9, <2>10, Zenon
        <4>2. QED
          BY <4>1, TurnOfActive, Zenon
      <3>3. QED
        BY <2>9, <3>1, <3>2, Zenon
    <2>12. toDeactivate(s, t) = {} /\ toDeactivate(r, t) = {}
      <3>1. MissedSlots(s, t) \subseteq 1..LastTime /\ MissedSlots(r, t) \subseteq 1..LastTime
        BY <2>5, <2>7, MissedWithin, Zenon
      <3>2. QED
        BY <2>5, <2>7, <2>11, <3>1, Zenon DEF toDeactivate
    <2>13. score(r, t) = score(s, t)
      BY <2>9, <2>12, Zenon DEF score
    <2>14. Listed(m, r.proposers)
      BY <2>4, <2>7, <2>8, <2>9, Zenon DEF Listed
    <2>15. QED
      BY <2>11, <2>13, <2>14, Zenon
  <1>3. QED
    BY <1>1, <1>2

\* Whatever slot the packer schedules from the contract, validateProposer accepts from
\* the cache: the schedulers of both have the same proposers, time and score.
THEOREM PackedPassesValidation == ConsensusSpec => []PackedIsValid
  <1>1. ConsensusIInv => PackedIsValid
    <2> SUFFICES ASSUME ConsensusIInv, NEW id \in committed, NEW m \in Masters, NEW t \in ScheduledTimes(id, m)
                 PROVE  LET s == PackerScheduler(id, m)
                            h == [ Parent |-> id, Signer |-> m, Time |-> t,
                                   TotalScore |-> blocks[id].TotalScore + score(s, t) ]
                            satisfied == Pick(Candidates(id), ListOf(id), blocks[id].rich)
                        IN  validateBlockHeader(h, t) /\ validateProposer(h, ListOf(id), satisfied)
      BY Zenon DEF PackedIsValid
    <2> DEFINE s == PackerScheduler(id, m)
               h == [ Parent |-> id, Signer |-> m, Time |-> t,
                      TotalScore |-> blocks[id].TotalScore + score(s, t) ]
               B == blocks[id].list
               sat == RePick(B, blocks[id].rich)
               L == ListOf(id)
               r == SchedulerOn(id, m, L, sat)
    <2>1. id \in 1..Len(blocks)
      BY Zenon DEF ConsensusIInv
    <2>2. /\ Pick(Candidates(id), L, blocks[id].rich) = sat /\ B \in Seq(Candidate) /\ L \in Seq(Candidate)
          /\ Alike(L, B) /\ sat \in SUBSET (DOMAIN B)
      BY <2>1, PickIs, CandidatesIs, RePickWithin, Zenon
    <2>3. s = SchedulerOn(id, m, B, sat)
      BY Zenon DEF PackerScheduler
    <2>4. t \in 1..LastTime /\ Listed(m, s.proposers) /\ \E instant \in 0..LastTime : Schedule(s, instant, t)
      BY Zenon DEF ScheduledTimes
    <2> HIDE DEF s, L, r, sat, B
    <2>5. /\ s.proposer = m /\ s.parentBlockTime = blocks[id].Time /\ s.parentBlockTime \in Nat
      <3>1. SchedulerFor(s, id, m, B, sat)
        BY <2>1, <2>2, <2>3, SchedulerOnIs, Zenon
      <3>2. QED
        BY <3>1, Zenon DEF SchedulerFor
    <2>6. PICK instant \in 0..LastTime : Schedule(s, instant, t)
      BY <2>4
    <2>7. t \in SlotsFrom(s, FirstSlot(s, instant)) /\ whoseTurn(s, t) = m
      BY <2>5, <2>6, Zenon DEF Schedule
    <2>8. t >= FirstSlot(s, instant) /\ (t - FirstSlot(s, instant)) % BlockInterval = 0
      BY <2>7, Zenon DEF SlotsFrom
    <2>9. instant \in Nat /\ t \in Nat
      BY <2>4
    <2>10. PICK k \in Nat \ {0} : FirstSlot(s, instant) = s.parentBlockTime + k * BlockInterval
      BY <2>5, <2>9, FirstSlotAligned, Zenon
    <2>11. t > s.parentBlockTime /\ (t - s.parentBlockTime) % BlockInterval = 0
      <3>1. BlockInterval \in Nat \ {0}
        BY PoalAssumption
      <3>2. k * BlockInterval \in Nat /\ k * BlockInterval >= 1
        BY <3>1
      <3> DEFINE w == k * BlockInterval
                 x == t - FirstSlot(s, instant)
      <3>3. w \in Nat /\ w >= 1 /\ FirstSlot(s, instant) = s.parentBlockTime + w /\ k \in Int
        BY <2>10, <3>2
      <3> HIDE DEF w
      <3>4. x \in Int /\ x % BlockInterval = 0 /\ t - s.parentBlockTime = x + w /\ t > s.parentBlockTime
        BY <2>5, <2>8, <2>9, <3>3
      <3> HIDE DEF x
      <3>5. (x + k * BlockInterval) % BlockInterval = 0
        BY <3>1, <3>3, <3>4, MultiplesAdd, Zenon
      <3>6. QED
        BY <3>4, <3>5, Zenon DEF w
    <2>12. score(s, t) \in Nat \ {0}
      BY <2>1, <2>2, <2>3, <2>4, ListedScore, Zenon
    <2>13. blocks[id].TotalScore \in Nat
      BY <2>1, ConsensusParts, Zenon DEF BlockOk
    <2>14. /\ h.Parent = id /\ h.Signer = m /\ h.Time = t
           /\ h.TotalScore = blocks[id].TotalScore + score(s, t)
      OBVIOUS
    <2> HIDE DEF h
    <2>15. validateBlockHeader(h, t)
      <3>1. t <= t + BlockInterval /\ blocks[id].TotalScore + score(s, t) > blocks[id].TotalScore
        BY <2>9, <2>12, <2>13, PoalAssumption
      <3>2. QED
        BY <2>5, <2>11, <2>14, <3>1, Zenon DEF validateBlockHeader
    <2>16. Listed(m, r.proposers) /\ whoseTurn(r, t) = m /\ score(r, t) = score(s, t)
      BY <2>1, <2>2, <2>3, <2>4, <2>7, SchedulesAlike DEF r
    <2>17. r.proposer = m /\ r.parentBlockTime = blocks[id].Time
      <3>1. sat \in SUBSET (DOMAIN L)
        <4>1. SameMasters(L, B)
          BY <2>2, AlikeSame, Zenon
        <4>2. QED
          BY <2>2, <4>1, Zenon DEF SameMasters
      <3>2. QED
        <4>1. SchedulerFor(r, id, m, L, sat)
          BY <2>1, <2>2, <3>1, SchedulerOnIs, Zenon DEF r
        <4>2. QED
          BY <4>1, Zenon DEF SchedulerFor
    <2>18. validateProposer(h, L, sat)
      <3>1. SchedulerOn(h.Parent, h.Signer, L, sat) = r
        BY <2>14, Zenon DEF r
      <3>2. IsTheTime(r, t)
        BY <2>5, <2>11, <2>16, <2>17, Zenon DEF IsTheTime
      <3>3. QED
        BY <2>14, <2>16, <3>1, <3>2, Zenon DEF validateProposer
    <2>19. QED
      BY <2>2, <2>15, <2>18, Zenon DEF h, s, L
  <1>2. QED
    BY <1>1, ConsensusIInvariant, PTL
=============================================================================
