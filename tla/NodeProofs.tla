----------------------------- MODULE NodeProofs -----------------------------
(***************************************************************************)
(* Whatever the tree of blocks, the workers, the failing writes and the    *)
(* crashes: the repository a restart finds is sound, the best block only   *)
(* ever gives way to a better one, and transactions of displaced blocks    *)
(* are given back.  Until a write fails or the process crashes the best    *)
(* block is the best stored and the log database follows its chain; the    *)
(* start-up after the first crash repairs the logs below it.               *)
(***************************************************************************)
EXTENDS Node, FiniteSetTheorems, TLAPS

-----------------------------------------------------------------------------
(* Chains.  Parents come first, so a set that holds genesis, and a block      *)
(* whenever it holds its parent, holds every block.                           *)

\* Induction along the tree: what genesis has, and a block has if its parent has it, all
\* blocks have.
LEMMA BlockInduction ==
  ASSUME NEW S, Genesis \in S, \A b \in Blocks \ {Genesis} : Parent[b] \in S => b \in S
  PROVE  Blocks \subseteq S
  <1> SUFFICES ASSUME Blocks \ S # {} PROVE FALSE
    OBVIOUS
  <1>1. Blocks \ S \in SUBSET (Blocks \ {Genesis})
    OBVIOUS
  <1>2. PICK b \in Blocks \ S : Parent[b] \notin Blocks \ S
    BY <1>1, NodeAssumption, Zenon
  <1>3. QED
    BY <1>2, NodeAssumption

Closed(S) == \A b \in S \ {Genesis} : Parent[b] \in S

\* The least set of blocks that holds b and the parent of every block it holds.
Ancestry(b) == { c \in Blocks : \A S \in SUBSET Blocks : b \in S /\ Closed(S) => c \in S }

\* A block's ancestry is the block and the ancestry of its parent.
LEMMA AncestryStep ==
  /\ Ancestry(Genesis) = {Genesis}
  /\ \A b \in Blocks \ {Genesis} : Ancestry(b) = {b} \cup Ancestry(Parent[b])
  <1>1. Ancestry(Genesis) = {Genesis}
    <2>1. Closed({Genesis})
      BY DEF Closed
    <2>2. QED
      BY <2>1, NodeAssumption DEF Ancestry
  <1>2. ASSUME NEW b \in Blocks \ {Genesis} PROVE Ancestry(b) = {b} \cup Ancestry(Parent[b])
    <2>1. \A S \in SUBSET Blocks : b \in S /\ Closed(S) => Parent[b] \in S
      BY DEF Closed
    <2>2. \A S \in SUBSET Blocks : Parent[b] \in S /\ Closed(S) => Closed(S \cup {b})
      BY DEF Closed
    <2>3. ASSUME NEW c \in Ancestry(b), c # b PROVE c \in Ancestry(Parent[b])
      BY <2>2, <2>3, Zenon DEF Ancestry
    <2>4. Ancestry(Parent[b]) \subseteq Ancestry(b) /\ b \in Ancestry(b)
      BY <2>1 DEF Ancestry
    <2>5. QED
      BY <2>3, <2>4
  <1>3. QED
    BY <1>1, <1>2

\* The recursive definition of Chain has a solution, and so defines a chain.
LEMMA ChainStep ==
  /\ Chain[Genesis] = {Genesis}
  /\ \A b \in Blocks \ {Genesis} : Chain[b] = {b} \cup Chain[Parent[b]]
  <1> DEFINE f == [b \in Blocks |-> Ancestry(b)]
  <1>1. f = [b \in Blocks |-> IF b = Genesis THEN {b} ELSE {b} \cup f[Parent[b]]]
    BY AncestryStep, NodeAssumption
  <1> HIDE DEF f
  <1>2. Chain = [b \in Blocks |-> IF b = Genesis THEN {b} ELSE {b} \cup Chain[Parent[b]]]
    BY <1>1, Zenon DEF Chain
  <1>3. \A b \in Blocks : Chain[b] = IF b = Genesis THEN {b} ELSE {b} \cup Chain[Parent[b]]
    BY <1>2, Zenon
  <1>4. QED
    BY <1>3, NodeAssumption, Zenon

\* The recursive function Chain computes the ancestry.
LEMMA ChainIsAncestry == \A b \in Blocks : Chain[b] = Ancestry(b)
  <1> DEFINE S == { b \in Blocks : Chain[b] = Ancestry(b) }
  <1>1. Genesis \in S
    BY ChainStep, AncestryStep, NodeAssumption, Zenon
  <1>2. \A b \in Blocks \ {Genesis} : Parent[b] \in S => b \in S
    BY ChainStep, AncestryStep, ZenonT(60)
  <1>3. Blocks \subseteq S
    <2> HIDE DEF S
    <2> QED
      BY <1>1, <1>2, BlockInduction
  <1>4. QED
    BY <1>3

\* A chain holds its block and genesis, is closed under parents and is the least such
\* set.
LEMMA ChainBasics ==
  ASSUME NEW b \in Blocks
  PROVE  /\ b \in Chain[b] /\ Chain[b] \subseteq Blocks /\ Genesis \in Chain[b]
         /\ \A c \in Chain[b] : Chain[c] \subseteq Chain[b]
         /\ \A c \in Chain[b] \ {Genesis} : Parent[c] \in Chain[b]
         /\ \A S \in SUBSET Blocks : b \in S /\ Closed(S) => Chain[b] \subseteq S
  <1>1. b \in Chain[b] /\ Chain[b] \subseteq Blocks
    BY ChainIsAncestry DEF Ancestry
  <1>2. \A S \in SUBSET Blocks : \A c \in Blocks : c \in S /\ Closed(S) => Chain[c] \subseteq S
    BY ChainIsAncestry DEF Ancestry
  <1>3. Closed(Chain[b])
    BY ChainIsAncestry, NodeAssumption DEF Ancestry, Closed
  <1>4. \A c \in Chain[b] : Chain[c] \subseteq Chain[b]
    BY <1>1, <1>2, <1>3, SMTT(60)
  <1>5. Genesis \in Chain[b]
    <2> DEFINE S == { c \in Blocks : Genesis \in Chain[c] }
    <2>1. Genesis \in S /\ \A c \in Blocks \ {Genesis} : Parent[c] \in S => c \in S
      BY ChainStep, NodeAssumption, SMTT(60)
    <2> HIDE DEF S
    <2>2. Blocks \subseteq S
      BY <2>1, BlockInduction, SMTT(60)
    <2>3. QED
      BY <2>2 DEF S
  <1>6. QED
    BY <1>1, <1>2, <1>3, <1>4, <1>5 DEF Closed

\* A block is not among its ancestors.
LEMMA NoCycle == \A b \in Blocks \ {Genesis} : b \notin Chain[Parent[b]]
  <1> SUFFICES ASSUME NEW b \in Blocks \ {Genesis}, b \in Chain[Parent[b]] PROVE FALSE
    OBVIOUS
  <1> DEFINE S == { c \in Blocks : b \in Chain[c] }
  <1>1. S \subseteq Blocks \ {Genesis} /\ Parent[b] \in S
    BY ChainStep, NodeAssumption, SMTT(60)
  <1>2. \A c \in S : Parent[c] \in S
    BY <1>1, ChainStep, NodeAssumption, SMTT(60)
  <1> HIDE DEF S
  <1>3. QED
    BY <1>1, <1>2, NodeAssumption

\* Of two blocks of a chain, one is on the chain of the other.
LEMMA ChainLinear ==
  ASSUME NEW h \in Blocks
  PROVE  \A b, c \in Chain[h] : b \in Chain[c] \/ c \in Chain[b]
  <1> DEFINE S == { d \in Blocks : \A b, c \in Chain[d] : b \in Chain[c] \/ c \in Chain[b] }
  <1>1. Genesis \in S
    BY ChainStep, NodeAssumption, SMTT(60)
  <1>2. ASSUME NEW d \in Blocks \ {Genesis}, Parent[d] \in S PROVE d \in S
    <2>1. Chain[d] = {d} \cup Chain[Parent[d]]
      BY ChainStep
    <2>2. QED
      BY <1>2, <2>1, SMTT(60)
  <1> HIDE DEF S
  <1>3. Blocks \subseteq S
    BY <1>1, <1>2, BlockInduction, SMTT(60)
  <1>4. QED
    BY <1>3, SMTT(60) DEF S

\* Numbers count along a chain.
LEMMA Numbers ==
  /\ Number(Genesis) = 0
  /\ \A b \in Blocks : Number(b) \in Nat
  /\ \A b \in Blocks \ {Genesis} : Number(b) = Number(Parent[b]) + 1
  <1>1. \A b \in Blocks : IsFiniteSet(Chain[b]) /\ Cardinality(Chain[b]) \in Nat
    BY ChainBasics, NodeAssumption, FS_Subset, FS_CardinalityType, SMTT(60)
  <1>2. Number(Genesis) = 0
    <2>1. Cardinality(Chain[Genesis]) = 1
      BY ChainStep, FS_Singleton, Zenon
    <2>2. QED
      BY <2>1 DEF Number
  <1>3. \A b \in Blocks \ {Genesis} : Cardinality(Chain[b]) = Cardinality(Chain[Parent[b]]) + 1
    <2> TAKE b \in Blocks \ {Genesis}
    <2>1. Chain[b] = Chain[Parent[b]] \cup {b} /\ b \notin Chain[Parent[b]] /\ IsFiniteSet(Chain[Parent[b]])
      BY <1>1, ChainStep, NoCycle, NodeAssumption
    <2>2. QED
      BY <2>1, FS_AddElement, ZenonT(60)
  <1>4. \A b \in Blocks : Cardinality(Chain[b]) # 0
    BY <1>1, ChainBasics, FS_EmptySet
  <1>5. QED
    BY <1>1, <1>2, <1>3, <1>4, NodeAssumption, SMTT(60) DEF Number

\* An ancestor has a lower number.
LEMMA AncestorLower ==
  ASSUME NEW b \in Blocks, NEW c \in Chain[b], c # b
  PROVE  Number(c) < Number(b)
  <1> DEFINE S == { d \in Blocks : \A e \in Chain[d] : e # d => Number(e) < Number(d) }
  <1>1. Genesis \in S
    BY ChainStep, NodeAssumption
  <1>2. ASSUME NEW d \in Blocks \ {Genesis}, Parent[d] \in S PROVE d \in S
    <2>1. Chain[d] = {d} \cup Chain[Parent[d]] /\ Number(d) = Number(Parent[d]) + 1
          /\ Number(Parent[d]) \in Nat /\ Chain[Parent[d]] \subseteq Blocks
      BY ChainStep, ChainBasics, Numbers, NodeAssumption
    <2>2. \A e \in Chain[Parent[d]] : Number(e) \in Nat /\ (e # Parent[d] => Number(e) < Number(Parent[d]))
      BY <1>2, <2>1, Numbers
    <2>3. QED
      BY <2>1, <2>2
  <1> HIDE DEF S
  <1>3. Blocks \subseteq S
    BY <1>1, <1>2, BlockInduction
  <1>4. QED
    BY <1>3 DEF S

\* On one chain, the block with the lower number is the ancestor.
LEMMA LowerIsAncestor ==
  ASSUME NEW h \in Blocks, NEW b \in Chain[h], NEW c \in Chain[h], Number(b) <= Number(c)
  PROVE  b \in Chain[c]
  <1>1. b \in Blocks /\ c \in Blocks
    BY ChainBasics
  <1>2. Number(b) \in Nat /\ Number(c) \in Nat
    BY <1>1, Numbers
  <1>3. CASE b = c
    BY <1>1, <1>3, ChainBasics
  <1>4. CASE b # c
    <2>1. c \notin Chain[b]
      BY <1>1, <1>2, <1>4, AncestorLower
    <2>2. QED
      BY <2>1, ChainLinear
  <1>5. QED
    BY <1>3, <1>4

-----------------------------------------------------------------------------
(* What survives crashes and failing writes. *)

States == {"idle", "processed", "staging", "adding", "setting", "forking"}

Typed ==
  /\ stored \subseteq Blocks /\ best \in Blocks
  /\ unsaved \subseteq Blocks /\ cached \subseteq unsaved
  /\ pc \in [Workers -> States]
  /\ blk \in [Workers -> Blocks]
  /\ prevBest \in [Workers -> Blocks]

\* commitLock excludes, and what a worker compared with is still the best block
\* while it holds the lock.
LockHeld ==
  /\ \A v, w \in Locked : v = w
  /\ \A w \in Locked : prevBest[w] = best

\* The blocks that were ever answered for.
Held == stored \cup unsaved

\* How far the block of a worker has come.
Progress ==
  \A w \in Workers :
    /\ pc[w] \in {"processed", "staging", "adding", "setting"} =>
         blk[w] # Genesis /\ Parent[blk[w]] \in Held
    /\ pc[w] \in {"adding", "setting"} => blk[w] \in states
    /\ pc[w] = "setting" => blk[w] \in stored
    /\ pc[w] \in {"staging", "adding", "setting", "forking"} => prevBest[w] \in stored

\* Blocks that are stored, or were in the caches when their write failed, have their
\* states, and so has the chain below them.
Sound ==
  /\ best \in stored
  /\ Held \subseteq states
  /\ \A b \in Held \ {Genesis} : Parent[b] \in Held

IInv == Typed /\ LockHeld /\ Progress /\ Sound

\* The types of the constants that give the tree.
LEMMA GivenTree == Genesis \in Blocks /\ Parent \in [Blocks \ {Genesis} -> Blocks]
  BY NodeAssumption

\* The chains of what is held are held.
LEMMA HeldChains ==
  ASSUME IInv, NEW b \in Held
  PROVE  b \in Blocks /\ Chain[b] \subseteq Held
  <1>1. Held \in SUBSET Blocks /\ Closed(Held)
    BY DEF IInv, Typed, Sound, Closed, Held
  <1>2. QED
    BY <1>1, ChainBasics, Zenon

\* A repository with the genesis block satisfies the invariant.
LEMMA InitIInv == Init => IInv
  BY GivenTree DEF Init, IInv, Typed, States, LockHeld, Locked, Progress, Sound, Held

\* A commit that ends without storing its block.
Ended(w) ==
  /\ Return(w)
  /\ UNCHANGED <<durable, logDBFailed, running, owed, up, crashes>>

\* What saveBlock leaves in the caches when its batch is not written.
LeftInCaches(w) ==
  /\ pc[w] = "adding"
  /\ cached' = cached \cup ({blk[w]} \ stored)
  /\ unsaved' = unsaved \cup ({blk[w]} \ stored)

\* A commit that returns an error keeps the invariant, though its block may stay in the
\* caches: its state is committed then, and its parent was known.
LEMMA EndedIInv ==
  ASSUME IInv, NEW w \in Workers, Ended(w), UNCHANGED caches \/ LeftInCaches(w)
  PROVE  IInv'
  <1> USE GivenTree DEF Ended, Return, durable, caches
  <1>0. /\ pc' = [pc EXCEPT ![w] = "idle"] /\ blk' = [blk EXCEPT ![w] = Genesis]
        /\ prevBest' = [prevBest EXCEPT ![w] = Genesis]
        /\ UNCHANGED <<stored, states, best>> /\ stored \subseteq Held /\ Held \subseteq Held'
    BY Zenon DEF Held, LeftInCaches
  <1>1. Typed'
    <2>1. blk[w] \in Blocks
      BY DEF IInv, Typed
    <2>2. unsaved' \subseteq Blocks /\ cached' \subseteq unsaved'
      BY <2>1, Zenon DEF IInv, Typed, LeftInCaches
    <2>3. QED
      BY <1>0, <2>2 DEF IInv, Typed, States
  <1>2. LockHeld'
    BY <1>0 DEF IInv, Typed, LockHeld, Locked
  <1>3. Progress'
    <2>1. \A v \in Workers : v # w => pc'[v] = pc[v] /\ blk'[v] = blk[v] /\ prevBest'[v] = prevBest[v]
      BY <1>0 DEF IInv, Typed
    <2>2. pc'[w] = "idle"
      BY <1>0 DEF IInv, Typed
    <2>3. QED
      BY <1>0, <2>1, <2>2 DEF IInv, Progress
  <1>4. Sound'
    <2>1. CASE UNCHANGED caches
      BY <1>0, <2>1, Zenon DEF IInv, Sound, Held
    <2>2. CASE LeftInCaches(w)
      <3>1. blk[w] \in states /\ Parent[blk[w]] \in Held
        BY <2>2 DEF LeftInCaches, IInv, Progress
      <3>2. Held' \subseteq Held \cup {blk[w]}
        BY <1>0, <2>2, Zenon DEF LeftInCaches, Held
      <3>3. QED
        BY <1>0, <3>1, <3>2, Zenon DEF IInv, Sound
    <2>3. QED
      BY <2>1, <2>2, Zenon
  <1>5. QED
    BY <1>1, <1>2, <1>3, <1>4 DEF IInv

\* A failing write that ends a commit keeps the invariant.
LEMMA FailIInv ==
  ASSUME IInv, NEW w \in Workers, Fail(w), UNCHANGED caches \/ LeftInCaches(w)
  PROVE  IInv'
  BY EndedIInv, Zenon DEF Fail, Ended

\* Processing a block keeps the invariant.
LEMMA ProcessIInv ==
  ASSUME IInv, NEW w \in Workers, NEW b \in Blocks, Process(w, b)
  PROVE  IInv'
  <1> USE GivenTree DEF Process, durable, caches
  <1>1. Typed'
    BY DEF IInv, Typed, States
  <1>2. LockHeld'
    BY DEF IInv, Typed, LockHeld, Locked
  <1>3. Progress'
    <2>1. Parent[b] \in Held /\ b # Genesis /\ Held' = Held
      BY Zenon DEF IInv, Typed, Known, Held
    <2>2. QED
      BY <2>1 DEF IInv, Typed, Progress
  <1>4. Sound'
    BY Zenon DEF IInv, Sound, Held
  <1>5. QED
    BY <1>1, <1>2, <1>3, <1>4, Zenon DEF IInv

\* Taking commitLock keeps the invariant: nobody else is inside.
LEMMA LockIInv ==
  ASSUME IInv, NEW w \in Workers, Lock(w)
  PROVE  IInv'
  <1> USE GivenTree DEF Lock, durable, caches
  <1>1. Typed'
    BY SMTT(60) DEF IInv, Typed, States
  <1>2. LockHeld'
    BY SMTT(60) DEF IInv, Typed, LockHeld, Locked
  <1>3. Progress'
    <2>1. best \in stored /\ Held' = Held
      BY Zenon DEF IInv, Sound, Held
    <2>2. QED
      BY <2>1 DEF IInv, Typed, Progress
  <1>4. Sound'
    BY Zenon DEF IInv, Sound, Held
  <1>5. QED
    BY <1>1, <1>2, <1>3, <1>4, Zenon DEF IInv

\* Committing the state keeps the invariant.
LEMMA CommitIInv ==
  ASSUME IInv, NEW w \in Workers, Commit(w)
  PROVE  IInv'
  <1> USE GivenTree DEF Commit, caches
  <1>0. CASE Fail(w) /\ UNCHANGED caches
    BY <1>0, FailIInv, Zenon
  <1>1. CASE ~(Fail(w) /\ UNCHANGED caches)
    <2>1. Typed'
      BY <1>1, Zenon DEF IInv, Typed, States
    <2>2. LockHeld'
      BY <1>1, Zenon DEF IInv, Typed, LockHeld, Locked
    <2>3. Progress'
      BY <1>1, Zenon DEF IInv, Typed, Progress, Held
    <2>4. Sound'
      BY <1>1, Zenon DEF IInv, Sound, Held
    <2>5. QED
      BY <2>1, <2>2, <2>3, <2>4 DEF IInv
  <1>2. QED
    BY <1>0, <1>1

\* The outcomes of AddBlock.
Adds(w) ==
  /\ stored' = stored \cup {blk[w]}
  /\ cached' = cached \ {blk[w]}
  /\ pc' = [pc EXCEPT ![w] = "setting"]
  /\ UNCHANGED <<unsaved, states, best, rows, newest, logDBFailed, blk, prevBest, writer, running, owed, up, errors, crashes>>
LosesParent(w) == Parent[blk[w]] \notin Known /\ Ended(w) /\ UNCHANGED caches /\ UNCHANGED errors
FailsToAdd(w) == Fail(w) /\ (UNCHANGED caches \/ LeftInCaches(w))

\* AddBlock stores the block, misses the parent, or fails before or after the caches
\* have the block.
LEMMA AddBlockCases ==
  ASSUME NEW w \in Workers, AddBlock(w)
  PROVE  up /\ pc[w] = "adding" /\ (Adds(w) \/ LosesParent(w) \/ FailsToAdd(w))
  BY Zenon DEF AddBlock, Adds, LosesParent, FailsToAdd, LeftInCaches, Ended, caches, durable

\* Storing the block keeps the invariant: its state is committed, its parent was known.
LEMMA AddBlockIInv ==
  ASSUME IInv, NEW w \in Workers, AddBlock(w)
  PROVE  IInv'
  <1> USE GivenTree
  <1>0. CASE LosesParent(w) \/ FailsToAdd(w)
    BY <1>0, EndedIInv, FailIInv, Zenon DEF LosesParent, FailsToAdd
  <1>1. CASE Adds(w)
    <2>0. pc[w] = "adding" /\ blk[w] \in states /\ blk[w] # Genesis /\ Parent[blk[w]] \in Held
      BY AddBlockCases DEF IInv, Progress
    <2>1. Held' = Held \cup {blk[w]}
      BY <1>1, Zenon DEF Adds, Held
    <2>2. Typed'
      BY <1>1, Zenon DEF Adds, IInv, Typed, States
    <2>3. LockHeld'
      BY <1>1, <2>0, Zenon DEF Adds, IInv, Typed, LockHeld, Locked
    <2>4. Progress'
      BY <1>1, <2>0, <2>1, ZenonT(60) DEF Adds, IInv, Typed, Progress
    <2>5. Sound'
      BY <1>1, <2>0, <2>1, Zenon DEF Adds, IInv, Sound
    <2>6. QED
      BY <2>2, <2>3, <2>4, <2>5 DEF IInv
  <1>2. QED
    BY <1>0, <1>1, AddBlockCases, Zenon

\* The one step that moves the best block.
LEMMA SetBestIInv ==
  ASSUME IInv, NEW w \in Workers, SetBest(w)
  PROVE  IInv' /\ (best' # best => BetterThan(best', best))
  <1> USE GivenTree DEF SetBest, caches
  <1>0. CASE Fail(w) /\ UNCHANGED caches
    BY <1>0, FailIInv, Zenon DEF Fail, durable
  <1>1. CASE ~(Fail(w) /\ UNCHANGED caches)
    <2>0. w \in Locked /\ prevBest[w] = best /\ Locked' = {}
      <3>1. w \in Locked /\ pc \in [Workers -> States]
        BY SMTT(60) DEF IInv, Typed, Locked
      <3>2. prevBest[w] = best /\ \A v \in Locked : v = w
        BY <3>1 DEF IInv, LockHeld
      <3>3. pc' = [pc EXCEPT ![w] = "forking"]
        BY <1>1, Zenon
      <3>4. \A v \in Workers : pc'[v] \notin {"staging", "adding", "setting"}
        BY <3>1, <3>2, <3>3, SMTT(60) DEF Locked
      <3>5. QED
        BY <3>1, <3>2, <3>4, SMTT(60) DEF Locked
    <2>1. Typed'
      BY <1>1, Zenon DEF IInv, Typed, States
    <2>2. LockHeld'
      BY <2>0 DEF LockHeld
    <2>3. Progress'
      BY <1>1, ZenonT(60) DEF IInv, Typed, Progress, Held
    <2>4. Sound'
      BY <1>1, Zenon DEF IInv, Typed, Progress, Sound, Held
    <2>5. best' # best => BetterThan(best', best)
      BY <1>1, <2>0, Zenon DEF becomeNewBest
    <2>6. QED
      BY <2>1, <2>2, <2>3, <2>4, <2>5, SMTT(60) DEF IInv
  <1>2. QED
    BY <1>0, <1>1, SMTT(60)

\* Giving back transactions, writing logs, an eviction, a crash and a restart keep the
\* invariant.
LEMMA OtherIInv ==
  ASSUME IInv, \/ \E w \in Workers : ProcessFork(w)
               \/ \E r \in running : WriteLogs(r)
               \/ \E b \in Blocks : Evict(b)
               \/ Crash
               \/ Restart
  PROVE  IInv'
  <1> USE GivenTree
  <1>1. ASSUME NEW w \in Workers, ProcessFork(w) PROVE IInv'
    <2>0. UNCHANGED <<stored, states, best, cached, unsaved>> /\ Return(w) /\ Held' = Held
      BY <1>1, Zenon DEF ProcessFork, durable, caches, Held
    <2> USE DEF Return
    <2>1. Typed'
      BY <2>0, SMTT(60) DEF IInv, Typed, States
    <2>2. LockHeld'
      BY <2>0, SMTT(60) DEF IInv, Typed, LockHeld, Locked
    <2>3. Progress'
      BY <2>0, SMTT(60) DEF IInv, Typed, Progress
    <2>4. Sound'
      BY <2>0, Zenon DEF IInv, Sound
    <2>5. QED
      BY <2>1, <2>2, <2>3, <2>4, Zenon DEF IInv
  <1>2. ASSUME UNCHANGED <<stored, states, best, unsaved, pc, blk, prevBest>>, cached' \subseteq cached PROVE IInv'
    BY <1>2, Zenon DEF IInv, Typed, LockHeld, Locked, Progress, Sound, Held
  <1>3. ASSUME NEW r \in running, WriteLogs(r) PROVE IInv'
    BY <1>2, <1>3, Zenon DEF WriteLogs, caches
  <1>4. ASSUME NEW b \in Blocks, Evict(b) PROVE IInv'
    BY <1>2, <1>4, Zenon DEF Evict, durable
  <1>5. ASSUME Crash PROVE IInv'
    <2>0. /\ UNCHANGED <<stored, states, best, unsaved>> /\ cached' = {} /\ Held' = Held
          /\ pc' = [w \in Workers |-> "idle"] /\ blk' = [w \in Workers |-> Genesis]
          /\ prevBest' = [w \in Workers |-> Genesis]
      BY <1>5, Zenon DEF Crash, durable, Held
    <2>1. Typed'
      BY <2>0 DEF IInv, Typed, States
    <2>2. LockHeld' /\ Progress'
      BY <2>0 DEF LockHeld, Locked, Progress
    <2>3. Sound'
      BY <2>0, Zenon DEF IInv, Sound
    <2>4. QED
      BY <2>1, <2>2, <2>3, Zenon DEF IInv
  <1>6. ASSUME Restart PROVE IInv'
    BY <1>2, <1>6, Zenon DEF Restart, caches
  <1>7. QED
    BY <1>1, <1>3, <1>4, <1>5, <1>6, Zenon

\* Every step keeps the invariant, and changes the best block only for a better one.
LEMMA StepIInv == IInv /\ [Next]_vars => IInv' /\ (best' # best => BetterThan(best', best))
  <1> SUFFICES ASSUME IInv, [Next]_vars PROVE IInv' /\ (best' # best => BetterThan(best', best))
    OBVIOUS
  <1>1. CASE UNCHANGED vars
    BY <1>1, Zenon DEF vars, durable, caches, IInv, Typed, LockHeld, Locked, Progress, Sound, Held
  <1>2. ASSUME NEW w \in Workers, SetBest(w)
        PROVE  IInv' /\ (best' # best => BetterThan(best', best))
    BY <1>2, SetBestIInv
  <1>3. ASSUME NEW w \in Workers,
               (\E b \in Blocks : Process(w, b)) \/ Lock(w) \/ Commit(w) \/ AddBlock(w) \/ ProcessFork(w)
        PROVE  IInv' /\ best' = best
    <2>1. IInv'
      BY <1>3, ProcessIInv, LockIInv, CommitIInv, AddBlockIInv, OtherIInv, Zenon
    <2>2. best' = best
      BY <1>3, ZenonT(60) DEF Process, Lock, Commit, AddBlock, ProcessFork, Fail, durable
    <2>3. QED
      BY <2>1, <2>2
  <1>4. ASSUME (\E r \in running : WriteLogs(r)) \/ (\E b \in Blocks : Evict(b)) \/ Crash \/ Restart
        PROVE  IInv' /\ best' = best
    <2>1. IInv'
      BY <1>4, OtherIInv, Zenon
    <2>2. best' = best
      BY <1>4, ZenonT(60) DEF WriteLogs, Evict, Crash, Restart, durable
    <2>3. QED
      BY <2>1, <2>2
  <1>5. QED
    BY <1>1, <1>2, <1>3, <1>4, Zenon DEF Next

\* At every moment, and so at every crash, the repository is sound: the best block is
\* stored; below every stored block all states are there, and all blocks but those whose
\* own write failed after the caches had taken them.
THEOREM RepositoryStaysSound == Spec => []RepositorySound
  <1>1. IInv => RepositorySound
    <2> SUFFICES ASSUME IInv PROVE RepositorySound
      OBVIOUS
    <2>1. \A b \in stored : Chain[b] \subseteq Held
      BY HeldChains, Zenon DEF Held
    <2>2. Held \subseteq states /\ best \in stored
      BY Zenon DEF IInv, Sound
    <2>3. QED
      BY <2>1, <2>2, Zenon DEF RepositorySound, Held
  <1>2. QED
    BY InitIInv, StepIInv, <1>1, PTL DEF Spec

\* The best block only moves to a better one, whoever commits.
THEOREM BestImproved == Spec => BestOnlyImproves
  <1>1. IInv /\ [Next]_vars => [best' # best => BetterThan(best', best)]_vars
    BY StepIInv
  <1>2. QED
    BY InitIInv, StepIInv, <1>1, PTL DEF Spec, BestOnlyImproves

-----------------------------------------------------------------------------
(* The types, and that a log goroutine gets a number of its own. *)

\* A new log goroutine is told apart from all that run.
LEMMA FreeIdIsFree ==
  ASSUME IsFiniteSet(running)
  PROVE  FreeId \in Nat \ {0} /\ \A r \in running : r.id # FreeId
  <1> DEFINE n == Cardinality(running)
             ids == { r.id : r \in running }
             f == [r \in running |-> r.id]
  <1>1. n \in Nat
    BY FS_CardinalityType
  <1>2. f \in Surjection(running, ids)
    BY SMTT(60) DEF Surjection
  <1>3. IsFiniteSet(ids) /\ Cardinality(ids) <= n /\ Cardinality(ids) \in Nat
    BY <1>2, FS_Surjection, FS_CardinalityType
  <1>4. IsFiniteSet(1..n + 1) /\ Cardinality(1..n + 1) = n + 1
    BY <1>1, FS_Interval, SMTT(60)
  <1>5. ~(1..n + 1 \subseteq ids)
    <2> HIDE DEF n, ids
    <2> QED
      BY <1>1, <1>3, <1>4, FS_Subset
  <1>6. \E i \in 1..n + 1 : \A r \in running : r.id # i
    BY <1>5
  <1>7. FreeId \in 1..n + 1 /\ \A r \in running : r.id # FreeId
    BY <1>6, Zenon DEF FreeId
  <1>8. QED
    BY <1>1, <1>7

Types == TypeOK /\ IsFiniteSet(running)

\* The initial state has its types.
LEMMA InitTypes == Init => Types
  <1> SUFFICES ASSUME Init PROVE Types
    OBVIOUS
  <1> USE GivenTree DEF Init
  <1>1. /\ stored \subseteq Blocks /\ states \subseteq Blocks /\ best \in Blocks
        /\ rows \subseteq HasLogs /\ newest \in Blocks /\ logDBFailed \in BOOLEAN
        /\ cached \subseteq Blocks /\ unsaved \subseteq Blocks /\ owed \subseteq Blocks /\ up \in BOOLEAN
    BY Zenon
  <1>2. /\ pc \in [Workers -> {"idle", "processed", "staging", "adding", "setting", "forking"}]
        /\ blk \in [Workers -> Blocks] /\ prevBest \in [Workers -> Blocks]
    OBVIOUS
  <1>3. writer \in [Workers -> Nat] /\ errors \in Nat /\ crashes \in Nat
    OBVIOUS
  <1>4. IsFiniteSet(running) /\ running \subseteq [id : Nat, blk : Blocks, prevBest : Blocks]
    BY FS_EmptySet
  <1>5. QED
    BY <1>1, <1>2, <1>3, <1>4 DEF Types, TypeOK

\* A return of processBlock leaves the worker's variables in their types.
LEMMA ReturnTypes ==
  ASSUME Types, NEW w \in Workers, Return(w)
  PROVE  /\ pc' \in [Workers -> {"idle", "processed", "staging", "adding", "setting", "forking"}]
         /\ blk' \in [Workers -> Blocks] /\ prevBest' \in [Workers -> Blocks] /\ writer' \in [Workers -> Nat]
  BY GivenTree DEF Types, TypeOK, Return

\* A commit that ends without storing its block keeps the types.
LEMMA EndedTypes ==
  ASSUME Types, NEW w \in Workers, Ended(w), errors' \in Nat, UNCHANGED caches \/ LeftInCaches(w)
  PROVE  Types'
  <1>1. blk[w] \in Blocks
    BY DEF Types, TypeOK
  <1>2. cached' \subseteq Blocks /\ unsaved' \subseteq Blocks
    BY <1>1, Zenon DEF Types, TypeOK, caches, LeftInCaches
  <1>3. /\ pc' \in [Workers -> {"idle", "processed", "staging", "adding", "setting", "forking"}]
        /\ blk' \in [Workers -> Blocks] /\ prevBest' \in [Workers -> Blocks] /\ writer' \in [Workers -> Nat]
    BY ReturnTypes, Zenon DEF Ended
  <1>4. QED
    BY <1>2, <1>3, Zenon DEF Types, TypeOK, Ended, durable

\* A failing write keeps the types.
LEMMA FailTypes ==
  ASSUME Types, NEW w \in Workers, Fail(w), UNCHANGED caches \/ LeftInCaches(w)
  PROVE  Types'
  <1>1. Ended(w)
    BY Zenon DEF Fail, Ended
  <1>2. errors' \in Nat
    BY SMTT(60) DEF Types, TypeOK, Fail
  <1>3. QED
    BY <1>1, <1>2, EndedTypes, Zenon

\* Every step keeps the types.
LEMMA StepTypes == Types /\ [Next]_vars => Types'
  <1> SUFFICES ASSUME Types, [Next]_vars PROVE Types'
    OBVIOUS
  <1> USE DEF Types
  <1>1. ASSUME NEW w \in Workers, NEW b \in Blocks, Process(w, b) PROVE Types'
    BY <1>1, SMTT(60) DEF TypeOK, Process, durable, caches
  <1>2. ASSUME NEW w \in Workers, Lock(w) PROVE Types'
    <2>1. FreeId \in Nat /\ blk[w] \in Blocks /\ best \in Blocks
      BY FreeIdIsFree, SMTT(60) DEF TypeOK
    <2>3. IsFiniteSet(running') /\ running' \subseteq [id : Nat, blk : Blocks, prevBest : Blocks]
      <3> DEFINE log == [id |-> FreeId, blk |-> blk[w], prevBest |-> best]
      <3>1. log \in [id : Nat, blk : Blocks, prevBest : Blocks]
        BY <2>1
      <3>2. running' = running \cup {log} \/ running' = running
        BY <1>2, Zenon DEF Lock
      <3> HIDE DEF log
      <3>3. running \subseteq [id : Nat, blk : Blocks, prevBest : Blocks] /\ IsFiniteSet(running)
        BY Zenon DEF TypeOK
      <3>4. IsFiniteSet(running \cup {log})
        BY <3>3, FS_AddElement, Zenon
      <3>5. QED
        BY <3>1, <3>2, <3>3, <3>4, Zenon
    <2>4. writer' \in [Workers -> Nat]
      BY <1>2, <2>1, SMTT(60) DEF TypeOK, Lock
    <2>5. QED
      BY <1>2, <2>3, <2>4, SMTT(60) DEF TypeOK, Lock, durable, caches
  <1>3. ASSUME NEW w \in Workers, Commit(w) \/ AddBlock(w) \/ SetBest(w) PROVE Types'
    <2>1. CASE FailsToAdd(w)
      BY <2>1, FailTypes, Zenon DEF FailsToAdd
    <2>2. CASE LosesParent(w)
      <3>1. errors' \in Nat
        BY <2>2 DEF TypeOK, LosesParent
      <3>2. QED
        BY <2>2, <3>1, EndedTypes, Zenon DEF LosesParent
    <2>3. CASE ~FailsToAdd(w) /\ ~LosesParent(w)
      <3>1. blk[w] \in Blocks /\ best \in Blocks
        BY SMTT(60) DEF TypeOK
      <3>2. Chain[blk[w]] \subseteq Blocks /\ Chain[best] \subseteq Blocks
        BY <3>1, ChainBasics, SMTT(60)
      <3>3. CASE Commit(w)
        BY <2>3, <3>1, <3>3, ZenonT(60) DEF TypeOK, Commit, FailsToAdd, caches
      <3>4. CASE AddBlock(w)
        <4>1. Adds(w)
          BY <2>3, <3>4, AddBlockCases, Zenon
        <4>2. QED
          BY <3>1, <4>1, ZenonT(60) DEF TypeOK, Adds
      <3>5. CASE SetBest(w)
        <4>1. owed' \subseteq Blocks /\ best' \in Blocks
          BY <2>3, <3>1, <3>2, <3>5, Zenon DEF SetBest, FailsToAdd, TypeOK
        <4>2. writer' = [writer EXCEPT ![w] = 0] /\ pc' = [pc EXCEPT ![w] = "forking"]
              /\ UNCHANGED <<cached, unsaved, stored, states, rows, newest, logDBFailed, blk, prevBest, running, up, errors, crashes>>
          BY <2>3, <3>5, Zenon DEF SetBest, FailsToAdd, caches
        <4>3. QED
          BY <4>1, <4>2, ZenonT(60) DEF TypeOK
      <3>6. QED
        BY <1>3, <3>3, <3>4, <3>5, Zenon
    <2>4. QED
      BY <2>1, <2>2, <2>3, Zenon
  <1>4. ASSUME NEW w \in Workers, ProcessFork(w) PROVE Types'
    <2>1. owed' \subseteq Blocks
      BY <1>4, Zenon DEF TypeOK, ProcessFork
    <2>2. QED
      BY <1>4, <2>1, ReturnTypes, ZenonT(60) DEF TypeOK, ProcessFork, durable, caches
  <1>5. ASSUME NEW r \in running, WriteLogs(r) PROVE Types'
    <2>1. IsFiniteSet(running')
      BY <1>5, FS_RemoveElement, SMTT(60) DEF WriteLogs
    <2>2. rows' \subseteq HasLogs /\ newest' \in Blocks /\ logDBFailed' \in BOOLEAN /\ errors' \in Nat
      <3>1. r.blk \in Blocks
        BY DEF TypeOK
      <3>2. newest' \in Blocks /\ logDBFailed' \in BOOLEAN
        BY <1>5, <3>1, ZenonT(60) DEF TypeOK, WriteLogs
      <3>3. rows' \subseteq HasLogs
        BY <1>5, ZenonT(60) DEF TypeOK, WriteLogs
      <3>4. errors' = errors \/ errors' = errors + 1
        BY <1>5, ZenonT(60) DEF WriteLogs
      <3>5. errors' \in Nat
        BY <3>4, SMTT(60) DEF TypeOK
      <3>6. QED
        BY <3>2, <3>3, <3>5, SMTT(60)
    <2>3. QED
      BY <1>5, <2>1, <2>2, ZenonT(60) DEF TypeOK, WriteLogs, caches
  <1>6. ASSUME Crash PROVE Types'
    <2>2. QED
      <3>1. /\ pc' \in [Workers -> {"idle", "processed", "staging", "adding", "setting", "forking"}]
            /\ blk' \in [Workers -> Blocks] /\ prevBest' \in [Workers -> Blocks]
        BY <1>6, GivenTree, SMTT(60) DEF Crash
      <3>2. writer' \in [Workers -> Nat] /\ crashes' \in Nat
        BY <1>6, SMTT(60) DEF Crash, TypeOK
      <3>3. IsFiniteSet(running') /\ running' \subseteq [id : Nat, blk : Blocks, prevBest : Blocks]
        BY <1>6, FS_EmptySet, SMTT(60) DEF Crash
      <3>4. QED
        BY <1>6, <3>1, <3>2, <3>3, ZenonT(60) DEF TypeOK, Crash, durable
  <1>7. ASSUME Restart PROVE Types'
    BY <1>7, ZenonT(60) DEF TypeOK, Restart, caches
  <1>8. CASE UNCHANGED vars
    BY <1>8, ZenonT(60) DEF TypeOK, vars, durable, caches
  <1>9. ASSUME NEW b \in Blocks, Evict(b) PROVE Types'
    BY <1>9, ZenonT(60) DEF TypeOK, Evict, durable
  <1>10. QED
    BY <1>1, <1>2, <1>3, <1>4, <1>5, <1>6, <1>7, <1>8, <1>9, Zenon DEF Next

-----------------------------------------------------------------------------
(* Blocks that leave the best chain. *)

\* At first no block is displaced, so nothing is to be given back.
LEMMA InitSide == Init => SideTxsOffered
  BY Zenon DEF Init, SideTxsOffered

\* processFork of w is still to give back the transactions of b.
ToOffer(w, b) == pc[w] = "forking" /\ becomeNewBest(w) /\ b \in Exclude(prevBest[w], blk[w])

\* Every step gives back, or is about to give back, the transactions of displaced
\* blocks.
LEMMA StepSide ==
  ASSUME IInv, SideTxsOffered, [Next]_vars
  PROVE  SideTxsOffered'
  <1>0. pc \in [Workers -> States] /\ blk \in [Workers -> Blocks] /\ prevBest \in [Workers -> Blocks]
    BY SMTT(60) DEF IInv, Typed
  <1>a. \A b \in owed : Chain[b] \cap unsaved = {} => \E w \in Workers : ToOffer(w, b)
    BY Zenon DEF SideTxsOffered, ToOffer
  <1>b. ASSUME \A b \in owed' : Chain[b] \cap unsaved' = {} => \E w \in Workers : ToOffer(w, b)'
        PROVE  SideTxsOffered'
    BY <1>b, Zenon DEF SideTxsOffered, ToOffer
  <1>1. ASSUME NEW w \in Workers, SetBest(w), ~(Fail(w) /\ UNCHANGED caches) PROVE SideTxsOffered'
    <2>1. pc[w] = "setting" /\ prevBest[w] = best
      BY <1>1, Zenon DEF SetBest, IInv, LockHeld, Locked
    <2>2. /\ pc' = [pc EXCEPT ![w] = "forking"] /\ UNCHANGED <<blk, prevBest, unsaved>>
          /\ best' = IF becomeNewBest(w) THEN blk[w] ELSE best
          /\ owed' = (owed \cup Chain[best]) \ Chain[best']
      BY <1>1, Zenon DEF SetBest, caches
    <2> SUFFICES ASSUME NEW b \in owed', Chain[b] \cap unsaved = {}
                 PROVE  \E v \in Workers : ToOffer(v, b)'
      BY <1>b, <2>2, Zenon
    <2>3. CASE b \in Chain[best]
      <3>1. becomeNewBest(w) /\ b \in Exclude(prevBest[w], blk[w])
        BY <2>1, <2>2, <2>3, Zenon DEF Exclude
      <3>2. becomeNewBest(w)' /\ pc'[w] = "forking"
        BY <1>0, <2>2, <3>1, SMTT(60) DEF becomeNewBest
      <3>3. QED
        BY <2>2, <3>1, <3>2, Zenon DEF ToOffer
    <2>4. CASE b \notin Chain[best]
      <3>1. b \in owed
        BY <2>2, <2>4, Zenon
      <3>2. PICK v \in Workers : ToOffer(v, b)
        BY <1>a, <3>1, Zenon
      <3>3. v # w
        BY <2>1, <3>2, ZenonT(60) DEF ToOffer
      <3>4. pc'[v] = "forking" /\ becomeNewBest(v)'
        BY <1>0, <2>2, <3>2, <3>3, SMTT(60) DEF becomeNewBest, ToOffer
      <3>5. QED
        BY <2>2, <3>2, <3>4, Zenon DEF ToOffer
    <2>5. QED
      BY <2>3, <2>4, Zenon
  <1>2. ASSUME NEW w \in Workers, ProcessFork(w) PROVE SideTxsOffered'
    <2> DEFINE side == Exclude(prevBest[w], blk[w])
    <2>1. /\ pc' = [pc EXCEPT ![w] = "idle"] /\ blk' = [blk EXCEPT ![w] = Genesis]
          /\ prevBest' = [prevBest EXCEPT ![w] = Genesis] /\ UNCHANGED unsaved /\ owed' \subseteq owed
      BY <1>2, Zenon DEF ProcessFork, Return, durable, caches
    <2> SUFFICES ASSUME NEW b \in owed', Chain[b] \cap unsaved = {}
                 PROVE  \E v \in Workers : ToOffer(v, b)'
      BY <1>b, <2>1, Zenon
    <2>2. PICK v \in Workers : ToOffer(v, b)
      BY <1>a, <2>1, Zenon
    <2>3. v # w
      <3> SUFFICES ASSUME ToOffer(w, b) PROVE FALSE
        BY <2>2, Zenon
      <3>1. PICK S \in Readable : owed' = owed \ { c \in side : side \cap Chain[c] \subseteq S }
        BY <1>2, Zenon DEF ProcessFork, ToOffer
      <3>2. b \in Chain[prevBest[w]] /\ prevBest[w] \in Held
        BY Zenon DEF ToOffer, Exclude, IInv, Progress, Held
      <3>3. Chain[prevBest[w]] \subseteq Held /\ prevBest[w] \in Blocks
        BY <3>2, HeldChains, Zenon
      <3>4. Chain[b] \subseteq stored
        BY <3>2, <3>3, ChainBasics, Zenon DEF Held
      <3>5. stored \subseteq S
        BY <3>1, Zenon DEF Readable
      <3>6. b \in side
        BY Zenon DEF ToOffer
      <3>7. QED
        BY <3>1, <3>4, <3>5, <3>6, Zenon
    <2>4. pc'[v] = pc[v] /\ blk'[v] = blk[v] /\ prevBest'[v] = prevBest[v]
      BY <1>0, <2>1, <2>3, ZenonT(60)
    <2>5. QED
      BY <2>2, <2>4, Zenon DEF becomeNewBest, ToOffer
  <1>3. ASSUME Crash PROVE SideTxsOffered'
    BY <1>3, Zenon DEF Crash, SideTxsOffered
  <1>4. ASSUME UNCHANGED owed, unsaved \subseteq unsaved',
               \A v \in Workers : pc[v] = "forking" =>
                  pc'[v] = pc[v] /\ blk'[v] = blk[v] /\ prevBest'[v] = prevBest[v]
        PROVE  SideTxsOffered'
    <2>1. \A b : Chain[b] \cap unsaved' = {} => Chain[b] \cap unsaved = {}
      BY <1>4, Zenon
    <2>2. \A b : \A v \in Workers : ToOffer(v, b) => ToOffer(v, b)'
      BY <1>4, Zenon DEF ToOffer, becomeNewBest
    <2>3. QED
      BY <1>a, <1>b, <1>4, <2>1, <2>2, Zenon
  <1>5. ASSUME NEW w \in Workers, pc[w] # "forking", UNCHANGED owed, unsaved \subseteq unsaved',
               \E p, b, q : /\ pc' = [pc EXCEPT ![w] = p]
                            /\ blk' = blk \/ blk' = [blk EXCEPT ![w] = b]
                            /\ prevBest' = prevBest \/ prevBest' = [prevBest EXCEPT ![w] = q]
        PROVE  SideTxsOffered'
    <2>1. \A v \in Workers : v # w => pc'[v] = pc[v] /\ blk'[v] = blk[v] /\ prevBest'[v] = prevBest[v]
      BY <1>0, <1>5, SMTT(60)
    <2>2. QED
      BY <1>4, <1>5, <2>1, Zenon
  <1>6. ASSUME NEW w \in Workers, Ended(w), pc[w] # "forking", UNCHANGED caches \/ LeftInCaches(w)
        PROVE  SideTxsOffered'
    BY <1>5, <1>6, Zenon DEF Ended, Return, caches, LeftInCaches
  <1>7. ASSUME NEW w \in Workers, NEW b \in Blocks, Process(w, b) PROVE SideTxsOffered'
    BY <1>5, <1>7, Zenon DEF Process, caches
  <1>8. ASSUME NEW w \in Workers, Lock(w) PROVE SideTxsOffered'
    BY <1>5, <1>8, Zenon DEF Lock, caches
  <1>9. ASSUME NEW w \in Workers, Commit(w) PROVE SideTxsOffered'
    BY <1>5, <1>6, <1>9, Zenon DEF Commit, Fail, Ended, caches
  <1>10. ASSUME NEW w \in Workers, AddBlock(w) PROVE SideTxsOffered'
    <2>1. CASE Adds(w)
      BY <1>5, <1>10, <2>1, AddBlockCases, Zenon DEF Adds
    <2>2. CASE LosesParent(w) \/ FailsToAdd(w)
      BY <1>6, <1>10, <2>2, AddBlockCases, Zenon DEF LosesParent, FailsToAdd, Fail, Ended
    <2>3. QED
      BY <1>10, <2>1, <2>2, AddBlockCases, Zenon
  <1>11. ASSUME NEW w \in Workers, SetBest(w) PROVE SideTxsOffered'
    BY <1>1, <1>6, <1>11, Zenon DEF SetBest, Fail, Ended
  <1>12. ASSUME (\E r \in running : WriteLogs(r)) \/ (\E b \in Blocks : Evict(b)) \/ Restart PROVE SideTxsOffered'
    BY <1>4, <1>12, Zenon DEF WriteLogs, Evict, Restart, caches
  <1>13. CASE UNCHANGED vars
    BY <1>4, <1>13, Zenon DEF vars, caches
  <1>14. QED
    BY <1>2, <1>3, <1>7, <1>8, <1>9, <1>10, <1>11, <1>12, <1>13, Zenon DEF Next

\* However many workers commit, fork and fail, the transactions of a block that left
\* the best chain were given back to the pool or are about to be.
THEOREM SideTxsStayOffered == Spec => []SideTxsOffered
  <1>1. IInv /\ SideTxsOffered /\ [Next]_vars => SideTxsOffered'
    BY StepSide, SMTT(60)
  <1>2. QED
    BY InitIInv, StepIInv, InitSide, <1>1, PTL DEF Spec

-----------------------------------------------------------------------------
(* The best block and the log database while nothing goes wrong. *)

\* BetterThan is a strict order of blocks.
LEMMA BetterOrder ==
  ASSUME NEW b \in Blocks, NEW c \in Blocks, NEW d \in Blocks
  PROVE  ~BetterThan(b, b) /\ (BetterThan(b, c) /\ BetterThan(c, d) => BetterThan(b, d))
  <1>1. /\ Score[b] \in Nat /\ Score[c] \in Nat /\ Score[d] \in Nat
        /\ Rank[b] \in Nat /\ Rank[c] \in Nat /\ Rank[d] \in Nat
    BY NodeAssumption, SMTT(60)
  <1>2. QED
    BY <1>1, SMTT(60) DEF BetterThan

\* The rows one SQL transaction of writeLogs leaves, that writes the blocks diff.
RowsAfter(old, diff) ==
  { b \in old : \A d \in diff : Number(b) < Number(d) } \cup (diff \cap HasLogs)

\* One SQL transaction of writeLogs takes the database from the logs of the best
\* chain to the logs of the new block's chain.
LEMMA RowsMove ==
  ASSUME NEW h \in Blocks, NEW b \in Blocks \ {Genesis}, b \notin Chain[h],
         NEW diff, diff = Exclude(Parent[b], h) \cup {b}
  PROVE  RowsAfter(Chain[h] \cap HasLogs, diff) = Chain[b] \cap HasLogs
  <1>0. /\ Chain[b] = {b} \cup Chain[Parent[b]] /\ Chain[b] \subseteq Blocks /\ Chain[h] \subseteq Blocks
        /\ Genesis \in Chain[h]
    BY ChainStep, ChainBasics, SMTT(60)
  <1>1. diff = Chain[b] \ Chain[h]
    BY <1>0, SMTT(60) DEF Exclude
  <1>2. ASSUME NEW c \in Chain[h] \cap Chain[b], NEW d \in diff PROVE Number(c) < Number(d)
    <2>1. d \in Chain[b] /\ d \notin Chain[h] /\ c \in Blocks /\ d \in Blocks
      BY <1>0, <1>1, SMTT(60)
    <2>2. d \notin Chain[c] /\ c # d
      BY <2>1, ChainBasics, SMTT(60)
    <2>3. c \in Chain[d]
      BY <2>1, <2>2, ChainLinear, SMTT(60)
    <2>4. QED
      BY <2>1, <2>2, <2>3, AncestorLower, ZenonT(60)
  <1>3. ASSUME NEW c \in Chain[h], \A d \in diff : Number(c) < Number(d) PROVE c \in Chain[b]
    <2>1. diff \in SUBSET (Blocks \ {Genesis}) /\ diff # {}
      BY <1>0, <1>1, ChainBasics, ZenonT(60)
    <2>2. PICK d \in diff : Parent[d] \notin diff
      BY <2>1, NodeAssumption, SMTT(60)
    <2>3. d \in Blocks \ {Genesis} /\ d \in Chain[b] /\ Parent[d] \in Blocks
      BY <1>1, <2>1, GivenTree, SMTT(60)
    <2>4. Parent[d] \in Chain[b]
      BY <2>3, ChainBasics, SMTT(60)
    <2>5. Parent[d] \in Chain[h]
      BY <1>1, <2>2, <2>4, SMTT(60)
    <2>6. Number(c) <= Number(Parent[d])
      <3>1. Number(c) \in Nat /\ Number(Parent[d]) \in Nat /\ Number(d) = Number(Parent[d]) + 1
        BY <1>0, <2>3, Numbers, SMTT(60)
      <3>2. Number(c) < Number(d)
        BY <1>3, SMTT(60)
      <3>3. QED
        BY <3>1, <3>2, SMTT(60)
    <2>7. c \in Chain[Parent[d]]
      BY <2>5, <2>6, LowerIsAncestor, SMTT(60)
    <2>8. QED
      BY <2>4, <2>7, ChainBasics, SMTT(60)
  <1>4. QED
    BY <1>1, <1>2, <1>3, Zenon DEF RowsAfter

\* The log database holds the logs of the chain of h, and nobody writes to it.
Logged(h) == running = {} /\ rows = Chain[h] \cap HasLogs /\ newest = h

\* The goroutine of w, and no other, is about to write.
Writing(w) ==
  /\ running = {[id |-> writer[w], blk |-> blk[w], prevBest |-> best]}
  /\ rows = Chain[best] \cap HasLogs /\ newest = best

\* Until a crash or a failing write: a stored block that is better than the best is
\* about to replace it, and the log database follows the best chain or is one
\* block ahead of it.
Calm ==
  errors + crashes = 0 =>
    /\ up /\ ~logDBFailed
    /\ \A b \in stored : BetterThan(b, best) => \E w \in Workers : pc[w] = "setting" /\ b = blk[w]
    /\ Locked = {} => Logged(best)
    /\ \A w \in Locked :
         /\ BetterThan(blk[w], best) => blk[w] \notin Chain[best] /\ (Writing(w) \/ Logged(blk[w]))
         /\ ~BetterThan(blk[w], best) => Logged(best)

\* What the first crash leaves in the log database, when no failing write preceded
\* it: the logs of one chain, whose head it notes.
Stopped == errors = 0 /\ crashes = 1 /\ ~up => rows = Chain[newest] \cap HasLogs

\* Only failing writes leave blocks to the caches.
Spared == errors = 0 => unsaved = {}

\* Nothing is left to the caches before the first failing write.
LEMMA StepSpared == Types /\ Spared /\ [Next]_vars => Spared'
  <1> SUFFICES ASSUME Types, Spared, [Next]_vars PROVE Spared'
    OBVIOUS
  <1>1. ASSUME errors' = errors, unsaved' = unsaved PROVE Spared'
    BY <1>1, Zenon DEF Spared
  <1>2. ASSUME errors' = errors + 1 PROVE Spared'
    <2>1. errors' # 0
      BY <1>2 DEF Types, TypeOK
    <2>2. QED
      BY <2>1, Zenon DEF Spared
  <1>3. (errors' = errors /\ unsaved' = unsaved) \/ errors' = errors + 1
    <2>1. ASSUME NEW w \in Workers, NEW b \in Blocks, Process(w, b) PROVE errors' = errors /\ unsaved' = unsaved
      BY <2>1, Zenon DEF Process, caches
    <2>2. ASSUME NEW w \in Workers, Lock(w) \/ ProcessFork(w) PROVE errors' = errors /\ unsaved' = unsaved
      BY <2>2, Zenon DEF Lock, ProcessFork, caches
    <2>3. ASSUME NEW w \in Workers, AddBlock(w) PROVE (errors' = errors /\ unsaved' = unsaved) \/ errors' = errors + 1
      BY <2>3, AddBlockCases, Zenon DEF Adds, LosesParent, FailsToAdd, Fail, caches
    <2>4. ASSUME NEW w \in Workers, Commit(w) \/ SetBest(w) PROVE (errors' = errors /\ unsaved' = unsaved) \/ errors' = errors + 1
      BY <2>4, Zenon DEF Commit, SetBest, Fail, caches
    <2>5. ASSUME NEW x \in running, WriteLogs(x) PROVE (errors' = errors /\ unsaved' = unsaved) \/ errors' = errors + 1
      BY <2>5, Zenon DEF WriteLogs, caches
    <2>6. ASSUME (\E b \in Blocks : Evict(b)) \/ Crash \/ Restart PROVE errors' = errors /\ unsaved' = unsaved
      BY <2>6, Zenon DEF Evict, Crash, Restart, caches
    <2>7. CASE UNCHANGED vars
      BY <2>7, Zenon DEF vars, caches
    <2>8. QED
      BY <2>1, <2>2, <2>3, <2>4, <2>5, <2>6, <2>7, Zenon DEF Next
  <1>4. QED
    BY <1>1, <1>2, <1>3, Zenon

\* So until then all that is held is stored, with the chains of all stored blocks.
LEMMA AllStored ==
  ASSUME Types, IInv, Spared, errors + crashes = 0
  PROVE  errors = 0 /\ Held = stored /\ \A b \in stored : b \in Blocks /\ Chain[b] \subseteq stored
  <1>1. errors = 0
    BY DEF Types, TypeOK
  <1>2. Held = stored
    BY <1>1, Zenon DEF Spared, Held
  <1>3. QED
    BY <1>1, <1>2, HeldChains, Zenon

\* The initial state satisfies what holds before the first failing write or crash.
LEMMA InitCalm == Init => Calm /\ Stopped /\ Spared
  <1> SUFFICES ASSUME Init PROVE Calm /\ Stopped /\ Spared
    OBVIOUS
  <1>1. Chain[Genesis] \cap HasLogs = {}
    BY ChainStep, NodeAssumption, SMTT(60)
  <1>2. Locked = {}
    BY SMTT(60) DEF Init, Locked
  <1>3. \A b \in stored : ~BetterThan(b, best)
    BY BetterOrder, GivenTree, SMTT(60) DEF Init
  <1>4. QED
    BY <1>1, <1>2, <1>3, Zenon DEF Init, Calm, Stopped, Spared, Logged

\* A step of a worker that is not on the log database's path: what the workers under
\* the lock hold, and what the log database holds, stays.
LEMMA QuietStep ==
  ASSUME Calm,
         UNCHANGED <<stored, best, rows, newest, logDBFailed, running, up, errors, crashes>>,
         Locked' = Locked,
         \A v \in Workers : pc[v] = "setting" => pc'[v] = "setting",
         \A v \in Locked : v \in Workers /\ blk'[v] = blk[v] /\ writer'[v] = writer[v]
  PROVE  Calm'
  <1> SUFFICES ASSUME errors + crashes = 0
               PROVE  /\ up' /\ ~logDBFailed'
                      /\ \A b \in stored' : BetterThan(b, best') => \E w \in Workers : pc'[w] = "setting" /\ b = blk'[w]
                      /\ Locked' = {} => Logged(best)'
                      /\ \A w \in Locked' :
                           /\ BetterThan(blk'[w], best') => blk'[w] \notin Chain[best'] /\ (Writing(w)' \/ Logged(blk[w])')
                           /\ ~BetterThan(blk'[w], best') => Logged(best)'
    BY Zenon DEF Calm
  <1>1. \A v \in Workers : pc[v] = "setting" => v \in Locked
    BY DEF Locked
  <1>2. Logged(best)' <=> Logged(best)
    BY DEF Logged
  <1>3. \A w \in Locked : (Writing(w)' <=> Writing(w)) /\ (Logged(blk[w])' <=> Logged(blk[w]))
    BY Zenon DEF Logged, Writing
  <1>4. QED
    BY <1>1, <1>2, <1>3, ZenonT(60) DEF Calm

\* Processing a block and giving back transactions keep the calm.
LEMMA ProcessCalm ==
  ASSUME Types, Calm, NEW w \in Workers, (\E b \in Blocks : Process(w, b)) \/ ProcessFork(w)
  PROVE  Calm'
  <1>0. pc \in [Workers -> States] /\ blk \in [Workers -> Blocks] /\ writer \in [Workers -> Nat]
    BY DEF Types, TypeOK, States
  <1>1. UNCHANGED <<stored, best, rows, newest, logDBFailed, running, up, errors, crashes>>
    BY Zenon DEF Process, ProcessFork, durable
  <1>2. pc[w] \in {"idle", "forking"} /\ \E p \in {"idle", "processed"} : pc' = [pc EXCEPT ![w] = p]
    BY Zenon DEF Process, ProcessFork, Return
  <1>3. \A v \in Workers : v # w => pc'[v] = pc[v] /\ blk'[v] = blk[v] /\ writer'[v] = writer[v]
    BY <1>0, ZenonT(60) DEF Process, ProcessFork, Return
  <1>4. w \notin Locked /\ w \notin Locked' /\ pc[w] # "setting"
    BY <1>0, <1>2, SMTT(60) DEF Locked
  <1>5. Locked' = Locked
    BY <1>3, <1>4, ZenonT(60) DEF Locked
  <1>6. \A v \in Locked : v \in Workers /\ v # w
    BY <1>4, ZenonT(60) DEF Locked
  <1>7. QED
    BY <1>1, <1>3, <1>4, <1>5, <1>6, QuietStep, ZenonT(60)

\* Committing the state keeps the calm.
LEMMA CommitCalm ==
  ASSUME Types, Calm, NEW w \in Workers, Commit(w), ~(Fail(w) /\ UNCHANGED caches)
  PROVE  Calm'
  <1>0. pc \in [Workers -> States]
    BY DEF Types, TypeOK, States
  <1>1. UNCHANGED <<stored, best, rows, newest, logDBFailed, running, up, errors, crashes, blk, writer>>
    BY Zenon DEF Commit
  <1>2. pc[w] = "staging" /\ pc' = [pc EXCEPT ![w] = "adding"]
    BY Zenon DEF Commit
  <1>3. Locked' = Locked /\ \A v \in Workers : pc[v] = "setting" => pc'[v] = "setting"
    BY <1>0, <1>2, SMTT(60) DEF Locked
  <1>4. \A v \in Locked : v \in Workers
    BY DEF Locked
  <1>5. QED
    BY <1>1, <1>3, <1>4, QuietStep, ZenonT(60)

\* After a failing write nothing is claimed any more.
LEMMA FailCalm ==
  ASSUME Types, NEW w \in Workers, Fail(w)
  PROVE  Calm' /\ (up => Stopped')
  <1>1. errors \in Nat /\ crashes \in Nat /\ errors' = errors + 1 /\ crashes' = crashes
    BY SMTT(60) DEF Fail, Types, TypeOK
  <1>2. errors + 1 + crashes # 0 /\ errors + 1 # 0
    BY <1>1
  <1>3. errors' + crashes' # 0 /\ errors' # 0
    BY <1>1, <1>2, Zenon
  <1>4. QED
    BY <1>3, Zenon DEF Calm, Stopped

\* A block about to be committed that is better than the best one is not on its chain.
LEMMA LockCalm ==
  ASSUME Types, IInv, Spared, Calm, NEW w \in Workers, Lock(w)
  PROVE  Calm'
  <1> SUFFICES ASSUME errors' + crashes' = 0 PROVE Calm'
    BY ZenonT(60) DEF Calm
  <1>0. pc \in [Workers -> States] /\ blk \in [Workers -> Blocks] /\ writer \in [Workers -> Nat]
        /\ prevBest \in [Workers -> Blocks] /\ best \in Blocks
    BY DEF Types, TypeOK, States
  <1>1. /\ UNCHANGED <<stored, best, rows, newest, logDBFailed, up, errors, crashes, blk>>
        /\ pc' = [pc EXCEPT ![w] = "staging"] /\ pc[w] = "processed" /\ Locked = {}
    BY Zenon DEF Lock, durable
  <1>2. /\ up /\ ~logDBFailed /\ Logged(best)
        /\ \A b \in stored : ~BetterThan(b, best)
    BY <1>1, ZenonT(60) DEF Calm, Locked
  <1>3. Locked' = {w}
    BY <1>0, <1>1, SMTT(60) DEF Locked
  <1>4. Chain[best] \subseteq stored
    <2>1. best \in stored /\ errors + crashes = 0
      BY <1>1, Zenon DEF IInv, Sound
    <2>2. QED
      BY <2>1, AllStored, Zenon
  <1>5. CASE BetterThan(blk[w], best)
    <2>1. blk[w] \notin Chain[best]
      BY <1>2, <1>4, <1>5, ZenonT(60)
    <2>2. writer' = [writer EXCEPT ![w] = FreeId] /\ running' = running \cup {[id |-> FreeId, blk |-> blk[w], prevBest |-> best]}
      BY <1>2, <1>5, Zenon DEF Lock
    <2>3. writer'[w] = FreeId
      BY <1>0, <2>2, SMTT(60)
    <2>4. Writing(w)'
      BY <1>1, <1>2, <2>2, <2>3, ZenonT(60) DEF Writing, Logged
    <2>5. QED
      BY <1>1, <1>2, <1>3, <1>5, <2>1, <2>4, Zenon DEF Calm
  <1>6. CASE ~BetterThan(blk[w], best)
    <2>1. running' = running
      BY <1>6, Zenon DEF Lock
    <2>2. Logged(best)'
      BY <1>1, <1>2, <2>1, SMTT(60) DEF Logged
    <2>3. QED
      BY <1>1, <1>2, <1>3, <1>6, <2>2, Zenon DEF Calm
  <1>7. QED
    BY <1>5, <1>6, SMTT(60)

\* Storing a block keeps the calm: a better block is in the hands of its worker.
LEMMA AddBlockCalm ==
  ASSUME Types, IInv, Calm, NEW w \in Workers, AddBlock(w), Adds(w)
  PROVE  Calm'
  <1> SUFFICES ASSUME errors' + crashes' = 0 PROVE Calm'
    BY ZenonT(60) DEF Calm
  <1>0. pc \in [Workers -> States]
    BY DEF Types, TypeOK, States
  <1>1. /\ UNCHANGED <<best, rows, newest, logDBFailed, running, up, errors, crashes, blk, writer>>
        /\ stored' = stored \cup {blk[w]}
        /\ pc' = [pc EXCEPT ![w] = "setting"] /\ pc[w] = "adding"
    BY AddBlockCases, Zenon DEF Adds
  <1>2. Locked' = Locked /\ pc'[w] = "setting" /\ \A v \in Workers : pc[v] = "setting" => pc'[v] = "setting"
    BY <1>0, <1>1, SMTT(60) DEF Locked
  <1>3. \A b \in stored' : BetterThan(b, best) => \E v \in Workers : pc'[v] = "setting" /\ b = blk[v]
    BY <1>1, <1>2, Zenon DEF Calm
  <1>4. (Logged(best)' <=> Logged(best))
        /\ \A v \in Locked : (Writing(v)' <=> Writing(v)) /\ (Logged(blk[v])' <=> Logged(blk[v]))
    BY <1>1, Zenon DEF Logged, Writing
  <1>5. QED
    BY <1>1, <1>2, <1>3, <1>4, ZenonT(60) DEF Calm

\* No parent is missing before the first failing write.
LEMMA NoneMissing ==
  ASSUME Types, IInv, Spared, NEW w \in Workers, AddBlock(w), LosesParent(w)
  PROVE  errors + crashes # 0
  <1> SUFFICES ASSUME errors + crashes = 0 PROVE FALSE
    OBVIOUS
  <1>1. Parent[blk[w]] \in Held
    BY AddBlockCases DEF IInv, Progress
  <1>2. QED
    BY <1>1, AllStored, Zenon DEF LosesParent, Known

\* Setting the best block, after the log goroutine has ended, keeps the calm.
LEMMA SetBestCalm ==
  ASSUME Types, IInv, Calm, NEW w \in Workers, SetBest(w), ~(Fail(w) /\ UNCHANGED caches)
  PROVE  Calm'
  <1> SUFFICES ASSUME errors' + crashes' = 0 PROVE Calm'
    BY ZenonT(60) DEF Calm
  <1>0. pc \in [Workers -> States] /\ blk[w] \in Blocks /\ best \in Blocks /\ stored \subseteq Blocks
    BY DEF Types, TypeOK, States
  <1>1. /\ UNCHANGED <<stored, rows, newest, logDBFailed, running, up, errors, crashes, blk>>
        /\ pc' = [pc EXCEPT ![w] = "forking"] /\ pc[w] = "setting"
        /\ best' = IF becomeNewBest(w) THEN blk[w] ELSE best
        /\ becomeNewBest(w) => \A r \in running : r.id # writer[w]
    BY Zenon DEF SetBest
  <1>2. w \in Locked /\ prevBest[w] = best /\ \A v \in Locked : v = w
    BY <1>1, Zenon DEF IInv, LockHeld, Locked
  <1>3. Locked' = {}
    <2>1. \A v \in Workers : pc'[v] = IF v = w THEN "forking" ELSE pc[v]
      BY <1>0, <1>1, Zenon
    <2>2. \A v \in Workers : pc'[v] \notin {"staging", "adding", "setting"}
      <3> TAKE v \in Workers
      <3>1. CASE v = w
        BY <2>1, <3>1
      <3>2. CASE v # w
        BY <1>2, <2>1, <3>2, Zenon DEF Locked
      <3>3. QED
        BY <3>1, <3>2
    <2>3. QED
      BY <2>2, Zenon DEF Locked
  <1>4. \A b \in stored : BetterThan(b, best) => b = blk[w]
    <2>1. \A v \in Workers : pc[v] = "setting" => v = w
      BY <1>2, SMTT(60) DEF Locked
    <2>2. QED
      BY <1>1, <2>1, Zenon DEF Calm
  <1>5. CASE BetterThan(blk[w], best)
    <2>1. best' = blk[w] /\ ~Writing(w)
      <3>1. becomeNewBest(w)
        BY <1>2, <1>5, ZenonT(60) DEF becomeNewBest
      <3>2. ASSUME Writing(w) PROVE FALSE
        <4>1. [id |-> writer[w], blk |-> blk[w], prevBest |-> best] \in running
          BY <3>2, ZenonT(60) DEF Writing
        <4>2. QED
          BY <1>1, <3>1, <4>1, ZenonT(60)
      <3>3. QED
        BY <1>1, <3>1, <3>2, ZenonT(60)
    <2>2. Logged(blk[w])
      BY <1>1, <1>2, <1>5, <2>1, Zenon DEF Calm
    <2>3. Logged(best)'
      BY <1>1, <2>1, <2>2, ZenonT(60) DEF Logged
    <2>4. \A b \in stored : ~BetterThan(b, blk[w])
      BY <1>0, <1>4, <1>5, BetterOrder, SMTT(60)
    <2>5. QED
      BY <1>1, <1>3, <2>1, <2>3, <2>4, Zenon DEF Calm
  <1>6. CASE ~BetterThan(blk[w], best)
    <2>1. best' = best
      BY <1>1, <1>2, <1>6, ZenonT(60) DEF becomeNewBest
    <2>2. Logged(best)'
      BY <1>1, <1>2, <1>6, <2>1, Zenon DEF Calm, Logged
    <2>3. \A b \in stored : ~BetterThan(b, best)
      BY <1>4, <1>6, SMTT(60)
    <2>4. QED
      BY <1>1, <1>3, <2>1, <2>2, <2>3, Zenon DEF Calm
  <1>7. QED
    BY <1>5, <1>6, SMTT(60)

\* The log goroutine moves the rows to the chain of the new block.
LEMMA WriteLogsCalm ==
  ASSUME Types, IInv, Spared, Calm, NEW r \in running, WriteLogs(r)
  PROVE  Calm'
  <1> SUFFICES ASSUME errors' + crashes' = 0 PROVE Calm'
    BY ZenonT(60) DEF Calm
  <1> DEFINE diff == Exclude(Parent[r.blk], r.prevBest) \cup {r.blk}
             read == (diff \cup {Parent[r.blk]}) \ {r.blk}
  <1>1. /\ UNCHANGED <<stored, best, up, crashes, pc, blk, writer>> /\ running' = running \ {r}
        /\ errors' = errors \/ errors' = errors + 1
    BY Zenon DEF WriteLogs
  <1>2. ~(errors' = errors + 1)
    BY <1>1, SMTT(60) DEF Types, TypeOK
  <1>4. errors' = errors /\ errors + crashes = 0
    BY <1>1, <1>2, Zenon
  <1>5. PICK w \in Locked : Writing(w) /\ BetterThan(blk[w], best) /\ blk[w] \notin Chain[best]
    BY <1>4, Zenon DEF Calm, Logged
  <1>6. r.blk = blk[w] /\ r.prevBest = best /\ running' = {}
    <2> DEFINE log == [id |-> writer[w], blk |-> blk[w], prevBest |-> best]
    <2>1. log.blk = blk[w] /\ log.prevBest = best
      BY Zenon
    <2>2. running = {log} /\ r \in running
      BY <1>5, Zenon DEF Writing, WriteLogs
    <2> HIDE DEF log
    <2>3. r = log /\ running' = {}
      BY <1>1, <2>2, Zenon
    <2>4. QED
      BY <2>1, <2>3, Zenon
  <1>7. w \in Workers /\ best \in Blocks /\ blk[w] \in Blocks \ {Genesis}
    BY <1>5, Zenon DEF Locked, IInv, Typed, Progress
  <1>a. read \subseteq stored
    <2>1. Parent[blk[w]] \in Held
      BY <1>5, Zenon DEF Locked, IInv, Progress
    <2>2. Parent[blk[w]] \in stored /\ Chain[Parent[blk[w]]] \subseteq stored
      BY <1>4, <2>1, AllStored, Zenon
    <2>3. QED
      BY <1>6, <2>2, Zenon DEF Exclude
  <1>3. /\ rows' = { b \in rows : \A d \in diff : Number(b) < Number(d) } \cup (diff \cap HasLogs)
        /\ newest' = r.blk /\ UNCHANGED <<logDBFailed, errors>>
    BY <1>2, <1>a, Zenon DEF WriteLogs
  <1>8. rows' = Chain[blk[w]] \cap HasLogs
    <2>1. rows = Chain[best] \cap HasLogs /\ diff = Exclude(Parent[blk[w]], best) \cup {blk[w]}
      BY <1>5, <1>6, Zenon DEF Writing
    <2>2. rows' = RowsAfter(rows, diff)
      BY <1>3, Zenon DEF RowsAfter
    <2> HIDE DEF diff
    <2>3. RowsAfter(Chain[best] \cap HasLogs, diff) = Chain[blk[w]] \cap HasLogs
      BY <1>5, <1>7, <2>1, RowsMove, ZenonT(60)
    <2>4. QED
      BY <2>1, <2>2, <2>3, Zenon
  <1>9. Logged(blk[w])'
    BY <1>1, <1>3, <1>6, <1>8, ZenonT(60) DEF Logged
  <1>10. Locked' = Locked /\ \A v \in Locked : v = w
    BY <1>1, <1>5, Zenon DEF Locked, IInv, LockHeld
  <1>11. QED
    BY <1>1, <1>3, <1>4, <1>5, <1>9, <1>10, ZenonT(60) DEF Calm

\* The first crash leaves the logs of one whole chain, whose head is the newest block
\* noted.
LEMMA CrashStops ==
  ASSUME Types, Calm, Crash
  PROVE  Calm' /\ Stopped'
  <1>1. crashes' = crashes + 1 /\ UNCHANGED <<errors, rows, newest>>
    BY Zenon DEF Crash, durable
  <1>2. errors' + crashes' # 0 /\ (errors' = 0 /\ crashes' = 1 => errors + crashes = 0)
    BY <1>1, SMTT(60) DEF Types, TypeOK
  <1>3. errors + crashes = 0 => rows = Chain[newest] \cap HasLogs
    BY Zenon DEF Calm, Logged, Writing
  <1>4. QED
    BY <1>1, <1>2, <1>3, Zenon DEF Calm, Stopped

\* Every step keeps what holds before and at the first crash.
LEMMA StepCalm == Types /\ IInv /\ Spared /\ Calm /\ Stopped /\ [Next]_vars => Calm' /\ Stopped'
  <1> SUFFICES ASSUME Types, IInv, Spared, Calm, Stopped, [Next]_vars PROVE Calm' /\ Stopped'
    OBVIOUS
  <1>1. CASE UNCHANGED vars
    BY <1>1, Zenon DEF vars, durable, Calm, Stopped, Locked, Logged, Writing
  <1>2. CASE Crash
    BY <1>2, CrashStops
  <1>3. CASE Restart
    <2>1. up' /\ ~up /\ UNCHANGED <<errors, crashes>>
      BY <1>3, Zenon DEF Restart
    <2>2. QED
      BY <2>1, Zenon DEF Calm, Stopped
  <1>4. ASSUME NEW w \in Workers, (\E b \in Blocks : Process(w, b)) \/ ProcessFork(w) PROVE Calm' /\ up'
    <2>1. Calm'
      BY <1>4, ProcessCalm, SMTT(60)
    <2>2. up' = up /\ up = TRUE
      BY <1>4, Zenon DEF Process, ProcessFork, durable, Types, TypeOK
    <2>3. QED
      BY <2>1, <2>2, SMTT(60)
  <1>5. ASSUME NEW w \in Workers, Lock(w) PROVE Calm' /\ up'
    BY <1>5, LockCalm, Zenon DEF Lock
  <1>6. ASSUME NEW w \in Workers, Commit(w) PROVE Calm' /\ up'
    BY <1>6, CommitCalm, FailCalm, Zenon DEF Commit, Fail
  <1>7. ASSUME NEW w \in Workers, AddBlock(w) PROVE Calm' /\ up'
    <2>1. up /\ (Adds(w) \/ LosesParent(w) \/ FailsToAdd(w))
      BY <1>7, AddBlockCases, Zenon
    <2>2. up'
      BY <2>1, Zenon DEF Adds, LosesParent, FailsToAdd, Ended, Fail
    <2>3. CASE Adds(w)
      BY <1>7, <2>2, <2>3, AddBlockCalm, Zenon
    <2>4. CASE LosesParent(w)
      <3>1. errors' + crashes' # 0
        BY <1>7, <2>4, NoneMissing, Zenon DEF LosesParent, Ended
      <3>2. QED
        BY <2>2, <3>1, Zenon DEF Calm
    <2>5. CASE FailsToAdd(w)
      BY <2>2, <2>5, FailCalm, Zenon DEF FailsToAdd
    <2>6. QED
      BY <2>1, <2>3, <2>4, <2>5, Zenon
  <1>8. ASSUME NEW w \in Workers, SetBest(w) PROVE Calm' /\ up'
    BY <1>8, SetBestCalm, FailCalm, Zenon DEF SetBest, Fail
  <1>9. ASSUME NEW r \in running, WriteLogs(r) PROVE Calm' /\ up'
    BY <1>9, WriteLogsCalm, Zenon DEF WriteLogs
  <1>10. up' => Stopped'
    BY ZenonT(60) DEF Stopped
  <1>11. ASSUME NEW b \in Blocks, Evict(b) PROVE Calm' /\ up'
    BY <1>11, Zenon DEF Evict, durable, Calm, Locked, Logged, Writing
  <1>12. QED
    BY <1>1, <1>2, <1>3, <1>4, <1>5, <1>6, <1>7, <1>8, <1>9, <1>10, <1>11, Zenon DEF Next

\* Until a crash or a failing write, no stored block is better than the best block
\* when nobody holds commitLock.
THEOREM BestStaysBest == Spec => []BestIsBest
  <1>1. Types /\ Calm => BestIsBest
    BY Zenon DEF Types, Calm, BestIsBest, Locked
  <1>2. QED
    BY InitTypes, StepTypes, InitIInv, StepIInv, InitCalm, StepSpared, StepCalm, <1>1, PTL DEF Spec

\* Until a crash or a failing write, the log database holds exactly the logs of the
\* best chain when nobody holds commitLock, through any sequence of forks.
THEOREM LogsFollowTrunk == Spec => []LogsMatchTrunk
  <1>1. Calm => LogsMatchTrunk
    BY ZenonT(60) DEF Calm, Logged, LogsMatchTrunk
  <1>2. QED
    BY InitTypes, StepTypes, InitIInv, StepIInv, InitCalm, StepSpared, StepCalm, <1>1, PTL DEF Spec

-----------------------------------------------------------------------------
(* Start-up. *)

\* A chain that meets a set has a highest block in it.
LEMMA Highest ==
  ASSUME NEW h \in Blocks, NEW X, Chain[h] \cap X # {}
  PROVE  \E c \in Chain[h] \cap X : \A e \in Chain[h] \cap X : Number(e) <= Number(c)
  <1> DEFINE S == { d \in Blocks : Chain[d] \cap X # {} =>
                     \E c \in Chain[d] \cap X : \A e \in Chain[d] \cap X : Number(e) <= Number(c) }
  <1>1. Genesis \in S
    <2>1. Chain[Genesis] = {Genesis} /\ Number(Genesis) <= Number(Genesis) /\ Genesis \in Blocks
      BY ChainStep, Numbers, GivenTree
    <2>2. QED
      BY <2>1, ZenonT(60)
  <1>2. ASSUME NEW d \in Blocks \ {Genesis}, Parent[d] \in S PROVE d \in S
    <2>1. CASE d \in X
      <3>1. d \in Chain[d] /\ Number(d) \in Nat /\ Chain[d] \subseteq Blocks
        BY ChainBasics, Numbers, SMTT(60)
      <3>2. \A e \in Chain[d] : Number(e) \in Nat /\ (e # d => Number(e) < Number(d))
        BY <3>1, AncestorLower, Numbers, SMTT(60)
      <3>3. \A e \in Chain[d] : Number(e) <= Number(d)
        BY <3>1, <3>2, SMTT(60)
      <3>4. QED
        BY <2>1, <3>1, <3>3, SMTT(60)
    <2>2. CASE d \notin X
      <3>1. Chain[d] \cap X = Chain[Parent[d]] \cap X
        BY <2>2, ChainStep, SMTT(60)
      <3>2. QED
        BY <1>2, <3>1, SMTT(60)
    <2>3. QED
      BY <2>1, <2>2
  <1> HIDE DEF S
  <1>3. Blocks \subseteq S
    BY <1>1, <1>2, BlockInduction, SMTT(60)
  <1>4. QED
    BY <1>3, SMTT(60) DEF S

\* The walk back along the best chain stops, at the highest block at or below the
\* start that is genesis or has rows.
LEMMA SeekStops ==
  ASSUME Types, best # Genesis, newest # Genesis, newest # best
  PROVE  \E c \in Chain[best] : /\ c = Genesis \/ c \in rows
                                /\ seekLogDBSyncPosition = 1 + Number(c)
  <1> DEFINE T == { n \in Stops : n <= seekStart }
             X == { c \in Blocks : (c = Genesis \/ c \in rows) /\ Number(c) <= seekStart }
  <1>0. best \in Blocks \ {Genesis} /\ newest \in Blocks /\ Chain[best] \subseteq Blocks
    BY ChainBasics, ZenonT(60) DEF Types, TypeOK
  <1>1. seekStart \in Nat
    <2>1. Number(best) \in Nat /\ Number(newest) \in Nat /\ Number(best) # 0
      <3>1. Number(best) = Number(Parent[best]) + 1 /\ Number(Parent[best]) \in Nat /\ Number(newest) \in Nat
        BY <1>0, Numbers, GivenTree, SMTT(60)
      <3>2. QED
        BY <3>1, SMTT(60)
    <2>2. QED
      BY <2>1, SMTT(60) DEF seekStart
  <1>2. Genesis \in Chain[best] \cap X
    <2>1. Number(Genesis) <= seekStart
      BY <1>1, Numbers, SMTT(60)
    <2>2. QED
      BY <1>0, <2>1, ChainBasics, GivenTree, ZenonT(60)
  <1>3. PICK c \in Chain[best] \cap X : \A e \in Chain[best] \cap X : Number(e) <= Number(c)
    <2> HIDE DEF X
    <2> QED
      BY <1>0, <1>2, Highest, SMTT(60)
  <1>4. Number(c) \in Stops /\ Number(c) <= seekStart /\ \A m \in Stops : m <= seekStart => m <= Number(c)
    BY <1>0, <1>3, Zenon DEF Stops
  <1>5. PICK n \in Stops : /\ seekLogDBSyncPosition = 1 + n
                           /\ n <= seekStart /\ \A m \in Stops : m <= seekStart => m <= n
    BY <1>4, Zenon DEF seekLogDBSyncPosition
  <1>6. PICK d \in Chain[best] : (d = Genesis \/ d \in rows) /\ n = Number(d)
    BY SMTT(60) DEF Stops
  <1>7. QED
    BY <1>5, <1>6, Zenon

\* syncLogDB writes the missing logs of every block below the best one.
LEMMA RestartRepairs ==
  ASSUME Types, Stopped, Restart, errors = 0, crashes = 1,
         NEW b \in (Chain[best] \cap HasLogs) \ {best}
  PROVE  b \in rows'
  <1>0. best \in Blocks /\ newest \in Blocks /\ b \in Blocks \ {Genesis} /\ Chain[best] \subseteq Blocks
    BY ChainBasics, NodeAssumption, ZenonT(60) DEF Types, TypeOK
  <1>1. rows = Chain[newest] \cap HasLogs
    BY SMTT(60) DEF Stopped, Restart
  <1>2. Number(b) \in Nat /\ Number(best) \in Nat /\ Number(b) < Number(best)
    BY <1>0, AncestorLower, Numbers, SMTT(60)
  <1>3. best # Genesis
    BY <1>0, ChainStep, SMTT(60)
  <1>4. ASSUME NEW n \in Nat, seekLogDBSyncPosition = n, Number(b) < n => b \in rows PROVE b \in rows'
    <2>1. CASE Number(best) = n
      BY <1>2, <1>4, <2>1, Zenon DEF Restart
    <2>2. CASE Number(best) # n
      <3>1. Number(b) < n \/ Number(b) >= n
        BY <1>2, SMTT(60)
      <3>2. rows' = { c \in rows : Number(c) < n } \cup { c \in Chain[best] \cap HasLogs : Number(c) >= n }
        BY <1>4, <2>2, Zenon DEF Restart
      <3>3. QED
        BY <1>4, <3>1, <3>2, Zenon
    <2>3. QED
      BY <2>1, <2>2, SMTT(60)
  <1>5. CASE newest = Genesis
    <2>1. seekLogDBSyncPosition = 0
      BY <1>5, Zenon DEF seekLogDBSyncPosition
    <2>2. ~(Number(b) < 0)
      BY <1>2, SMTT(60)
    <2>3. QED
      BY <1>4, <2>1, <2>2, SMTT(60)
  <1>6. CASE newest = best
    <2>1. b \in rows
      BY <1>1, <1>6, SMTT(60)
    <2>2. CASE best = Genesis \/ newest = Genesis
      BY <1>3, <1>5, <2>2, SMTT(60)
    <2>3. CASE ~(best = Genesis \/ newest = Genesis)
      <3>1. seekLogDBSyncPosition = Number(best)
        BY <1>6, <2>3, Zenon DEF seekLogDBSyncPosition
      <3>2. QED
        BY <1>2, <1>4, <2>1, <3>1, SMTT(60)
    <2>4. QED
      BY <2>2, <2>3, SMTT(60)
  <1>7. CASE newest # Genesis /\ newest # best
    <2>1. PICK c \in Chain[best] : (c = Genesis \/ c \in rows) /\ seekLogDBSyncPosition = 1 + Number(c)
      BY <1>3, <1>7, SeekStops, SMTT(60)
    <2>2. c \in Blocks /\ Number(c) \in Nat
      BY <1>0, Numbers, SMTT(60)
    <2>3. ASSUME Number(b) < 1 + Number(c) PROVE b \in rows
      <3>1. Number(b) <= Number(c)
        BY <1>2, <2>2, <2>3, SMTT(60)
      <3>2. b \in Chain[c]
        BY <1>0, <3>1, LowerIsAncestor, SMTT(60)
      <3>3. c # Genesis
        BY <1>0, <3>2, ChainStep, SMTT(60)
      <3>4. c \in Chain[newest]
        BY <1>1, <2>1, <3>3, SMTT(60)
      <3>5. QED
        BY <1>0, <1>1, <3>2, <3>4, ChainBasics, SMTT(60)
    <2>4. 1 + Number(c) \in Nat
      BY <2>2, SMTT(60)
    <2>5. QED
      BY <1>4, <2>1, <2>3, <2>4, SMTT(60)
  <1>8. QED
    BY <1>5, <1>6, <1>7, SMTT(60)

\* The start-up synchronisation after the first crash restores every log of the best
\* chain below the best block, wherever that crash hit a commit.
THEOREM SyncRepairs == Spec => SyncRepairsBelowBest
  <1>1. Types /\ Stopped /\ [Next]_vars =>
          [~up /\ up' /\ errors = 0 /\ crashes = 1 =>
             \A b \in (Chain[best] \cap HasLogs) \ {best} : b \in rows']_vars
    <2> SUFFICES ASSUME Types, Stopped, [Next]_vars, ~up, up', errors = 0, crashes = 1,
                        NEW b \in (Chain[best] \cap HasLogs) \ {best}
                 PROVE  b \in rows'
      BY Zenon
    <2>1. Restart
      BY Zenon DEF Next, Process, Lock, Commit, AddBlock, SetBest, ProcessFork, WriteLogs, Evict, Crash, vars
    <2>2. QED
      BY <2>1, RestartRepairs, SMTT(60)
  <1>2. QED
    BY InitTypes, StepTypes, InitIInv, StepIInv, InitCalm, StepSpared, StepCalm, <1>1, PTL DEF Spec, SyncRepairsBelowBest
=============================================================================
