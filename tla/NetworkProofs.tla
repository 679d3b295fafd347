---------------------------- MODULE NetworkProofs ----------------------------
(***************************************************************************)
(* Synchronisation: for any tree of blocks and any two chains in it, the   *)
(* search that doubles and then halves finds where the chains part, and a  *)
(* sync that reports no error has caught up with the peer.                 *)
(*                                                                         *)
(* Calls: however many callers, calls and answers there are, and in        *)
(* whatever order answers, timeouts and the end of the connection come, no *)
(* listener outlives its call, and a call that succeeds has its own answer *)
(* or that of an earlier call with the same id.                            *)
(***************************************************************************)
EXTENDS BlockSync, Rpc, FiniteSetTheorems, SequenceTheorems, WellFoundedInduction, TLAPS

-----------------------------------------------------------------------------
(* Chains. *)

\* Chains of blocks: they hold the block and genesis, are finite and linear.
LEMMA Tree ==
  ASSUME NEW b \in Blocks
  PROVE  /\ b \in Chain[b] /\ Genesis \in Chain[b] /\ Chain[b] \subseteq Blocks /\ IsFiniteSet(Chain[b])
         /\ \A c \in Chain[b] : Chain[c] \subseteq Chain[b] /\ (b \in Chain[c] => b = c)
         /\ \A c, d \in Chain[b] : c \in Chain[d] \/ d \in Chain[c]
  BY BlockSyncAssumption, Zenon

\* A block's number counts its ancestors.
LEMMA NumberType == \A b \in Blocks : NumberOf(b) \in Nat /\ Cardinality(Chain[b]) = NumberOf(b) + 1
  <1> TAKE b \in Blocks
  <1>1. IsFiniteSet(Chain[b]) /\ Chain[b] # {}
    BY Tree
  <1>2. Cardinality(Chain[b]) \in Nat /\ Cardinality(Chain[b]) # 0
    BY <1>1, FS_CardinalityType, FS_EmptySet, Zenon
  <1>3. QED
    BY <1>2 DEF NumberOf

\* Genesis has number 0.
LEMMA NumberGenesis == NumberOf(Genesis) = 0
  <1>1. Genesis \in Blocks
    BY BlockSyncAssumption
  <1>2. Chain[Genesis] = {Genesis}
    BY <1>1, Tree
  <1>3. Cardinality(Chain[Genesis]) = 1
    BY <1>2, FS_Singleton, Zenon
  <1>4. QED
    BY <1>3 DEF NumberOf

\* An ancestor has a lower number.
LEMMA AncestorLower ==
  ASSUME NEW h \in Blocks, NEW c \in Chain[h], c # h
  PROVE  NumberOf(c) < NumberOf(h)
  <1>1. c \in Blocks /\ Chain[c] \subseteq Chain[h] /\ Chain[c] # Chain[h] /\ IsFiniteSet(Chain[h])
    BY Tree
  <1>2. Cardinality(Chain[c]) <= Cardinality(Chain[h]) /\ Cardinality(Chain[c]) # Cardinality(Chain[h])
    BY <1>1, FS_Subset
  <1>3. QED
    BY <1>1, <1>2, NumberType

\* Of two blocks of a chain, the one with the lower number is the other's ancestor.
LEMMA LowerIsAncestor ==
  ASSUME NEW h \in Blocks, NEW c \in Chain[h], NEW d \in Chain[h], NumberOf(c) <= NumberOf(d)
  PROVE  c \in Chain[d]
  <1>1. c \in Blocks /\ d \in Blocks
    BY Tree
  <1>2. NumberOf(c) \in Nat /\ NumberOf(d) \in Nat
    BY <1>1, NumberType
  <1>3. CASE d \in Chain[c] /\ d # c
    <2>1. NumberOf(d) < NumberOf(c)
      BY <1>1, <1>3, AncestorLower
    <2>2. QED
      BY <1>2, <2>1
  <1>4. CASE ~(d \in Chain[c] /\ d # c)
    BY <1>1, <1>4, Tree
  <1>5. QED
    BY <1>3, <1>4

\* A chain has one block of a number, so asking a chain for a number is well defined.
LEMMA SameNumber ==
  ASSUME NEW h \in Blocks, NEW c \in Chain[h], NEW d \in Chain[h], NumberOf(c) = NumberOf(d)
  PROVE  c = d
  <1>1. c \in Blocks /\ d \in Blocks
    BY Tree
  <1>2. NumberOf(c) \in Nat /\ NumberOf(d) \in Nat
    BY <1>1, NumberType
  <1>3. c \in Chain[d] /\ d \in Chain[c]
    BY <1>2, LowerIsAncestor
  <1>4. QED
    BY <1>1, <1>3, Tree

\* A chain has one block at every number up to its head's, and none above.
LEMMA OneAt ==
  ASSUME NEW h \in Blocks, NEW n \in Nat
  PROVE  /\ n <= NumberOf(h) => \E c \in Chain[h] : NumberOf(c) = n /\ At(h, n) = {c}
         /\ n > NumberOf(h) => At(h, n) = {}
  <1> DEFINE N == NumberOf(h)
             f == [c \in Chain[h] |-> NumberOf(c)]
  <1>1. N \in Nat /\ Cardinality(Chain[h]) = N + 1 /\ Chain[h] \subseteq Blocks
    BY NumberType, Tree
  <1>2. \A c \in Chain[h] : NumberOf(c) \in 0..N
    <2> TAKE c \in Chain[h]
    <2>1. NumberOf(c) \in Nat
      BY <1>1, NumberType
    <2>2. c # h => NumberOf(c) < N
      BY AncestorLower
    <2>3. QED
      BY <1>1, <2>1, <2>2
  <1>3. f \in Injection(Chain[h], 0..N)
    <2>1. f \in [Chain[h] -> 0..N]
      BY <1>2
    <2>2. \A c, d \in Chain[h] : f[c] = f[d] => c = d
      BY SameNumber
    <2> HIDE DEF f, N
    <2>3. QED
      BY <2>1, <2>2 DEF Injection, IsInjective
  <1>4. IsFiniteSet(0..N) /\ Cardinality(0..N) = N + 1
    BY <1>1, FS_Interval
  <1>5. f \in Surjection(Chain[h], 0..N)
    <2> HIDE DEF f, N
    <2> QED
      BY <1>1, <1>3, <1>4, FS_Injection
  <1>6. ASSUME n <= N PROVE \E c \in Chain[h] : NumberOf(c) = n /\ At(h, n) = {c}
    <2>1. n \in 0..N
      BY <1>1, <1>6
    <2>2. \A m \in 0..N : \E c \in Chain[h] : f[c] = m
      BY <1>5, Zenon DEF Surjection
    <2>3. PICK c \in Chain[h] : NumberOf(c) = n
      BY <2>1, <2>2, ZenonT(60)
    <2>4. At(h, n) = {c}
      BY <2>3, SameNumber DEF At
    <2>5. QED
      BY <2>3, <2>4
  <1>7. ASSUME n > N PROVE At(h, n) = {}
    BY <1>1, <1>2, <1>7 DEF At
  <1>8. QED
    BY <1>6, <1>7

\* The chain of a block is its parent's and the block.
LEMMA ChainParent ==
  ASSUME NEW b \in Blocks, b # Genesis
  PROVE  /\ ParentOf(b) \in Blocks /\ ParentOf(b) \in Chain[b] /\ NumberOf(ParentOf(b)) = NumberOf(b) - 1
         /\ Chain[b] = Chain[ParentOf(b)] \cup {b}
  <1>1. NumberOf(b) \in Nat /\ NumberOf(b) - 1 \in Nat /\ NumberOf(b) - 1 <= NumberOf(b)
    <2>1. NumberOf(Genesis) < NumberOf(b)
      BY Tree, AncestorLower
    <2>2. QED
      BY <2>1, NumberGenesis, NumberType
  <1>2. \E p \in Chain[b] : NumberOf(p) = NumberOf(b) - 1
    BY <1>1, OneAt
  <1>3. ParentOf(b) \in Chain[b] /\ NumberOf(ParentOf(b)) = NumberOf(b) - 1
    BY <1>2, Zenon DEF ParentOf
  <1>4. ASSUME NEW c \in Chain[b], c # b PROVE c \in Chain[ParentOf(b)]
    <2>1. NumberOf(c) < NumberOf(b) /\ NumberOf(c) \in Nat
      BY <1>4, AncestorLower, NumberType, Tree
    <2>2. NumberOf(c) <= NumberOf(ParentOf(b))
      BY <1>1, <1>3, <2>1
    <2>3. QED
      BY <1>3, <2>2, LowerIsAncestor
  <1>5. QED
    BY <1>3, <1>4, Tree

-----------------------------------------------------------------------------
(* Where two chains part. *)

\* The order of the natural numbers as a relation, for the library's theorem on minima.
LEMMA NatRel == OpToRel(<, Nat) = { p \in Nat \X Nat : p[1] < p[2] }
  BY Zenon DEF OpToRel

\* A nonempty set of numbers has a least element.
LEMMA LeastNumber ==
  ASSUME NEW T \in SUBSET Nat, T # {}
  PROVE  \E m \in T : \A n \in T : m <= n
  <1> DEFINE R == { p \in Nat \X Nat : p[1] < p[2] }
  <1>1. IsWellFoundedOn(R, Nat)
    BY NatLessThanWellFounded, NatRel, Zenon
  <1>2. \A m, n \in Nat : <<n, m>> \in R <=> n < m
    OBVIOUS
  <1> HIDE DEF R
  <1>3. \E m \in T : \A n \in T : ~(<<n, m>> \in R)
    BY <1>1, WFMin, Zenon
  <1>4. PICK m \in T : \A n \in T : ~(<<n, m>> \in R)
    BY <1>3
  <1>5. \A n \in T : ~(n < m) /\ n \in Nat /\ m \in Nat
    BY <1>2, <1>4, Zenon
  <1>6. \A n \in T : m <= n
    BY <1>5
  <1>7. QED
    BY <1>6

\* The chains agree up to one number, and nowhere above.
LEMMA Parting ==
  ASSUME best \in Blocks, peerBest \in Blocks
  PROVE  /\ CommonAncestor \in 0..NumberOf(best)
         /\ \A n \in 0..NumberOf(best) : isOverlapped(n) <=> n <= CommonAncestor
  <1> DEFINE N == NumberOf(best)
             T == { n \in Nat : n > N \/ ~isOverlapped(n) }
  <1>1. N \in Nat /\ NumberOf(peerBest) \in Nat
    BY NumberType
  <1>2. isOverlapped(0)
    <2>1. At(best, 0) = {Genesis} /\ At(peerBest, 0) = {Genesis}
      <3>1. \A h \in Blocks : Genesis \in At(h, 0)
        BY Tree, NumberGenesis, Zenon DEF At
      <3>2. \A h \in Blocks : \E c : At(h, 0) = {c}
        <4> TAKE h \in Blocks
        <4>1. 0 <= NumberOf(h)
          BY NumberType
        <4>2. QED
          BY <4>1, OneAt, ZenonT(60)
      <3>3. QED
        BY <3>1, <3>2
    <2>2. QED
      BY <2>1 DEF isOverlapped
  <1>3. ASSUME NEW n \in 0..N, isOverlapped(n), NEW m \in 0..n PROVE isOverlapped(m)
    <2>0. n \in Nat /\ m \in Nat /\ n <= N /\ m <= N /\ m <= n
      BY <1>1
    <2>1. PICK c \in Chain[best] : NumberOf(c) = n /\ At(best, n) = {c}
      BY <2>0, OneAt
    <2>2. PICK d \in Chain[best] : NumberOf(d) = m /\ At(best, m) = {d}
      BY <2>0, OneAt
    <2>3. c \in Chain[peerBest]
      BY <1>3, <2>1 DEF isOverlapped, At
    <2>4. d \in Chain[c]
      BY <2>0, <2>1, <2>2, LowerIsAncestor
    <2>5. d \in Chain[peerBest]
      BY <2>3, <2>4, Tree
    <2>6. At(peerBest, m) = {d}
      BY <2>2, <2>5, SameNumber DEF At
    <2>7. QED
      BY <2>2, <2>6 DEF isOverlapped
  <1>4. PICK k \in T : \A n \in T : k <= n
    <2>1. N + 1 \in T
      BY <1>1
    <2> HIDE DEF T
    <2>2. T \in SUBSET Nat /\ T # {}
      BY <2>1 DEF T
    <2>3. QED
      BY <2>2, LeastNumber
  <1>5. k \in Nat /\ k # 0 /\ k - 1 \in 0..N
    <2>1. k \in Nat /\ k # 0
      BY <1>1, <1>2
    <2>2. k <= N + 1
      BY <1>1, <1>4
    <2>3. QED
      BY <1>1, <2>1, <2>2
  <1>6. isOverlapped(k - 1)
    <2>1. k - 1 \in Nat /\ ~(k <= k - 1) /\ ~(k - 1 > N)
      BY <1>1, <1>5
    <2>2. QED
      BY <1>4, <2>1
  <1>7. \A m \in k..N : ~isOverlapped(m)
    <2>1. ASSUME NEW m \in k..N, isOverlapped(m) PROVE FALSE
      <3>1. m \in 0..N /\ k \in 0..m /\ ~(k > N)
        BY <1>1, <1>5
      <3>2. isOverlapped(k)
        BY <1>3, <2>1, <3>1
      <3>3. QED
        BY <1>4, <3>1, <3>2
    <2>2. QED
      BY <2>1
  <1> HIDE DEF T
  <1>8. CommonAncestor \in 0..N /\ isOverlapped(CommonAncestor)
        /\ \A m \in CommonAncestor + 1..N : ~isOverlapped(m)
    <2>1. \A m \in (k - 1) + 1..N : ~isOverlapped(m)
      <3>1. (k - 1) + 1 = k
        BY <1>5
      <3>2. QED
        BY <1>7, <3>1
    <2>2. \E n \in 0..N : isOverlapped(n) /\ \A m \in n + 1..N : ~isOverlapped(m)
      BY <1>5, <1>6, <2>1
    <2>3. QED
      BY <2>2, Zenon DEF CommonAncestor
  <1>9. ASSUME NEW n \in 0..N PROVE isOverlapped(n) <=> n <= CommonAncestor
    <2>1. CASE n <= CommonAncestor
      <3>1. n \in 0..CommonAncestor
        BY <1>8, <2>1
      <3>2. QED
        BY <1>3, <1>8, <2>1, <3>1
    <2>2. CASE ~(n <= CommonAncestor)
      <3>1. n \in CommonAncestor + 1..N
        BY <1>8, <2>2
      <3>2. QED
        BY <1>8, <2>2, <3>1
    <2>3. QED
      BY <2>1, <2>2
  <1>10. QED
    BY <1>8, <1>9
-----------------------------------------------------------------------------
(* The inductive invariant. *)

\* The repository holds whole chains and nothing better than its best block.
Whole ==
  /\ stored \subseteq Blocks /\ Genesis \in stored /\ best \in stored
  /\ \A b \in stored : Chain[b] \subseteq stored /\ Score[b] <= Score[best]

Typed ==
  /\ peerBest \in Blocks /\ peerHead \in Blocks
  /\ pc \in {"idle", "seek", "find", "found", "download"}
  /\ headNum \in Nat /\ backward \in Nat /\ fromNum \in Nat
  /\ range \in [start : Nat, end : Nat, ancestor : Nat]
  /\ batch \in Seq(Blocks) /\ blockCh \in Seq(Blocks) /\ Len(blockCh) <= StreamCap
  /\ fetcher \in {"off", "on", "failing", "done"} /\ handler \in {"off", "on", "failing", "done"}
  /\ errs \in 0..2 /\ syncCount \in 0..3
  /\ moved \in BOOLEAN

\* A search never looks above where it began.
InRange ==
  /\ range.start <= range.end /\ range.ancestor <= headNum
  /\ pc = "find" => range.end <= headNum

\* While the chains stand still the place where they part lies between the bounds, or
\* just below them and is the ancestor noted last.
Searching ==
  ~moved /\ pc \in {"seek", "find", "found"} =>
    /\ headNum = NumberOf(best)
    /\ pc = "find" =>
         /\ CommonAncestor <= range.end
         /\ range.start <= CommonAncestor \/ range.ancestor = CommonAncestor
    /\ pc = "found" => range.ancestor = CommonAncestor

\* Outside download there are no goroutines; one that ended without an error ended with
\* the stream.
Goroutines ==
  /\ pc # "download" => fetcher = "off" /\ handler = "off" /\ batch = <<>> /\ blockCh = <<>>
  /\ handler = "done" /\ errs = 0 => fetcher = "done" /\ blockCh = <<>>

\* The blocks in the answer and the stream are a segment of the peer's chain, and what is
\* below the segment is stored.
next == fromNum - Len(batch)
low == next - Len(blockCh)

Segment ==
  /\ low \in Nat
  /\ \A i \in 1..Len(batch) : batch[i] \in Chain[peerBest] /\ NumberOf(batch[i]) = next + i - 1
  /\ \A i \in 1..Len(blockCh) : blockCh[i] \in Chain[peerBest] /\ NumberOf(blockCh[i]) = low + i - 1
  /\ \A b \in Chain[peerBest] : NumberOf(b) < low => b \in stored
  /\ fetcher = "done" => batch = <<>> /\ NumberOf(peerBest) < fromNum

Streaming == pc = "download" /\ ~moved /\ errs = 0 /\ handler # "failing" => Segment

IInv == Whole /\ Typed /\ InRange /\ Searching /\ Goroutines /\ Streaming

\* The types of the constants.
LEMMA Constants == /\ Genesis \in Blocks /\ PeerStart \in Blocks /\ LocalBlocks \subseteq Blocks
                   /\ Score \in [Blocks -> Nat] /\ StreamCap \in Nat /\ BatchSize \in Nat
                   /\ StreamCap > 0 /\ BatchSize > 0
  BY BlockSyncAssumption

\* Two nodes that start from their chains satisfy the invariant.
LEMMA InitIInv == Init => IInv
  <1> SUFFICES ASSUME Init PROVE IInv
    OBVIOUS
  <1>1. Whole
    <2>1. Chain[Genesis] = {Genesis}
      BY Constants, Tree
    <2>2. Score[Genesis] \in Nat
      BY Constants
    <2>3. Score[Genesis] <= Score[Genesis]
      BY <2>2
    <2>4. QED
      BY <2>1, <2>3, Constants, Zenon DEF Init, Whole
  <1>2. Typed
    <2>1. <<>> \in Seq(Blocks) /\ Len(<<>>) <= StreamCap
      BY Constants
    <2>2. 0 \in Nat /\ 0 \in 0..2 /\ 0 \in 0..3
      OBVIOUS
    <2>3. [start |-> 0, end |-> 0, ancestor |-> 0] \in [start : Nat, end : Nat, ancestor : Nat]
      OBVIOUS
    <2>4. QED
      BY <2>1, <2>2, <2>3, Constants, Zenon DEF Init, Typed
  <1>3. InRange
    BY DEF Init, InRange
  <1>4. Searching /\ Goroutines /\ Streaming
    BY DEF Init, Searching, Goroutines, Streaming
  <1>5. QED
    BY <1>1, <1>2, <1>3, <1>4 DEF IInv

\* A block on a stored parent keeps the repository whole.
LEMMA AcceptedWhole ==
  ASSUME Whole, NEW b \in Blocks, b \notin stored, ParentOf(b) \in stored, Accepted(b)
  PROVE  Whole' /\ stored \subseteq stored'
  <1>0. /\ stored \subseteq Blocks /\ Genesis \in stored /\ best \in stored
        /\ \A c \in stored : Chain[c] \subseteq stored /\ Score[c] <= Score[best]
    BY Zenon DEF Whole
  <1>1. stored' = stored \cup {b} /\ best' = IF Score[b] > Score[best] THEN b ELSE best
    BY Zenon DEF Accepted
  <1>2. Chain[b] = Chain[ParentOf(b)] \cup {b}
    BY <1>0, ChainParent
  <1>3. \A c \in stored' : Chain[c] \subseteq stored'
    BY <1>0, <1>1, <1>2, Zenon
  <1>4. \A c \in stored' : Score[c] <= Score[best']
    <2>1. \A c \in stored' : Score[c] \in Nat
      BY <1>0, <1>1, Constants
    <2>2. CASE Score[b] > Score[best]
      <3>1. \A c \in stored : Score[c] <= Score[b]
        BY <1>0, <1>1, <2>1, <2>2
      <3>2. Score[b] <= Score[b]
        BY <1>1, <2>1
      <3>3. QED
        BY <1>1, <2>2, <3>1, <3>2, Zenon
    <2>3. CASE ~(Score[b] > Score[best])
      <3>1. Score[b] <= Score[best]
        BY <1>0, <1>1, <2>1, <2>3
      <3>2. QED
        BY <1>0, <1>1, <2>3, <3>1, Zenon
    <2>4. QED
      BY <2>2, <2>3
  <1>5. stored' \subseteq Blocks /\ Genesis \in stored' /\ best' \in stored'
    BY <1>0, <1>1, Zenon
  <1>6. QED
    BY <1>1, <1>3, <1>4, <1>5, Zenon DEF Whole

\* The repository stays whole while it is not written.
LEMMA SameWhole == Whole /\ UNCHANGED repo => Whole'
  BY Zenon DEF Whole, repo

\* The common ancestor depends on the two best blocks only.
LEMMA SameParting ==
  ASSUME best' = best, peerBest' = peerBest
  PROVE  CommonAncestor' = CommonAncestor
  BY DEF CommonAncestor, isOverlapped

\* What happens beside the sync leaves it alone, or moves a chain.
LEMMA SearchingKept ==
  ASSUME Searching, pc' = pc, UNCHANGED search,
         moved' \/ (~moved /\ best' = best /\ peerBest' = peerBest)
  PROVE  Searching'
  <1>1. CASE moved'
    BY <1>1, Zenon DEF Searching
  <1>2. CASE ~moved /\ best' = best /\ peerBest' = peerBest
    <2>1. CommonAncestor' = CommonAncestor
      BY <1>2, SameParting
    <2>2. headNum' = headNum /\ range' = range
      BY Zenon DEF search
    <2>3. QED
      BY <1>2, <2>1, <2>2, Zenon DEF Searching
  <1>3. QED
    BY <1>1, <1>2

\* Blocks stored beside a download do not break the stream's continuity.
LEMMA StreamingKept ==
  ASSUME Streaming, pc' = pc, UNCHANGED streams, stored \subseteq stored',
         moved' \/ (~moved /\ peerBest' = peerBest)
  PROVE  Streaming'
  <1>1. fromNum' = fromNum /\ batch' = batch /\ blockCh' = blockCh /\ fetcher' = fetcher
        /\ handler' = handler /\ errs' = errs
    BY Zenon DEF streams
  <1>2. next' = next /\ low' = low
    BY <1>1 DEF next, low
  <1>3. QED
    BY <1>1, <1>2, Zenon DEF Streaming, Segment

\* A step outside the search and the download keeps their types, bounds and goroutines.
LEMMA AsideKept ==
  ASSUME Typed, InRange, Goroutines, pc' = pc, UNCHANGED <<search, streams>>,
         peerBest' \in Blocks, peerHead' \in Blocks, syncCount' \in 0..3, moved' \in BOOLEAN
  PROVE  Typed' /\ InRange' /\ Goroutines'
  BY Zenon DEF Typed, InRange, Goroutines, search, streams

\* A block committed by this node beside the sync keeps the invariant.
LEMMA LocalCommitInv == ASSUME IInv, NEW b \in Blocks, LocalCommit(b) PROVE IInv'
  <1>0. /\ b \notin stored /\ ParentOf(b) \in stored /\ Accepted(b)
        /\ moved' = (moved \/ best' # best) /\ pc' = pc
        /\ UNCHANGED <<peer, search, streams, counted>>
    BY Zenon DEF LocalCommit
  <1>1. Whole' /\ stored \subseteq stored'
    BY <1>0, AcceptedWhole DEF IInv
  <1>2. peerBest' = peerBest /\ peerHead' = peerHead /\ syncCount' = syncCount
    BY <1>0, Zenon DEF peer, counted
  <1>3. Typed' /\ InRange' /\ Goroutines'
    <2>1. moved' \in BOOLEAN
      BY <1>0, Zenon
    <2>2. QED
      BY <1>0, <1>2, <2>1, AsideKept, Zenon DEF IInv, Typed
  <1>4. moved' \/ (~moved /\ best' = best /\ peerBest' = peerBest)
    BY <1>0, <1>2, Zenon
  <1>5. Searching' /\ Streaming'
    BY <1>0, <1>1, <1>4, SearchingKept, StreamingKept, Zenon DEF IInv
  <1>6. QED
    BY <1>1, <1>3, <1>5 DEF IInv

\* A block committed by the peer during the sync keeps the invariant.
LEMMA PeerCommitInv == ASSUME IInv, NEW b \in Blocks, PeerCommit(b) PROVE IInv'
  <1>0. /\ peerBest' = b /\ peerHead' \in {peerHead, b} /\ moved' = TRUE /\ pc' = pc
        /\ UNCHANGED <<repo, search, streams, counted>>
    BY Zenon DEF PeerCommit
  <1>1. Whole' /\ stored' = stored
    BY <1>0, SameWhole, Zenon DEF IInv, repo
  <1>2. Typed' /\ InRange' /\ Goroutines'
    <2>1. peerHead' \in Blocks /\ syncCount' \in 0..3
      BY <1>0, Zenon DEF IInv, Typed, counted
    <2>2. QED
      BY <1>0, <2>1, AsideKept, Zenon DEF IInv
  <1>3. Searching' /\ Streaming'
    BY <1>0, Zenon DEF Searching, Streaming
  <1>4. QED
    BY <1>1, <1>2, <1>3 DEF IInv

\* The counter of successful rounds stays within its bound.
LEMMA CountType ==
  ASSUME NEW recent, syncCount \in 0..3, Count(recent)
  PROVE  syncCount' \in 0..3
  BY DEF Count

\* A round without a peer ahead keeps the invariant.
LEMMA BestAssumedInv == ASSUME IInv, NEW recent, BestAssumed(recent) PROVE IInv'
  <1>0. Count(recent) /\ pc' = pc /\ moved' = moved /\ UNCHANGED <<repo, peer, search, streams>>
    BY Zenon DEF BestAssumed
  <1>1. Whole' /\ stored' = stored /\ best' = best /\ peerBest' = peerBest /\ peerHead' = peerHead
    BY <1>0, SameWhole, Zenon DEF IInv, repo, peer
  <1>2. syncCount' \in 0..3
    BY <1>0, CountType DEF IInv, Typed
  <1>3. Typed' /\ InRange' /\ Goroutines'
    BY <1>0, <1>1, <1>2, AsideKept, Zenon DEF IInv, Typed
  <1>4. moved' \/ (~moved /\ best' = best /\ peerBest' = peerBest)
    BY <1>0, <1>1, Zenon DEF IInv, Typed
  <1>5. Searching' /\ Streaming'
    BY <1>0, <1>1, <1>4, SearchingKept, StreamingKept, Zenon DEF IInv
  <1>6. QED
    BY <1>1, <1>3, <1>5 DEF IInv

-----------------------------------------------------------------------------
(* The search. *)

\* The best blocks of both nodes are blocks of the tree.
LEMMA BestIsBlock == IInv => best \in Blocks /\ peerBest \in Blocks
  BY Zenon DEF IInv, Whole, Typed

\* Starting a round keeps the invariant: the search begins at the node's best block.
LEMMA StartSyncInv == ASSUME IInv, StartSync PROVE IInv'
  <1>0. /\ pc = "idle" /\ headNum' = NumberOf(best) /\ backward' = 0 /\ moved' = FALSE
        /\ pc' = (IF headNum' = 0 THEN "found" ELSE "seek")
        /\ range' = [start |-> 0, end |-> 0, ancestor |-> 0]
        /\ UNCHANGED <<repo, peer, streams, counted>>
    BY Zenon DEF StartSync
  <1>1. /\ best' = best /\ peerBest' = peerBest /\ peerHead' = peerHead /\ syncCount' = syncCount
        /\ fromNum' = fromNum /\ batch' = batch /\ blockCh' = blockCh
        /\ fetcher' = fetcher /\ handler' = handler /\ errs' = errs
    BY <1>0, Zenon DEF repo, peer, streams, counted
  <1>2. NumberOf(best) \in Nat
    BY BestIsBlock, NumberType
  <1>3. Whole'
    BY <1>0, SameWhole, Zenon DEF IInv
  <1>4. Typed'
    BY <1>0, <1>1, <1>2, ZenonT(60) DEF IInv, Typed
  <1>5. InRange'
    BY <1>0, <1>2 DEF InRange
  <1>6. Searching'
    <2>1. CommonAncestor' = CommonAncestor /\ CommonAncestor \in 0..NumberOf(best)
      BY <1>1, SameParting, BestIsBlock, Parting
    <2>2. NumberOf(best) = 0 => CommonAncestor = 0
      BY <2>1
    <2>3. QED
      BY <1>0, <1>1, <2>1, <2>2 DEF Searching
  <1>7. pc' # "download"
    BY <1>0
  <1>8. Goroutines' /\ Streaming'
    BY <1>0, <1>1, <1>7, Zenon DEF IInv, Goroutines, Streaming
  <1>9. QED
    BY <1>3, <1>4, <1>5, <1>6, <1>8 DEF IInv

\* A step of the search touches neither the repository nor the streams.
LEMMA SearchStep ==
  ASSUME IInv, pc \in {"seek", "find"}, pc' \in {"idle", "seek", "find", "found"},
         UNCHANGED <<repo, peer, headNum, streams, counted, moved>>,
         backward' \in Nat, range' \in [start : Nat, end : Nat, ancestor : Nat]
  PROVE  /\ Whole' /\ Typed' /\ Goroutines' /\ Streaming'
         /\ best' = best /\ peerBest' = peerBest /\ headNum' = headNum /\ moved' = moved
         /\ CommonAncestor' = CommonAncestor
  <1>1. /\ best' = best /\ peerBest' = peerBest /\ peerHead' = peerHead /\ syncCount' = syncCount
        /\ fromNum' = fromNum /\ batch' = batch /\ blockCh' = blockCh /\ headNum' = headNum
        /\ fetcher' = fetcher /\ handler' = handler /\ errs' = errs /\ moved' = moved
    BY Zenon DEF repo, peer, streams, counted
  <1>2. Whole'
    BY SameWhole, Zenon DEF IInv
  <1>3. pc' \in {"idle", "seek", "find", "found", "download"} /\ pc # "download" /\ pc' # "download"
    OBVIOUS
  <1>4. Typed'
    BY <1>1, <1>3, Zenon DEF IInv, Typed
  <1>5. Goroutines' /\ Streaming'
    BY <1>1, <1>3, Zenon DEF IInv, Goroutines, Streaming
  <1>6. QED
    BY <1>1, <1>2, <1>4, <1>5, SameParting

\* A failing request of the search keeps the invariant.
LEMMA SearchFailsInv == ASSUME IInv, SearchFails PROVE IInv'
  <1>0. /\ pc \in {"seek", "find"} /\ pc' = "idle"
        /\ UNCHANGED <<repo, peer, search, streams, counted, moved>>
    BY Zenon DEF SearchFails
  <1>1. headNum' = headNum /\ backward' = backward /\ range' = range
    BY <1>0, Zenon DEF search
  <1>2. Whole' /\ Typed' /\ Goroutines' /\ Streaming'
    BY <1>0, <1>1, SearchStep DEF IInv, Typed
  <1>3. InRange' /\ Searching'
    BY <1>0, <1>1 DEF IInv, InRange, Searching
  <1>4. QED
    BY <1>2, <1>3 DEF IInv

\* The backward seek keeps the common ancestor between its bounds.
LEMMA SeekInv == ASSUME IInv, Seek PROVE IInv'
  <1> DEFINE num == headNum - backward
             N == NumberOf(best)
  <1>0. pc = "seek" /\ UNCHANGED <<repo, peer, headNum, streams, counted, moved>>
    BY Zenon DEF Seek
  <1>1. headNum \in Nat /\ backward \in Nat /\ N \in Nat
    BY BestIsBlock, NumberType DEF IInv, Typed
  <1>2. ~moved => headNum = N
    BY <1>0 DEF IInv, Searching
  <1>3. CommonAncestor \in 0..N /\ \A n \in 0..N : isOverlapped(n) <=> n <= CommonAncestor
    BY BestIsBlock, Parting
  <1>4. CASE backward >= headNum
    <2>1. pc' = "find" /\ range' = [start |-> 0, end |-> headNum, ancestor |-> 0] /\ backward' = backward
      BY <1>4 DEF Seek
    <2>2. range' \in [start : Nat, end : Nat, ancestor : Nat] /\ backward' \in Nat
      BY <1>1, <2>1, SMTT(60)
    <2>3. /\ Whole' /\ Typed' /\ Goroutines' /\ Streaming' /\ best' = best
          /\ headNum' = headNum /\ moved' = moved /\ CommonAncestor' = CommonAncestor
      BY <1>0, <2>1, <2>2, SearchStep
    <2>4. InRange'
      BY <1>1, <2>1, <2>3 DEF InRange
    <2>5. Searching'
      BY <1>1, <1>2, <1>3, <2>1, <2>3, SMTT(60) DEF Searching
    <2>6. QED
      BY <2>3, <2>4, <2>5 DEF IInv
  <1>5. CASE ~(backward >= headNum) /\ isOverlapped(num)
    <2>0. num \in Nat /\ num <= headNum
      BY <1>1, <1>5
    <2>1. /\ pc' = (IF num = headNum THEN "found" ELSE "find") /\ backward' = backward
          /\ range' = [start |-> num, end |-> headNum, ancestor |-> IF num = headNum THEN num ELSE 0]
      BY <1>5, Zenon DEF Seek
    <2> HIDE DEF num
    <2>2. range' \in [start : Nat, end : Nat, ancestor : Nat] /\ backward' \in Nat
      BY <1>1, <2>0, <2>1, SMTT(60)
    <2>3. /\ Whole' /\ Typed' /\ Goroutines' /\ Streaming' /\ best' = best
          /\ headNum' = headNum /\ moved' = moved /\ CommonAncestor' = CommonAncestor
      BY <1>0, <2>1, <2>2, SearchStep, SMTT(60)
    <2>4. InRange'
      BY <1>1, <2>0, <2>1, <2>3, SMTT(60) DEF InRange
    <2>5. ~moved => num <= CommonAncestor /\ CommonAncestor <= headNum
      BY <1>1, <1>2, <1>3, <1>5, <2>0, SMTT(60)
    <2>6. Searching'
      BY <1>1, <1>2, <1>3, <2>0, <2>1, <2>3, <2>5, SMTT(60) DEF Searching
    <2>7. QED
      BY <2>3, <2>4, <2>6 DEF IInv
  <1>6. CASE ~(backward >= headNum) /\ ~isOverlapped(num)
    <2>1. pc' = pc /\ range' = range /\ backward' = IF backward = 0 THEN 1 ELSE backward * 2
      BY <1>6, Zenon DEF Seek
    <2>2. range' \in [start : Nat, end : Nat, ancestor : Nat] /\ backward' \in Nat
      BY <1>1, <2>1 DEF IInv, Typed
    <2>3. /\ Whole' /\ Typed' /\ Goroutines' /\ Streaming' /\ best' = best
          /\ headNum' = headNum /\ moved' = moved /\ CommonAncestor' = CommonAncestor
      BY <1>0, <2>1, <2>2, SearchStep, SMTT(60)
    <2>4. InRange'
      BY <1>0, <2>1, <2>3 DEF IInv, InRange
    <2>5. Searching'
      BY <1>0, <2>1, <2>3 DEF IInv, Searching
    <2>6. QED
      BY <2>3, <2>4, <2>5 DEF IInv
  <1>7. QED
    BY <1>4, <1>5, <1>6

\* The bisection keeps the common ancestor between its bounds.
LEMMA FindInv == ASSUME IInv, Find PROVE IInv'
  <1> DEFINE mid == (range.start + range.end) \div 2
             N == NumberOf(best)
             CA == CommonAncestor
  <1>0. pc = "find" /\ backward' = backward /\ UNCHANGED <<repo, peer, headNum, streams, counted, moved>>
    BY Zenon DEF Find
  <1>1. /\ headNum \in Nat /\ backward \in Nat /\ N \in Nat
        /\ range \in [start : Nat, end : Nat, ancestor : Nat]
        /\ range.start <= range.end /\ range.end <= headNum /\ range.ancestor <= headNum
    BY <1>0, BestIsBlock, NumberType DEF IInv, Typed, InRange
  <1>2. /\ mid \in Nat /\ range.start <= mid /\ mid <= range.end
        /\ range.start # range.end => mid + 1 <= range.end
        /\ mid > range.start => mid - 1 \in Nat /\ range.start <= mid - 1
    BY <1>1
  <1>3. ~moved => headNum = N /\ CA <= range.end /\ (range.start <= CA \/ range.ancestor = CA)
    BY <1>0 DEF IInv, Searching
  <1>4. CA \in 0..N /\ \A n \in 0..N : isOverlapped(n) <=> n <= CA
    BY BestIsBlock, Parting
  <1>5. ~moved => (isOverlapped(mid) <=> mid <= CA)
    <2>1. ~moved => mid \in 0..N
      BY <1>1, <1>2, <1>3, SMTT(60)
    <2>2. QED
      BY <1>4, <2>1
  <1>6. CASE isOverlapped(mid) /\ range.start = range.end
    <2>1. pc' = "found" /\ range' = [range EXCEPT !.ancestor = mid]
      BY <1>6, Zenon DEF Find
    <2> HIDE DEF mid
    <2>2. /\ range' \in [start : Nat, end : Nat, ancestor : Nat]
          /\ range'.start = range.start /\ range'.end = range.end /\ range'.ancestor = mid
      BY <1>1, <1>2, <2>1
    <2>3. /\ Whole' /\ Typed' /\ Goroutines' /\ Streaming' /\ best' = best
          /\ headNum' = headNum /\ moved' = moved /\ CommonAncestor' = CommonAncestor
      BY <1>0, <1>1, <2>1, <2>2, SearchStep, SMTT(60)
    <2>4. InRange'
      BY <1>1, <1>2, <2>1, <2>2, <2>3, SMTT(60) DEF InRange
    <2>5. ~moved => mid = CA
      BY <1>1, <1>2, <1>3, <1>4, <1>5, <1>6, SMTT(60)
    <2>6. Searching'
      BY <1>3, <2>1, <2>2, <2>3, <2>5, SMTT(60) DEF Searching
    <2>7. QED
      BY <2>3, <2>4, <2>6 DEF IInv
  <1>7. CASE isOverlapped(mid) /\ range.start # range.end
    <2>1. pc' = pc /\ range' = [range EXCEPT !.start = mid + 1, !.ancestor = mid]
      BY <1>7, Zenon DEF Find
    <2> HIDE DEF mid
    <2>2. /\ range' \in [start : Nat, end : Nat, ancestor : Nat]
          /\ range'.start = mid + 1 /\ range'.end = range.end /\ range'.ancestor = mid
      <3>1. range' = [start |-> mid + 1, end |-> range.end, ancestor |-> mid]
        BY <1>1, <2>1, ZenonT(60)
      <3>2. mid + 1 \in Nat /\ range.end \in Nat
        BY <1>1, <1>2
      <3>3. QED
        BY <1>2, <3>1, <3>2
    <2>3. /\ Whole' /\ Typed' /\ Goroutines' /\ Streaming' /\ best' = best
          /\ headNum' = headNum /\ moved' = moved /\ CommonAncestor' = CommonAncestor
      BY <1>0, <1>1, <2>1, <2>2, SearchStep
    <2>4. InRange'
      BY <1>1, <1>2, <1>7, <2>1, <2>2, <2>3 DEF InRange
    <2>5. ~moved => CA <= range.end /\ (mid + 1 <= CA \/ mid = CA)
      BY <1>1, <1>2, <1>3, <1>4, <1>5, <1>7
    <2>6. Searching'
      BY <1>0, <1>3, <2>1, <2>2, <2>3, <2>5, SMTT(60) DEF Searching
    <2>7. QED
      BY <2>3, <2>4, <2>6 DEF IInv
  <1>8. CASE ~isOverlapped(mid) /\ mid > range.start
    <2>1. pc' = pc /\ range' = [range EXCEPT !.end = mid - 1]
      BY <1>8, Zenon DEF Find
    <2> HIDE DEF mid
    <2>2. /\ range' \in [start : Nat, end : Nat, ancestor : Nat]
          /\ range'.start = range.start /\ range'.end = mid - 1 /\ range'.ancestor = range.ancestor
      BY <1>1, <1>2, <1>8, <2>1, SMTT(60)
    <2>3. /\ Whole' /\ Typed' /\ Goroutines' /\ Streaming' /\ best' = best
          /\ headNum' = headNum /\ moved' = moved /\ CommonAncestor' = CommonAncestor
      BY <1>0, <1>1, <2>1, <2>2, SearchStep, SMTT(60)
    <2>4. InRange'
      BY <1>1, <1>2, <1>8, <2>1, <2>2, <2>3, SMTT(60) DEF InRange
    <2>5. ~moved => CA <= mid - 1
      BY <1>1, <1>2, <1>3, <1>4, <1>5, <1>8, SMTT(60)
    <2>6. Searching'
      BY <1>0, <1>3, <2>1, <2>2, <2>3, <2>5, SMTT(60) DEF Searching
    <2>7. QED
      BY <2>3, <2>4, <2>6 DEF IInv
  <1>9. CASE ~isOverlapped(mid) /\ ~(mid > range.start)
    <2>1. pc' = "found" /\ range' = range
      BY <1>9, Zenon DEF Find
    <2> HIDE DEF mid
    <2>3. /\ Whole' /\ Typed' /\ Goroutines' /\ Streaming' /\ best' = best
          /\ headNum' = headNum /\ moved' = moved /\ CommonAncestor' = CommonAncestor
      BY <1>0, <1>1, <2>1, SearchStep, SMTT(60)
    <2>4. InRange'
      BY <1>1, <2>1, <2>3, SMTT(60) DEF InRange
    <2>5. ~moved => range.ancestor = CA
      BY <1>1, <1>2, <1>3, <1>4, <1>5, <1>9, SMTT(60)
    <2>6. Searching'
      BY <1>3, <2>1, <2>3, <2>5, SMTT(60) DEF Searching
    <2>7. QED
      BY <2>3, <2>4, <2>6 DEF IInv
  <1>10. QED
    BY <1>6, <1>7, <1>8, <1>9

-----------------------------------------------------------------------------
(* The download. *)

\* Append adds one element at the end.
LEMMA Joined ==
  ASSUME NEW S, NEW s \in Seq(S), NEW e \in S
  PROVE  /\ Append(s, e) \in Seq(S) /\ Len(Append(s, e)) = Len(s) + 1
         /\ \A i \in 1..Len(s) : Append(s, e)[i] = s[i]
         /\ Append(s, e)[Len(s) + 1] = e
  OBVIOUS

\* Head and Tail of a nonempty sequence.
LEMMA Rest ==
  ASSUME NEW S, NEW s \in Seq(S), s # <<>>
  PROVE  /\ Head(s) = s[1] /\ s[1] \in S /\ 1 \in 1..Len(s)
         /\ Tail(s) \in Seq(S) /\ Len(Tail(s)) = Len(s) - 1 /\ Len(Tail(s)) \in Nat /\ Len(s) \in Nat
         /\ \A i \in 1..Len(Tail(s)) : Tail(s)[i] = s[i + 1] /\ i + 1 \in 1..Len(s)
  OBVIOUS

\* The answer is the next part of the peer's chain, and is empty only past its end.
LEMMA AnswerIs ==
  ASSUME peerBest \in Blocks, NEW n \in Nat
  PROVE  /\ Answer(n) \in Seq(Blocks)
         /\ \A i \in 1..Len(Answer(n)) : Answer(n)[i] \in Chain[peerBest] /\ NumberOf(Answer(n)[i]) = n + i - 1
         /\ Answer(n) = <<>> => NumberOf(peerBest) < n
  <1> DEFINE P == NumberOf(peerBest)
             m == IF P < n THEN 0 ELSE P - n + 1
             k == IF m < BatchSize THEN m ELSE BatchSize
  <1>0. P \in Nat
    BY NumberType, SMTT(60)
  <1>1. k \in Nat /\ (k = 0 => P < n) /\ \A i \in 1..k : n + i - 1 \in Nat /\ n + i - 1 <= P
    BY <1>0, Constants, SMTT(60)
  <1>2. Answer(n) = [i \in 1..k |-> CHOOSE b \in At(peerBest, n + i - 1) : TRUE]
    BY DEF Answer
  <1> HIDE DEF k
  <1>3. ASSUME NEW i \in 1..k
        PROVE  Answer(n)[i] \in Chain[peerBest] /\ NumberOf(Answer(n)[i]) = n + i - 1
    <2> DEFINE x == n + i - 1
    <2>1. x \in Nat /\ x <= P
      BY <1>1
    <2>2. Answer(n)[i] = CHOOSE b \in At(peerBest, x) : TRUE
      BY <1>2, SMTT(60)
    <2> HIDE DEF x
    <2>3. PICK c \in Chain[peerBest] : NumberOf(c) = x /\ At(peerBest, x) = {c}
      BY <2>1, OneAt, SMTT(60)
    <2>4. (CHOOSE b \in At(peerBest, x) : TRUE) = c
      BY <2>3, SMTT(60)
    <2>5. QED
      BY <2>2, <2>3, <2>4, SMTT(60) DEF x
  <1>4. \A i \in 1..k : Answer(n)[i] \in Blocks
    BY <1>3, Tree
  <1>5. DOMAIN Answer(n) = 1..k /\ Answer(n) \in [1..k -> Blocks]
    BY <1>2, <1>4
  <1>6. Answer(n) \in Seq(Blocks) /\ Len(Answer(n)) = k
    BY <1>1, <1>5, SMTT(60)
  <1>7. QED
    BY <1>1, <1>3, <1>6, SMTT(60)

\* A goroutine's step leaves the search alone.
LEMMA StreamStep ==
  ASSUME IInv, pc = "download", pc' = pc, UNCHANGED <<peer, search, counted, moved>>,
         fromNum' \in Nat, batch' \in Seq(Blocks), blockCh' \in Seq(Blocks), Len(blockCh') <= StreamCap,
         fetcher' \in {"off", "on", "failing", "done"}, handler' \in {"off", "on", "failing", "done"},
         errs' \in 0..2
  PROVE  Typed' /\ InRange' /\ Searching' /\ peerBest' = peerBest /\ moved' = moved
  <1>1. /\ peerBest' = peerBest /\ peerHead' = peerHead /\ syncCount' = syncCount
        /\ headNum' = headNum /\ backward' = backward /\ range' = range /\ moved' = moved
    BY Zenon DEF peer, search, counted
  <1>2. Typed'
    BY <1>1, Zenon DEF IInv, Typed
  <1>3. InRange'
    BY <1>1, Zenon DEF IInv, InRange
  <1>4. Searching'
    BY DEF Searching
  <1>5. QED
    BY <1>1, <1>2, <1>3, <1>4, SMTT(60)

\* Starting the download behind the ancestor found keeps the invariant.
LEMMA DownloadInv == ASSUME IInv, Download PROVE IInv'
  <1>0. /\ pc = "found" /\ pc' = "download" /\ fromNum' = range.ancestor + 1
        /\ fetcher' = "on" /\ handler' = "on" /\ errs' = 0
        /\ UNCHANGED <<repo, peer, search, batch, blockCh, counted, moved>>
    BY Zenon DEF Download
  <1>1. /\ stored' = stored /\ best' = best /\ peerBest' = peerBest /\ peerHead' = peerHead
        /\ syncCount' = syncCount /\ headNum' = headNum /\ backward' = backward /\ range' = range
        /\ moved' = moved /\ batch' = batch /\ blockCh' = blockCh
    BY <1>0, Zenon DEF repo, peer, search, counted
  <1>2. batch = <<>> /\ blockCh = <<>>
    BY <1>0, SMTT(60) DEF IInv, Goroutines
  <1>3. range.ancestor \in Nat
    BY DEF IInv, Typed
  <1>4. Whole'
    BY <1>0, SameWhole, Zenon DEF IInv
  <1>5. Typed'
    <2>1. fromNum' \in Nat /\ errs' \in 0..2
      BY <1>0, <1>3, SMTT(60)
    <2>2. QED
      BY <1>0, <1>1, <2>1, Zenon DEF IInv, Typed
  <1>6. InRange' /\ Searching' /\ Goroutines'
    BY <1>0, <1>1 DEF IInv, InRange, Searching, Goroutines
  <1>7. Streaming'
    <2> DEFINE CA == CommonAncestor
    <2> SUFFICES ASSUME ~moved PROVE Segment'
      BY <1>1, Zenon DEF Streaming
    <2>1. range.ancestor = CA /\ CA \in Nat
      BY <1>0, <1>3, SMTT(60) DEF IInv, Searching
    <2>2. next' = CA + 1 /\ low' = CA + 1
      BY <1>0, <1>1, <1>2, <2>1, SMTT(60) DEF next, low
    <2>3. CA \in 0..NumberOf(best) /\ \A n \in 0..NumberOf(best) : isOverlapped(n) <=> n <= CA
      BY BestIsBlock, Parting
    <2>4. ASSUME NEW b \in Chain[peerBest], NumberOf(b) < CA + 1 PROVE b \in stored
      <3>1. NumberOf(b) \in Nat /\ NumberOf(best) \in Nat
        BY BestIsBlock, Tree, NumberType, SMTT(60)
      <3>2. isOverlapped(NumberOf(b))
        BY <2>1, <2>3, <2>4, <3>1, SMTT(60)
      <3>3. b \in Chain[best]
        BY <3>2, Zenon DEF isOverlapped, At
      <3>4. QED
        BY <3>3, Zenon DEF IInv, Whole
    <2>5. \A b \in Chain[peerBest'] : NumberOf(b) < low' => b \in stored'
      BY <1>1, <2>2, <2>4, Zenon
    <2>6. low' \in Nat
      BY <2>1, <2>2, SMTT(60)
    <2>7. batch' = <<>> /\ blockCh' = <<>> /\ 1..Len(<<>>) = {}
      BY <1>1, <1>2
    <2>8. "on" # "done"
      OBVIOUS
    <2>9. QED
      BY <1>0, <2>5, <2>6, <2>7, <2>8, Zenon DEF Segment
  <1>8. QED
    BY <1>4, <1>5, <1>6, <1>7 DEF IInv

\* The goroutines of download run only inside download.
LEMMA Downloading == IInv /\ (fetcher # "off" \/ handler # "off") => pc = "download"
  BY Zenon DEF IInv, Goroutines

\* What a goroutine's step may rely on.
LEMMA StreamTypes ==
  ASSUME IInv
  PROVE  /\ fromNum \in Nat /\ batch \in Seq(Blocks) /\ blockCh \in Seq(Blocks) /\ Len(blockCh) <= StreamCap
         /\ fetcher \in {"off", "on", "failing", "done"} /\ handler \in {"off", "on", "failing", "done"}
         /\ errs \in 0..2 /\ moved \in BOOLEAN
         /\ Len(batch) \in Nat /\ Len(blockCh) \in Nat
  <1>1. batch \in Seq(Blocks) /\ blockCh \in Seq(Blocks)
    BY Zenon DEF IInv, Typed
  <1>2. Len(batch) \in Nat /\ Len(blockCh) \in Nat
    BY <1>1
  <1>3. QED
    BY <1>1, <1>2, Zenon DEF IInv, Typed

\* A batch fetched from the peer continues what is stored or under way.
LEMMA FetchInv == ASSUME IInv, Fetch PROVE IInv'
  <1> DEFINE got == Answer(fromNum)
  <1>0. /\ fetcher = "on" /\ batch = <<>> /\ handler # "done" /\ batch' = got
        /\ fromNum' = fromNum + Len(got)
        /\ fetcher' = (IF got = <<>> THEN "done" ELSE fetcher)
        /\ pc' = pc /\ blockCh' = blockCh /\ handler' = handler /\ errs' = errs
        /\ UNCHANGED <<repo, peer, search, counted, moved>>
    BY DEF Fetch, cancelled
  <1>1. pc = "download"
    BY <1>0, Downloading, SMTT(60)
  <1>2. /\ got \in Seq(Blocks)
        /\ \A i \in 1..Len(got) : got[i] \in Chain[peerBest] /\ NumberOf(got[i]) = fromNum + i - 1
        /\ got = <<>> => NumberOf(peerBest) < fromNum
    BY BestIsBlock, StreamTypes, AnswerIs, ZenonT(60)
  <1> HIDE DEF got
  <1>3. Whole' /\ stored' = stored
    BY <1>0, SameWhole, Zenon DEF IInv, repo
  <1>4. fromNum' \in Nat /\ Len(got) \in Nat /\ fetcher' \in {"off", "on", "failing", "done"}
    BY <1>0, <1>2, StreamTypes
  <1>5. Typed' /\ InRange' /\ Searching' /\ peerBest' = peerBest /\ moved' = moved
    BY <1>0, <1>1, <1>2, <1>4, StreamTypes, StreamStep, SMTT(60)
  <1>6. Goroutines'
    BY <1>0, <1>1 DEF Goroutines
  <1>7. Streaming'
    <2> SUFFICES ASSUME ~moved, errs = 0, handler # "failing" PROVE Segment'
      BY <1>0, <1>5, SMTT(60) DEF Streaming
    <2>1. /\ low \in Nat
          /\ \A i \in 1..Len(blockCh) : blockCh[i] \in Chain[peerBest] /\ NumberOf(blockCh[i]) = low + i - 1
          /\ \A b \in Chain[peerBest] : NumberOf(b) < low => b \in stored
      BY <1>1, Zenon DEF IInv, Streaming, Segment
    <2>2. next' = fromNum /\ low' = low
      BY <1>0, <1>4, StreamTypes, SMTT(60) DEF next, low
    <2>3. \A i \in 1..Len(batch') : batch'[i] \in Chain[peerBest'] /\ NumberOf(batch'[i]) = next' + i - 1
      BY <1>0, <1>2, <1>5, <2>2, Zenon
    <2>4. fetcher' = "done" => batch' = <<>> /\ NumberOf(peerBest') < fromNum'
      <3>1. fetcher' = "done" => got = <<>>
        BY <1>0, SMTT(60)
      <3>2. got = <<>> => fromNum' = fromNum
        BY <1>0, <1>4, StreamTypes, SMTT(60)
      <3>3. QED
        BY <1>0, <1>2, <1>5, <3>1, <3>2, Zenon
    <2>5. QED
      BY <1>0, <1>3, <1>5, <2>1, <2>2, <2>3, <2>4, Zenon DEF Segment
  <1>8. QED
    BY <1>3, <1>5, <1>6, <1>7, SMTT(60) DEF IInv

\* A failing request for a batch keeps the invariant.
LEMMA FetchFailsInv == ASSUME IInv, FetchFails PROVE IInv'
  <1>0. /\ fetcher = "on" /\ batch = <<>> /\ fetcher' = "failing" /\ pc' = pc
        /\ fromNum' = fromNum /\ batch' = batch /\ blockCh' = blockCh /\ handler' = handler /\ errs' = errs
        /\ UNCHANGED <<repo, peer, search, counted, moved>>
    BY Zenon DEF FetchFails
  <1>1. pc = "download"
    BY <1>0, Downloading, SMTT(60)
  <1>2. Whole' /\ stored' = stored
    BY <1>0, SameWhole, Zenon DEF IInv, repo
  <1>3. Typed' /\ InRange' /\ Searching' /\ peerBest' = peerBest /\ moved' = moved
    BY <1>0, <1>1, StreamTypes, StreamStep, SMTT(60)
  <1>4. Goroutines'
    BY <1>0, <1>1, SMTT(60) DEF IInv, Goroutines
  <1>5. Streaming'
    <2>1. next' = next /\ low' = low
      BY <1>0, Zenon DEF next, low
    <2>2. "failing" # "done"
      OBVIOUS
    <2>3. Segment => Segment'
      BY <1>0, <1>2, <1>3, <2>1, <2>2, Zenon DEF Segment
    <2>4. QED
      BY <1>0, <1>3, <2>3, SMTT(60) DEF IInv, Streaming
  <1>6. QED
    BY <1>2, <1>3, <1>4, <1>5 DEF IInv

\* Passing a block to the channel keeps the continuity of the stream.
LEMMA PushInv == ASSUME IInv, Push PROVE IInv'
  <1>0. /\ fetcher = "on" /\ batch # <<>> /\ pc' = pc
        /\ fromNum' = fromNum /\ handler' = handler /\ errs' = errs
        /\ UNCHANGED <<repo, peer, search, counted, moved>>
        /\ \/ /\ Len(blockCh) < StreamCap /\ blockCh' = Append(blockCh, Head(batch))
              /\ batch' = Tail(batch) /\ fetcher' = fetcher
           \/ handler = "done" /\ fetcher' = "done" /\ blockCh' = blockCh /\ batch' = batch
    BY Zenon DEF Push, cancelled
  <1>1. pc = "download" /\ (handler = "done" => errs # 0)
    BY <1>0, Downloading DEF IInv, Goroutines
  <1>2. Whole' /\ stored' = stored
    BY <1>0, SameWhole, Zenon DEF IInv, repo
  <1>3. CASE /\ Len(blockCh) < StreamCap /\ blockCh' = Append(blockCh, Head(batch))
             /\ batch' = Tail(batch) /\ fetcher' = fetcher
    <2> DEFINE e == Head(batch)
    <2>1. /\ e = batch[1] /\ e \in Blocks /\ 1 \in 1..Len(batch)
          /\ Tail(batch) \in Seq(Blocks) /\ Len(Tail(batch)) = Len(batch) - 1 /\ Len(Tail(batch)) \in Nat
          /\ \A i \in 1..Len(Tail(batch)) : Tail(batch)[i] = batch[i + 1] /\ i + 1 \in 1..Len(batch)
      BY <1>0, StreamTypes, Rest, SMTT(60)
    <2> HIDE DEF e
    <2>2. /\ Append(blockCh, e) \in Seq(Blocks) /\ Len(Append(blockCh, e)) = Len(blockCh) + 1
          /\ \A i \in 1..Len(blockCh) : Append(blockCh, e)[i] = blockCh[i]
          /\ Append(blockCh, e)[Len(blockCh) + 1] = e
      BY <2>1, StreamTypes, Joined, SMTT(60)
    <2>3. blockCh' = Append(blockCh, e) /\ batch' = Tail(batch) /\ Len(blockCh') <= StreamCap
      <3>1. blockCh' = Append(blockCh, e) /\ batch' = Tail(batch)
        BY <1>3, SMTT(60) DEF e
      <3>2. QED
        BY <1>3, <2>2, <3>1, StreamTypes, Constants, SMTT(60)
    <2>4. Typed' /\ InRange' /\ Searching' /\ peerBest' = peerBest /\ moved' = moved
      BY <1>0, <1>1, <1>3, <2>1, <2>2, <2>3, StreamTypes, StreamStep, ZenonT(60)
    <2>5. Goroutines'
      BY <1>0, <1>1, SMTT(60) DEF Goroutines
    <2>6. Streaming'
      <3> SUFFICES ASSUME ~moved, errs = 0, handler # "failing" PROVE Segment'
        BY <1>0, <2>4, SMTT(60) DEF Streaming
      <3>1. /\ low \in Nat
            /\ \A i \in 1..Len(batch) : batch[i] \in Chain[peerBest] /\ NumberOf(batch[i]) = next + i - 1
            /\ \A i \in 1..Len(blockCh) : blockCh[i] \in Chain[peerBest] /\ NumberOf(blockCh[i]) = low + i - 1
            /\ \A b \in Chain[peerBest] : NumberOf(b) < low => b \in stored
        BY <1>1, Zenon DEF IInv, Streaming, Segment
      <3>2. next' = next + 1 /\ low' = low /\ next = low + Len(blockCh) /\ next \in Nat
        <4>1. Len(batch') = Len(batch) - 1 /\ Len(blockCh') = Len(blockCh) + 1 /\ fromNum' = fromNum
          BY <1>0, <2>1, <2>2, <2>3, Zenon
        <4>2. fromNum \in Nat /\ Len(batch) \in Nat /\ Len(blockCh) \in Nat /\ low \in Nat
          BY <3>1, StreamTypes, SMTT(60)
        <4>3. QED
          BY <4>1, <4>2, SMTT(60) DEF next, low
      <3>3. ASSUME NEW i \in 1..Len(batch')
            PROVE  batch'[i] \in Chain[peerBest'] /\ NumberOf(batch'[i]) = next' + i - 1
        <4>1. batch'[i] = batch[i + 1] /\ i + 1 \in 1..Len(batch)
          BY <2>1, <2>3, SMTT(60)
        <4>2. batch[i + 1] \in Chain[peerBest] /\ NumberOf(batch[i + 1]) = next + (i + 1) - 1
          BY <3>1, <4>1, SMTT(60)
        <4>3. next + (i + 1) - 1 = next' + i - 1
          BY <3>2, SMTT(60)
        <4>4. QED
          BY <2>4, <4>1, <4>2, <4>3, SMTT(60)
      <3>4. ASSUME NEW i \in 1..Len(blockCh')
            PROVE  blockCh'[i] \in Chain[peerBest'] /\ NumberOf(blockCh'[i]) = low' + i - 1
        <4>1. CASE i \in 1..Len(blockCh)
          BY <2>2, <2>3, <2>4, <3>1, <3>2, <4>1, Zenon
        <4>2. CASE i = Len(blockCh) + 1
          <5>1. blockCh'[i] = batch[1]
            BY <2>1, <2>2, <2>3, <4>2, SMTT(60)
          <5>2. batch[1] \in Chain[peerBest] /\ NumberOf(batch[1]) = next + 1 - 1
            BY <2>1, <3>1, SMTT(60)
          <5>3. next + 1 - 1 = low' + i - 1
            BY <3>1, <3>2, <4>2, StreamTypes, SMTT(60)
          <5>4. QED
            BY <2>4, <5>1, <5>2, <5>3, SMTT(60)
        <4>3. i \in 1..Len(blockCh) \/ i = Len(blockCh) + 1
          BY <2>2, <2>3, StreamTypes, SMTT(60)
        <4>4. QED
          BY <4>1, <4>2, <4>3, SMTT(60)
      <3>5. fetcher' # "done"
        BY <1>0, <1>3, SMTT(60)
      <3>6. QED
        BY <1>2, <2>4, <3>1, <3>2, <3>3, <3>4, <3>5, Zenon DEF Segment
    <2>7. QED
      BY <1>2, <2>4, <2>5, <2>6 DEF IInv
  <1>4. CASE handler = "done" /\ fetcher' = "done" /\ blockCh' = blockCh /\ batch' = batch
    <2>1. Typed' /\ InRange' /\ Searching'
      BY <1>0, <1>1, <1>4, StreamTypes, StreamStep, SMTT(60)
    <2>2. Goroutines' /\ Streaming'
      BY <1>0, <1>1, <1>4, Zenon DEF IInv, Goroutines, Streaming
    <2>3. QED
      BY <1>2, <2>1, <2>2, SMTT(60) DEF IInv
  <1>5. QED
    BY <1>0, <1>3, <1>4, SMTT(60)

\* Taking a block from the channel and storing it keeps the invariant.
LEMMA HandleInv == ASSUME IInv, Handle PROVE IInv'
  <1> DEFINE b == Head(blockCh)
  <1>0. /\ handler = "on" /\ blockCh # <<>> /\ blockCh' = Tail(blockCh) /\ pc' = pc
        /\ fromNum' = fromNum /\ batch' = batch /\ fetcher' = fetcher /\ errs' = errs
        /\ UNCHANGED <<peer, search, counted, moved>>
        /\ \/ b \in stored /\ handler' = handler /\ UNCHANGED repo
           \/ b \notin stored /\ ParentOf(b) \in stored /\ Accepted(b) /\ handler' = handler
           \/ b \notin stored /\ handler' = "failing" /\ UNCHANGED repo
    BY Zenon DEF Handle
  <1>1. pc = "download"
    BY <1>0, Downloading, SMTT(60)
  <1>2. /\ b = blockCh[1] /\ b \in Blocks /\ 1 \in 1..Len(blockCh)
        /\ Tail(blockCh) \in Seq(Blocks) /\ Len(Tail(blockCh)) = Len(blockCh) - 1 /\ Len(Tail(blockCh)) \in Nat
        /\ \A i \in 1..Len(Tail(blockCh)) : Tail(blockCh)[i] = blockCh[i + 1] /\ i + 1 \in 1..Len(blockCh)
    BY <1>0, StreamTypes, Rest, SMTT(60)
  <1> HIDE DEF b
  <1>3. Whole' /\ stored \subseteq stored' /\ (handler' = handler => b \in stored')
    <2>1. CASE UNCHANGED repo /\ (b \in stored \/ handler' = "failing")
      <3>1. Whole' /\ stored' = stored
        BY <2>1, SameWhole, Zenon DEF IInv, repo
      <3>2. "failing" # "on"
        OBVIOUS
      <3>3. QED
        BY <1>0, <2>1, <3>1, <3>2, Zenon
    <2>2. CASE b \notin stored /\ ParentOf(b) \in stored /\ Accepted(b)
      <3>1. Whole' /\ stored \subseteq stored'
        BY <1>2, <2>2, AcceptedWhole, SMTT(60) DEF IInv
      <3>2. b \in stored'
        BY <2>2, Zenon DEF Accepted
      <3>3. QED
        BY <3>1, <3>2, SMTT(60)
    <2>3. QED
      BY <1>0, <2>1, <2>2, Zenon
  <1>4. Len(blockCh') <= StreamCap /\ handler' \in {"off", "on", "failing", "done"}
    BY <1>0, <1>2, StreamTypes, Constants, SMTT(60)
  <1>5. Typed' /\ InRange' /\ Searching' /\ peerBest' = peerBest /\ moved' = moved
    BY <1>0, <1>1, <1>2, <1>4, StreamTypes, StreamStep, SMTT(60)
  <1>6. Goroutines'
    BY <1>0, <1>1, SMTT(60) DEF Goroutines
  <1>7. Streaming'
    <2> SUFFICES ASSUME ~moved, errs = 0, handler' # "failing" PROVE Segment'
      BY <1>0, <1>5, SMTT(60) DEF Streaming
    <2>0. handler # "failing" /\ b \in stored'
      BY <1>0, <1>3
    <2>1. /\ low \in Nat
          /\ \A i \in 1..Len(batch) : batch[i] \in Chain[peerBest] /\ NumberOf(batch[i]) = next + i - 1
          /\ \A i \in 1..Len(blockCh) : blockCh[i] \in Chain[peerBest] /\ NumberOf(blockCh[i]) = low + i - 1
          /\ \A c \in Chain[peerBest] : NumberOf(c) < low => c \in stored
          /\ fetcher = "done" => batch = <<>> /\ NumberOf(peerBest) < fromNum
      BY <1>1, <2>0, Zenon DEF IInv, Streaming, Segment
    <2>2. next' = next /\ low' = low + 1 /\ next \in Int
      BY <1>0, <1>2, <2>1, StreamTypes, SMTT(60) DEF next, low
    <2>3. ASSUME NEW i \in 1..Len(blockCh')
          PROVE  blockCh'[i] \in Chain[peerBest'] /\ NumberOf(blockCh'[i]) = low' + i - 1
      <3>1. blockCh'[i] = blockCh[i + 1] /\ i + 1 \in 1..Len(blockCh)
        BY <1>0, <1>2, SMTT(60)
      <3>2. blockCh[i + 1] \in Chain[peerBest] /\ NumberOf(blockCh[i + 1]) = low + (i + 1) - 1
        BY <2>1, <3>1, SMTT(60)
      <3>3. low + (i + 1) - 1 = low' + i - 1
        BY <2>1, <2>2, SMTT(60)
      <3>4. QED
        BY <1>5, <3>1, <3>2, <3>3, SMTT(60)
    <2>4. ASSUME NEW c \in Chain[peerBest], NumberOf(c) < low + 1 PROVE c \in stored'
      <3>1. b \in Chain[peerBest] /\ NumberOf(b) = low + 1 - 1
        BY <1>2, <2>1, SMTT(60)
      <3>2. c \in Blocks /\ NumberOf(c) \in Nat
        BY BestIsBlock, Tree, NumberType, SMTT(60)
      <3>3. NumberOf(c) < low \/ NumberOf(c) = NumberOf(b)
        BY <2>1, <2>4, <3>1, <3>2, SMTT(60)
      <3>4. CASE NumberOf(c) < low
        BY <1>3, <2>1, <3>4, Zenon
      <3>5. CASE NumberOf(c) = NumberOf(b)
        BY <2>0, <3>1, <3>5, BestIsBlock, SameNumber, SMTT(60)
      <3>6. QED
        BY <3>3, <3>4, <3>5, SMTT(60)
    <2>5. low' \in Nat
      BY <2>1, <2>2
    <2>6. QED
      BY <1>0, <1>5, <2>1, <2>2, <2>3, <2>4, <2>5, Zenon DEF Segment
  <1>8. QED
    BY <1>3, <1>5, <1>6, <1>7, SMTT(60) DEF IInv

\* The handler or the fetcher ends; only the first does so without an error, at the end
\* of the stream.
LEMMA EndInv ==
  ASSUME IInv, HandlerEnds \/ ReportHandler \/ ReportFetcher
  PROVE  IInv'
  <1>0. /\ pc = "download" /\ pc' = pc /\ fromNum' = fromNum /\ batch' = batch /\ blockCh' = blockCh
        /\ UNCHANGED <<repo, peer, search, counted, moved>>
    <2>1. fetcher # "off" \/ handler # "off"
      BY DEF HandlerEnds, ReportHandler, ReportFetcher
    <2>2. QED
      BY <2>1, Downloading, Zenon DEF HandlerEnds, ReportHandler, ReportFetcher
  <1>1. \/ /\ handler = "on" /\ handler' = "done" /\ fetcher = "done" /\ blockCh = <<>>
           /\ fetcher' = fetcher /\ errs' = errs
        \/ /\ errs' = errs + 1 /\ errs < 2
           /\ fetcher' \in {fetcher, "done"} /\ handler' \in {handler, "done"}
    BY DEF HandlerEnds, ReportHandler, ReportFetcher, ErrCap
  <1>2. /\ fetcher' \in {"off", "on", "failing", "done"} /\ handler' \in {"off", "on", "failing", "done"}
        /\ errs' \in 0..2
        /\ errs' = 0 => handler = "on" /\ errs = 0 /\ fetcher = "done" /\ blockCh = <<>> /\ fetcher' = fetcher
    BY <1>1, StreamTypes
  <1>3. Whole' /\ stored' = stored
    BY <1>0, SameWhole, Zenon DEF IInv, repo
  <1>4. Typed' /\ InRange' /\ Searching' /\ peerBest' = peerBest /\ moved' = moved
    BY <1>0, <1>2, StreamTypes, StreamStep
  <1>5. Goroutines'
    BY <1>0, <1>2, Zenon DEF Goroutines
  <1>6. Streaming'
    <2>1. next' = next /\ low' = low
      BY <1>0, Zenon DEF next, low
    <2>2. "on" # "failing"
      OBVIOUS
    <2>3. errs' = 0 /\ Segment => Segment'
      BY <1>0, <1>2, <1>3, <1>4, <2>1, Zenon DEF Segment
    <2>4. QED
      BY <1>0, <1>2, <1>4, <2>2, <2>3 DEF IInv, Streaming
  <1>7. QED
    BY <1>3, <1>4, <1>5, <1>6 DEF IInv

\* The end of a round keeps the invariant.
LEMMA FinishInv == ASSUME IInv, NEW recent, Finish(recent) PROVE IInv'
  <1>0. /\ pc' = "idle" /\ batch' = <<>> /\ blockCh' = <<>> /\ fetcher' = "off" /\ handler' = "off"
        /\ Count(recent) \/ syncCount' = syncCount
        /\ fromNum' = fromNum /\ errs' = errs /\ moved' = moved /\ UNCHANGED <<repo, peer, search>>
    BY DEF Finish, counted
  <1>1. /\ peerBest' = peerBest /\ peerHead' = peerHead
        /\ headNum' = headNum /\ backward' = backward /\ range' = range
    BY <1>0, Zenon DEF peer, search
  <1>2. syncCount' \in 0..3
    BY <1>0, CountType DEF IInv, Typed
  <1>3. Whole'
    BY <1>0, SameWhole, Zenon DEF IInv
  <1>4. Typed'
    <2>1. <<>> \in Seq(Blocks) /\ Len(<<>>) <= StreamCap
      BY Constants, SMTT(60)
    <2>2. QED
      BY <1>0, <1>1, <1>2, <2>1, Zenon DEF IInv, Typed
  <1>5. InRange' /\ Searching' /\ Goroutines' /\ Streaming'
    BY <1>0, <1>1 DEF IInv, InRange, Searching, Goroutines, Streaming
  <1>6. QED
    BY <1>3, <1>4, <1>5, SMTT(60) DEF IInv

\* Every step keeps the invariant.
LEMMA StepIInv == IInv /\ [Next]_vars => IInv'
  <1> SUFFICES ASSUME IInv, [Next]_vars PROVE IInv'
    OBVIOUS
  <1>1. CASE Step
    BY <1>1, StartSyncInv, SearchFailsInv, SeekInv, FindInv, DownloadInv, FetchInv, FetchFailsInv,
       PushInv, HandleInv, EndInv, Zenon DEF Step
  <1>2. CASE \E recent \in BOOLEAN : BestAssumed(recent) \/ Finish(recent)
    BY <1>2, BestAssumedInv, FinishInv, Zenon
  <1>3. CASE \E b \in Blocks : LocalCommit(b) \/ PeerCommit(b)
    BY <1>3, LocalCommitInv, PeerCommitInv, Zenon
  <1>4. CASE UNCHANGED vars
    <2>1. UNCHANGED repo /\ pc' = pc /\ UNCHANGED <<search, streams>> /\ moved' = moved
          /\ UNCHANGED <<peer, counted>>
      BY <1>4, Zenon DEF vars
    <2>2. /\ stored' = stored /\ best' = best /\ peerBest' = peerBest /\ peerHead' = peerHead
          /\ syncCount' = syncCount
      BY <2>1, Zenon DEF repo, peer, counted
    <2>3. Whole'
      BY <2>1, SameWhole, Zenon DEF IInv
    <2>4. Typed' /\ InRange' /\ Goroutines'
      BY <2>1, <2>2, AsideKept, Zenon DEF IInv, Typed
    <2>5. moved' \/ (~moved /\ best' = best /\ peerBest' = peerBest)
      BY <2>1, <2>2, Zenon DEF IInv, Typed
    <2>6. Searching' /\ Streaming'
      BY <2>1, <2>2, <2>5, SearchingKept, StreamingKept, Zenon DEF IInv
    <2>7. QED
      BY <2>3, <2>4, <2>6 DEF IInv
  <1>5. QED
    BY <1>1, <1>2, <1>3, <1>4, Zenon DEF Next

-----------------------------------------------------------------------------
\* The invariant holds in every state of a sync.
LEMMA InvariantHolds == Spec => []IInv
  BY InitIInv, StepIInv, PTL DEF Spec

\* The search that doubles and then halves (fastSeek, find) finds where the chains part,
\* if both stand still, wherever they part and however long they are; and the state
\* keeps its type.
THEOREM SearchFindsAncestor == Spec => []AncestorFound
  <1>1. IInv => AncestorFound
    <2> SUFFICES ASSUME IInv PROVE AncestorFound
      OBVIOUS
    <2>1. best \in stored /\ stored \subseteq Blocks
      BY Zenon DEF IInv, Whole
    <2>2. range.start <= range.end + 1 /\ range.ancestor <= headNum
      BY DEF IInv, Typed, InRange
    <2>3. Len(blockCh) <= StreamCap /\ errs <= 2 /\ syncCount \in 0..3
      BY DEF IInv, Typed
    <2>4. TypeOK
      BY <2>1, <2>2, <2>3, Zenon DEF IInv, Typed, TypeOK
    <2>5. pc = "found" /\ ~moved => range.ancestor = CommonAncestor
      BY DEF IInv, Searching
    <2>6. QED
      BY <2>4, <2>5 DEF AncestorFound
  <1>2. QED
    BY <1>1, InvariantHolds, PTL

\* A sync that reports no error, and during which no chain moved by itself, ends with
\* the peer's best block in the repository and nothing better at the peer, whatever the
\* size of an answer and of the stream.
THEOREM SyncStaysComplete == Spec => SyncCatchesUp
  <1> DEFINE Ends == \E recent \in BOOLEAN : Finish(recent)
  <1>1. ASSUME IInv, Ends, errs = 0, ~moved
        PROVE  peerBest \in stored /\ Score[best] >= Score[peerBest]
    <2>1. pc = "download" /\ fetcher = "done" /\ handler = "done"
      BY <1>1, Zenon DEF Finish
    <2>2. blockCh = <<>>
      BY <1>1, <2>1, Zenon DEF IInv, Goroutines
    <2>3. /\ \A b \in Chain[peerBest] : NumberOf(b) < low => b \in stored
          /\ batch = <<>> /\ NumberOf(peerBest) < fromNum
      <3>1. handler # "failing"
        BY <2>1
      <3>2. QED
        BY <1>1, <2>1, <3>1, Zenon DEF IInv, Streaming, Segment
    <2>4. low = fromNum
      BY <1>1, <2>2, <2>3, StreamTypes, SMTT(60) DEF low, next
    <2>5. peerBest \in stored
      BY <1>1, <2>3, <2>4, BestIsBlock, Tree, SMTT(60)
    <2>6. Score[peerBest] <= Score[best] /\ Score[peerBest] \in Nat /\ Score[best] \in Nat
      BY <1>1, <2>5, BestIsBlock, Constants, SMTT(60) DEF IInv, Whole
    <2>7. QED
      BY <2>5, <2>6
  <1>2. IInv /\ [Next]_vars
          => [Ends /\ errs = 0 /\ ~moved => peerBest \in stored /\ Score[best] >= Score[peerBest]]_vars
    BY <1>1
  <1>3. QED
    BY <1>2, InvariantHolds, PTL DEF Spec, SyncCatchesUp

-----------------------------------------------------------------------------
(* Calls to a peer. *)

RpcTyped ==
  /\ calls \in Nat /\ calls <= MaxCalls
  /\ call \in [Callers -> Nat]
  /\ drawn \in [Calls -> Ids \cup {0}]
  /\ stage \in [Callers -> {"idle", "prepared", "waiting", "returned"}]
  /\ outcome \in [Callers -> {"none", "ok", "failed"}]
  /\ pendings \in [Ids -> Nat]
  /\ errCh \in [Calls -> Seq(BOOLEAN)]
  /\ result \in [Calls -> Nat]
  /\ answers \in [Calls -> 0..MaxAnswers]
  /\ wire \in Seq(Msgs)
  /\ serve = <<"reading">> \/ \E k \in Calls, m \in Msgs : serve = <<"delivering", k, m>>

\* A call under way was made, and so was one that succeeded; callers under way make
\* different calls; a call that was made has its id; what was asked, and what is on the
\* way back, belongs to a call that was made; a channel has room for one.
CallsMade ==
  /\ \A c \in Callers : stage[c] # "idle" \/ outcome[c] = "ok" => call[c] \in 1..calls
  /\ \A c, d \in Callers : c # d /\ stage[c] # "idle" /\ stage[d] # "idle" => call[c] # call[d]
  /\ \A k \in 1..calls : drawn[k] \in Ids
  /\ \A k \in Calls : answers[k] # 0 => k <= calls
  /\ \A n \in 1..Len(wire) : wire[n].to <= calls
  /\ \A k \in Calls : Len(errCh[k]) <= 1

\* A listener belongs to a call under way, the last that drew its id.
Listened ==
  \A i \in Ids : pendings[i] # 0 =>
    /\ \E c \in Callers : call[c] = pendings[i] /\ stage[c] # "idle" /\ drawn[call[c]] = i
    /\ \A j \in 1..calls : drawn[j] = i => j <= pendings[i]

\* Why a call may be without its listener before it returns.
Excused(k) ==
  \/ errCh[k] # <<>> \/ (serve # <<"reading">> /\ serve[2] = k) \/ done
  \/ \E j \in 1..calls : j # k /\ drawn[j] = drawn[k]

Waits ==
  \A c \in Callers : stage[c] \in {"prepared", "waiting"} =>
    pendings[drawn[call[c]]] = call[c] \/ Excused(call[c])

\* The answer to call j may end up with call k.
Fits(k, j) == k \in 1..calls /\ j \in 1..k /\ drawn[j] = drawn[k]

\* What is being delivered, what is in a channel and what a caller took from it fits.
Decoded ==
  /\ serve # <<"reading">> => Fits(serve[2], serve[3].to)
  /\ \A k \in Calls : errCh[k] # <<>> /\ Head(errCh[k]) => Fits(k, result[k])
  /\ \A c \in Callers : outcome[c] = "ok" => Fits(call[c], result[call[c]])

RpcIInv == RpcTyped /\ CallsMade /\ Listened /\ Waits /\ Decoded

\* Taking the only value from a channel leaves it empty.
LEMMA TailOfOne ==
  ASSUME NEW s \in Seq(BOOLEAN), s # <<>>, Len(s) <= 1
  PROVE  Tail(s) \in Seq(BOOLEAN) /\ Tail(s) = <<>>
  <1>1. Tail(s) \in Seq(BOOLEAN) /\ Len(Tail(s)) = Len(s) - 1
    BY HeadTailProperties
  <1>2. Len(s) \in Nat /\ Len(Tail(s)) \in Nat
    BY <1>1, LenProperties
  <1>3. Len(Tail(s)) = 0
    BY <1>1, <1>2
  <1>4. QED
    BY <1>1, <1>3, EmptySeq

\* A new connection satisfies the invariant of calls.
LEMMA RpcInitIInv == RpcInit => RpcIInv
  <1> SUFFICES ASSUME RpcInit PROVE RpcIInv
    OBVIOUS
  <1>1. <<>> \in Seq(BOOLEAN) /\ <<>> \in Seq(Msgs) /\ Len(<<>>) = 0
    OBVIOUS
  <1>2. RpcTyped
    BY <1>1, RpcAssumption DEF RpcInit, RpcTyped
  <1>3. CallsMade
    BY <1>1, RpcAssumption DEF RpcInit, CallsMade, Calls
  <1>4. Listened /\ Waits
    BY DEF RpcInit, Listened, Waits
  <1>5. Decoded
    BY Zenon DEF RpcInit, Decoded
  <1>6. QED
    BY <1>2, <1>3, <1>4, <1>5, Zenon DEF RpcIInv

\* While no call is made, what fits goes on to fit.
LEMMA FitsStays ==
  ASSUME UNCHANGED <<calls, drawn>>, NEW k, NEW j
  PROVE  Fits(k, j)' <=> Fits(k, j)
  BY DEF Fits

\* What a caller under way is making is a call with an id.
LEMMA CallOf ==
  ASSUME RpcIInv, NEW c \in Callers, stage[c] # "idle"
  PROVE  /\ call[c] \in 1..calls /\ call[c] \in Calls /\ call[c] \in Nat /\ call[c] # 0
         /\ drawn[call[c]] \in Ids
  <1>1. call[c] \in 1..calls /\ call[c] \in Nat
    BY DEF RpcIInv, RpcTyped, CallsMade
  <1>2. call[c] \in Calls /\ call[c] # 0
    BY <1>1, RpcAssumption DEF RpcIInv, RpcTyped, Calls
  <1>3. QED
    BY <1>1, <1>2, Zenon DEF RpcIInv, CallsMade

\* An answer is to a call.
LEMMA ToCall ==
  ASSUME NEW m \in Msgs
  PROVE  m.to \in Calls /\ m.to \in Nat /\ m.to # 0
  <1>1. m.to \in Calls
    BY Zenon DEF Msgs
  <1>2. \A k \in Calls : k \in Nat /\ k # 0
    BY RpcAssumption DEF Calls
  <1>3. QED
    BY <1>1, <1>2, Zenon

\* A number among the first ones.
LEMMA AmongFirst ==
  ASSUME NEW k \in Nat, k # 0, NEW n \in Nat, k <= n
  PROVE  k \in 1..n
  OBVIOUS

\* What is on the wire belongs to calls that were made, when calls are made, with one
\* answer more and with the first one taken.
LEMMA WireStays ==
  ASSUME NEW w \in Seq(Msgs), NEW n \in Nat, NEW o \in Nat, n <= o,
         \A l \in 1..Len(w) : w[l].to <= n
  PROVE  \A l \in 1..Len(w) : w[l].to <= o
  <1> TAKE l \in 1..Len(w)
  <1>1. w[l] \in Msgs
    OBVIOUS
  <1>2. w[l].to \in Nat /\ w[l].to <= n
    BY <1>1, ToCall, Zenon
  <1>3. QED
    BY <1>2

\* Drawing an id and registering a listener keeps the invariant.
LEMMA prepareCallIInv ==
  ASSUME RpcIInv, NEW c \in Callers, NEW i \in Ids, prepareCall(c, i)
  PROVE  RpcIInv'
  <1> DEFINE n == calls + 1
  <1>0. /\ calls \in Nat /\ n \in Nat /\ n <= MaxCalls /\ calls' = n /\ n \in Calls
        /\ call' = [call EXCEPT ![c] = n] /\ drawn' = [drawn EXCEPT ![n] = i]
        /\ pendings' = [pendings EXCEPT ![i] = n]
        /\ \A k \in 1..calls : k \in 1..n /\ k # n /\ k \in Calls /\ k <= n
        /\ \A k \in 1..n : k = n \/ k \in 1..calls
        /\ n \in 1..n /\ n # 0 /\ n > calls /\ calls <= n
    BY RpcAssumption DEF RpcIInv, RpcTyped, prepareCall, Calls
  <1> HIDE DEF n
  <1>1. /\ \A k \in 1..calls : drawn'[k] = drawn[k]
        /\ drawn'[n] = i
    BY <1>0, Zenon DEF RpcIInv, RpcTyped
  <1>2. /\ stage' = [stage EXCEPT ![c] = "prepared"] /\ outcome' = [outcome EXCEPT ![c] = "none"]
        /\ stage[c] = "idle" /\ pendings[i] = 0
        /\ UNCHANGED <<errCh, result, answers, wire, serve, done>>
    BY Zenon DEF prepareCall
  <1>3. RpcTyped'
    BY <1>0, <1>2, Zenon DEF RpcIInv, RpcTyped
  <1>4. CallsMade'
    <2>1. ASSUME NEW d \in Callers, stage'[d] # "idle" \/ outcome'[d] = "ok"
          PROVE  call'[d] \in 1..calls'
      BY <1>0, <1>2, <2>1, Zenon DEF RpcIInv, RpcTyped, CallsMade
    <2>2. ASSUME NEW d \in Callers, NEW e \in Callers, d # e, stage'[d] # "idle", stage'[e] # "idle"
          PROVE  call'[d] # call'[e]
      <3>1. \A f \in Callers : f # c => call'[f] = call[f] /\ stage'[f] = stage[f]
        BY <1>0, <1>2, Zenon DEF RpcIInv, RpcTyped
      <3>2. \A f \in Callers : f # c /\ stage'[f] # "idle" => call[f] # n
        BY <1>0, <3>1, Zenon DEF RpcIInv, CallsMade
      <3>3. call'[c] = n
        BY <1>0, Zenon DEF RpcIInv, RpcTyped
      <3>4. QED
        BY <2>2, <3>1, <3>2, <3>3, Zenon DEF RpcIInv, CallsMade
    <2>3. ASSUME NEW k \in 1..calls' PROVE drawn'[k] \in Ids
      BY <1>0, <1>1, Zenon DEF RpcIInv, CallsMade
    <2>4. ASSUME NEW k \in Calls, answers'[k] # 0 PROVE k <= calls'
      BY <1>0, <1>2, <2>4 DEF RpcIInv, RpcTyped, CallsMade, Calls
    <2>5. \A l \in 1..Len(wire') : wire'[l].to <= calls'
      BY <1>0, <1>2, WireStays, Zenon DEF RpcIInv, RpcTyped, CallsMade
    <2>6. \A k \in Calls : Len(errCh'[k]) <= 1
      BY <1>2, Zenon DEF RpcIInv, CallsMade
    <2>7. QED
      BY <2>1, <2>2, <2>3, <2>4, <2>5, <2>6, Zenon DEF CallsMade
  <1>5. Listened'
    <2> SUFFICES ASSUME NEW h \in Ids, pendings'[h] # 0
                 PROVE  /\ \E d \in Callers : call'[d] = pendings'[h] /\ stage'[d] # "idle" /\ drawn'[call'[d]] = h
                        /\ \A j \in 1..calls' : drawn'[j] = h => j <= pendings'[h]
      BY Zenon DEF Listened
    <2>1. CASE h = i
      <3>1. pendings'[h] = n
        BY <1>0, <2>1, Zenon DEF RpcIInv, RpcTyped
      <3>2. call'[c] = n /\ stage'[c] # "idle" /\ drawn'[n] = i
        BY <1>0, <1>1, <1>2, Zenon DEF RpcIInv, RpcTyped
      <3>3. \A j \in 1..calls' : j <= n
        BY <1>0
      <3>4. QED
        BY <2>1, <3>1, <3>2, <3>3, Zenon
    <2>2. CASE h # i
      <3>1. pendings'[h] = pendings[h]
        BY <1>0, <2>2, Zenon DEF RpcIInv, RpcTyped
      <3>2. PICK d \in Callers : call[d] = pendings[h] /\ stage[d] # "idle" /\ drawn[call[d]] = h
        BY <3>1, Zenon DEF RpcIInv, Listened
      <3>3. d # c /\ call[d] \in 1..calls
        BY <1>2, <3>2, Zenon DEF RpcIInv, CallsMade
      <3>4. call'[d] = call[d] /\ stage'[d] = stage[d] /\ drawn'[call[d]] = drawn[call[d]]
        BY <1>0, <1>1, <1>2, <3>3, Zenon DEF RpcIInv, RpcTyped
      <3>5. ASSUME NEW j \in 1..calls', drawn'[j] = h PROVE j <= pendings[h]
        <4>1. j # n /\ j \in 1..calls
          BY <1>0, <1>1, <2>2, <3>5, Zenon
        <4>2. QED
          BY <1>1, <3>1, <3>5, <4>1, Zenon DEF RpcIInv, Listened
      <3>6. QED
        BY <3>1, <3>2, <3>4, <3>5, Zenon
    <2>3. QED
      BY <2>1, <2>2, Zenon
  <1>6. Waits'
    <2> SUFFICES ASSUME NEW d \in Callers, stage'[d] \in {"prepared", "waiting"}, NEW k, k = call'[d]
                 PROVE  pendings'[drawn'[k]] = k \/ Excused(k)'
      BY Zenon DEF Waits, Excused
    <2>1. CASE d = c
      BY <1>0, <1>1, <2>1, Zenon DEF RpcIInv, RpcTyped
    <2>2. CASE d # c
      <3>1. k = call[d] /\ stage'[d] = stage[d]
        BY <1>0, <1>2, <2>2, Zenon DEF RpcIInv, RpcTyped
      <3>2. stage[d] # "idle"
        BY <3>1
      <3>3. k \in 1..calls /\ drawn[k] \in Ids
        BY <3>1, <3>2, CallOf, Zenon
      <3>4. drawn'[k] = drawn[k]
        BY <1>1, <3>3, Zenon
      <3>5. CASE drawn[k] = i
        BY <1>0, <1>1, <3>3, <3>4, <3>5, Zenon DEF Excused
      <3>6. CASE drawn[k] # i
        <4>1. pendings'[drawn[k]] = pendings[drawn[k]]
          BY <1>0, <3>3, <3>6, Zenon DEF RpcIInv, RpcTyped
        <4>2. pendings[drawn[k]] = k \/ Excused(k)
          BY <3>1, Zenon DEF RpcIInv, Waits
        <4>3. Excused(k) => Excused(k)'
          BY <1>0, <1>1, <1>2, <3>3, <3>4, Zenon DEF Excused
        <4>4. QED
          BY <3>4, <4>1, <4>2, <4>3, Zenon
      <3>7. QED
        BY <3>5, <3>6
    <2>3. QED
      BY <2>1, <2>2
  <1>7. Decoded'
    <2>1. ASSUME NEW k, NEW j, Fits(k, j) PROVE Fits(k, j)'
      <3>1. k \in 1..calls /\ j \in 1..k /\ j \in 1..calls /\ drawn[j] = drawn[k]
        BY <1>0, <2>1 DEF Fits
      <3>2. QED
        BY <1>0, <1>1, <3>1, Zenon DEF Fits
    <2>2. \A d \in Callers : outcome'[d] = "ok" => outcome[d] = "ok" /\ call'[d] = call[d]
      BY <1>0, <1>2, Zenon DEF RpcIInv, RpcTyped
    <2>3. ASSUME NEW d \in Callers, outcome'[d] = "ok", NEW k, k = call'[d], NEW j, j = result'[k]
          PROVE  Fits(k, j)'
      BY <1>2, <2>1, <2>2, <2>3, Zenon DEF RpcIInv, Decoded
    <2>4. ASSUME NEW k \in Calls, errCh'[k] # <<>>, Head(errCh'[k]), NEW j, j = result'[k]
          PROVE  Fits(k, j)'
      BY <1>2, <2>1, <2>4, Zenon DEF RpcIInv, Decoded
    <2>5. ASSUME serve' # <<"reading">>, NEW k, k = serve'[2], NEW j, j = serve'[3].to
          PROVE  Fits(k, j)'
      BY <1>2, <2>1, <2>5, Zenon DEF RpcIInv, Decoded
    <2>6. QED
      BY <2>3, <2>4, <2>5, Zenon DEF Decoded, Fits
  <1>8. QED
    BY <1>3, <1>4, <1>5, <1>6, <1>7, Zenon DEF RpcIInv

\* A step that makes no call, decodes nothing and lets nobody succeed keeps what fits.
LEMMA StillDecoded ==
  ASSUME RpcIInv, UNCHANGED <<calls, drawn, call, errCh, result>>,
         serve' = serve \/ serve' = <<"reading">>,
         \A d \in Callers : outcome'[d] = "ok" => outcome[d] = "ok"
  PROVE  Decoded'
  BY FitsStays, Zenon DEF RpcIInv, Decoded, Fits

\* A step that begins no call and lets nobody succeed keeps the calls that were made.
LEMMA StillMade ==
  ASSUME RpcIInv, UNCHANGED <<calls, drawn, call>>,
         \A d \in Callers : stage'[d] # "idle" => stage[d] # "idle",
         \A d \in Callers : outcome'[d] = "ok" => outcome[d] = "ok" \/ stage[d] # "idle",
         \A k \in Calls : answers'[k] # 0 => answers[k] # 0 \/ k \in 1..calls,
         \A n \in 1..Len(wire') : wire'[n].to <= calls,
         \A k \in Calls : Len(errCh'[k]) <= 1
  PROVE  CallsMade'
  <1>1. \A k \in Calls : answers'[k] # 0 => k <= calls
    BY DEF RpcIInv, RpcTyped, CallsMade
  <1>2. QED
    BY <1>1, Zenon DEF RpcIInv, CallsMade

\* A step that leaves the listeners, and ends no call, keeps them.
LEMMA StillListened ==
  ASSUME RpcIInv, UNCHANGED <<calls, drawn, call, pendings>>,
         \A d \in Callers : stage[d] # "idle" => stage'[d] # "idle"
  PROVE  Listened'
  BY Zenon DEF RpcIInv, Listened

\* Likewise for a call that has no listener.
LEMMA StillWaits ==
  ASSUME RpcIInv, UNCHANGED <<calls, drawn, call, pendings, errCh, serve>>, done => done',
         \A d \in Callers : stage'[d] \in {"prepared", "waiting"} => stage[d] \in {"prepared", "waiting"}
  PROVE  Waits'
  BY Zenon DEF RpcIInv, Waits, Excused

\* Sending a request keeps the invariant.
LEMMA SendIInv ==
  ASSUME RpcIInv, NEW c \in Callers, Send(c)
  PROVE  RpcIInv'
  <1>1. /\ UNCHANGED <<calls, call, drawn, pendings, errCh, result, wire, serve, done>>
        /\ stage[c] = "prepared"
        /\ stage' = [stage EXCEPT ![c] = "waiting"] \/ stage' = [stage EXCEPT ![c] = "returned"]
        /\ outcome' = outcome \/ outcome' = [outcome EXCEPT ![c] = "failed"]
        /\ answers' = answers \/ answers' = [answers EXCEPT ![call[c]] = MaxAnswers]
    BY Zenon DEF Send
  <1>2. call[c] \in 1..calls /\ call[c] \in Calls
    BY <1>1, CallOf
  <1>3. /\ \A d \in Callers : stage'[d] # "idle" <=> stage[d] # "idle"
        /\ \A d \in Callers : stage'[d] \in {"prepared", "waiting"} => stage[d] \in {"prepared", "waiting"}
        /\ \A d \in Callers : outcome'[d] = "ok" => outcome[d] = "ok"
    BY <1>1 DEF RpcIInv, RpcTyped
  <1>4. \A k \in Calls : answers'[k] # 0 => answers[k] # 0 \/ k \in 1..calls
    BY <1>1, <1>2, Zenon DEF RpcIInv, RpcTyped
  <1>5. RpcTyped'
    <2>1. MaxAnswers \in 0..MaxAnswers
      BY RpcAssumption
    <2>2. answers' \in [Calls -> 0..MaxAnswers]
      BY <1>1, <1>2, <2>1, Zenon DEF RpcIInv, RpcTyped
    <2>3. QED
      BY <1>1, <2>2, Zenon DEF RpcIInv, RpcTyped
  <1>6. CallsMade'
    BY <1>1, <1>3, <1>4, StillMade, Zenon DEF RpcIInv, CallsMade
  <1>7. Listened' /\ Waits' /\ Decoded'
    BY <1>1, <1>3, StillListened, StillWaits, StillDecoded, Zenon
  <1>8. QED
    BY <1>5, <1>6, <1>7, Zenon DEF RpcIInv

\* A call that runs into its timeout keeps the invariant.
LEMMA TimeOutIInv ==
  ASSUME RpcIInv, NEW c \in Callers, TimeOut(c)
  PROVE  RpcIInv'
  <1>1. /\ \A d \in Callers : stage'[d] # "idle" <=> stage[d] # "idle"
        /\ \A d \in Callers : stage'[d] \in {"prepared", "waiting"} => stage[d] \in {"prepared", "waiting"}
        /\ \A d \in Callers : outcome'[d] = "ok" => outcome[d] = "ok"
    BY DEF RpcIInv, RpcTyped, TimeOut
  <1>2. RpcTyped'
    BY Zenon DEF RpcIInv, RpcTyped, TimeOut
  <1>3. CallsMade'
    BY <1>1, StillMade, Zenon DEF RpcIInv, CallsMade, TimeOut
  <1>4. Listened' /\ Waits' /\ Decoded'
    BY <1>1, StillListened, StillWaits, StillDecoded, Zenon DEF TimeOut
  <1>5. QED
    BY <1>2, <1>3, <1>4, Zenon DEF RpcIInv

\* A caller that takes a result from its channel keeps the invariant.
LEMMA ReceiveIInv ==
  ASSUME RpcIInv, NEW c \in Callers, Receive(c)
  PROVE  RpcIInv'
  <1>a. PICK k : k = call[c]
    OBVIOUS
  <1>0. /\ stage[c] = "waiting" /\ errCh[k] # <<>>
        /\ stage' = [stage EXCEPT ![c] = "returned"]
        /\ outcome' = [outcome EXCEPT ![c] = IF Head(errCh[k]) THEN "ok" ELSE "failed"]
        /\ errCh' = [errCh EXCEPT ![k] = Tail(errCh[k])]
        /\ UNCHANGED <<calls, call, drawn, pendings, result, answers, wire, serve, done>>
    BY <1>a, Zenon DEF Receive
  <1>1. k \in 1..calls /\ k \in Calls /\ errCh[k] \in Seq(BOOLEAN) /\ Len(errCh[k]) <= 1
    <2>1. k \in 1..calls /\ k \in Calls
      BY <1>a, <1>0, CallOf, Zenon
    <2>2. QED
      BY Zenon, <2>1 DEF RpcIInv, RpcTyped, CallsMade
  <1>2. Tail(errCh[k]) = <<>> /\ Tail(errCh[k]) \in Seq(BOOLEAN)
    BY <1>0, <1>1, TailOfOne, ZenonT(60)
  <1>3. /\ \A d \in Callers : stage'[d] # "idle" <=> stage[d] # "idle"
        /\ \A d \in Callers : stage'[d] \in {"prepared", "waiting"} => d # c /\ stage[d] = stage'[d]
        /\ \A d \in Callers : outcome'[d] = "ok" => outcome[d] = "ok" \/ (d = c /\ Head(errCh[k]))
    <2>1. /\ \A d \in Callers : d # c => stage'[d] = stage[d]
          /\ stage'[c] = "returned"
      BY <1>0, Zenon DEF RpcIInv, RpcTyped
    <2>2. /\ \A d \in Callers : d # c => outcome'[d] = outcome[d]
          /\ outcome'[c] = IF Head(errCh[k]) THEN "ok" ELSE "failed"
      BY <1>0, Zenon DEF RpcIInv, RpcTyped
    <2>3. outcome'[c] = "ok" => Head(errCh[k])
      <3>1. "failed" # "ok"
        OBVIOUS
      <3>2. QED
        BY <2>2, <3>1, Zenon
    <2>4. "returned" \notin {"idle", "prepared", "waiting"} /\ "waiting" # "idle"
      OBVIOUS
    <2>5. \A d \in Callers : stage'[d] # "idle" <=> stage[d] # "idle"
      BY <1>0, <2>1, <2>4, Zenon
    <2>6. \A d \in Callers : stage'[d] \in {"prepared", "waiting"} => d # c /\ stage[d] = stage'[d]
      BY <2>1, <2>4
    <2>7. \A d \in Callers : outcome'[d] = "ok" => outcome[d] = "ok" \/ (d = c /\ Head(errCh[k]))
      BY <2>3, <2>2, Zenon
    <2>8. QED
      BY <2>5, <2>6, <2>7, Zenon
  <1>4. \A j \in Calls : errCh'[j] = <<>> \/ (j # k /\ errCh'[j] = errCh[j])
    <2>1. errCh \in [Calls -> Seq(BOOLEAN)]
      BY Zenon DEF RpcIInv, RpcTyped
    <2>2. errCh'[k] = <<>>
      BY <1>0, <1>1, <1>2, <2>1, Zenon
    <2>3. \A j \in Calls : j # k => errCh'[j] = errCh[j]
      BY <1>0, <2>1, Zenon
    <2>4. QED
      BY <2>2, <2>3, Zenon
  <1>5. RpcTyped'
    BY Zenon, <1>0, <1>1, <1>2 DEF RpcIInv, RpcTyped
  <1>6. CallsMade'
    <2>1. \A j \in Calls : Len(errCh'[j]) <= 1
      <3>1. Len(<<>>) <= 1
        OBVIOUS
      <3>2. QED
        BY <1>4, <3>1, Zenon DEF RpcIInv, CallsMade
    <2>2. QED
      BY <1>0, <1>3, <2>1, StillMade, Zenon DEF RpcIInv, CallsMade
  <1>7. Listened'
    BY <1>0, <1>3, StillListened, Zenon
  <1>8. Waits'
    <2> SUFFICES ASSUME NEW d \in Callers, stage'[d] \in {"prepared", "waiting"}, NEW h, h = call'[d]
                 PROVE  pendings'[drawn'[h]] = h \/ Excused(h)'
      BY Zenon DEF Waits, Excused
    <2>1. d # c /\ stage[d] = stage'[d] /\ stage[d] # "idle" /\ stage[c] # "idle"
      BY <1>0, <1>3, Zenon
    <2>2. h = call[d] /\ h \in Calls /\ h # k
      BY <1>a, <1>0, <2>1, CallOf, Zenon DEF RpcIInv, CallsMade
    <2>3. errCh'[h] = errCh[h]
      BY <1>0, <2>2, Zenon DEF RpcIInv, RpcTyped
    <2>4. pendings[drawn[h]] = h \/ Excused(h)
      BY <2>1, <2>2, Zenon DEF RpcIInv, Waits
    <2>5. QED
      BY <1>0, <2>3, <2>4, Zenon DEF Excused
  <1>9. Decoded'
    <2>1. \A d \in Callers : outcome'[d] = "ok" => Fits(call[d], result[call[d]])
      BY <1>a, <1>0, <1>1, <1>3, Zenon DEF RpcIInv, Decoded
    <2>2. \A j \in Calls : errCh'[j] # <<>> /\ Head(errCh'[j]) => Fits(j, result[j])
      BY <1>4, Zenon DEF RpcIInv, Decoded
    <2>3. serve # <<"reading">> => Fits(serve[2], serve[3].to)
      BY Zenon DEF RpcIInv, Decoded
    <2>4. QED
      BY <1>0, <2>1, <2>2, <2>3, Zenon DEF Decoded, Fits
  <1>10. QED
    BY <1>5, <1>6, <1>7, <1>8, <1>9, Zenon DEF RpcIInv

\* Removing the listener of the id at the end of a call keeps the invariant: if it is
\* another call's, the two drew the same id.
LEMMA finalizeCallIInv ==
  ASSUME RpcIInv, NEW c \in Callers, finalizeCall(c)
  PROVE  RpcIInv'
  <1> DEFINE i == drawn[call[c]]
  <1>0. /\ stage[c] = "returned" /\ stage' = [stage EXCEPT ![c] = "idle"]
        /\ pendings' = [pendings EXCEPT ![i] = 0]
        /\ UNCHANGED <<calls, call, drawn, outcome, errCh, result, answers, wire, serve, done>>
    BY Zenon DEF finalizeCall
  <1>1. call[c] \in 1..calls /\ call[c] \in Calls /\ i \in Ids
    BY <1>0, CallOf
  <1>2. \A d \in Callers : stage'[d] # "idle" => d # c /\ stage[d] = stage'[d]
    BY <1>0, Zenon DEF RpcIInv, RpcTyped
  <1>3. \A d \in Callers : d # c => stage'[d] = stage[d]
    BY <1>0, Zenon DEF RpcIInv, RpcTyped
  <1>4. pendings'[i] = 0 /\ \A h \in Ids : h # i => pendings'[h] = pendings[h]
    BY <1>0, <1>1, Zenon DEF RpcIInv, RpcTyped
  <1>5. RpcTyped'
    <2>1. 0 \in Nat
      OBVIOUS
    <2>2. QED
      BY Zenon, <1>0, <1>1, <2>1 DEF RpcIInv, RpcTyped
  <1>6. CallsMade'
    BY <1>0, <1>2, StillMade, Zenon DEF RpcIInv, CallsMade
  <1>7. Listened'
    <2> SUFFICES ASSUME NEW h \in Ids, pendings'[h] # 0
                 PROVE  /\ \E d \in Callers : call'[d] = pendings'[h] /\ stage'[d] # "idle" /\ drawn'[call'[d]] = h
                        /\ \A j \in 1..calls' : drawn'[j] = h => j <= pendings'[h]
      BY Zenon DEF Listened
    <2>1. h # i /\ pendings'[h] = pendings[h]
      BY <1>4, Zenon
    <2>2. PICK d \in Callers : call[d] = pendings[h] /\ stage[d] # "idle" /\ drawn[call[d]] = h
      BY <2>1, Zenon DEF RpcIInv, Listened
    <2>3. d # c
      BY <2>1, <2>2, Zenon
    <2>4. QED
      BY <1>0, <1>3, <2>1, <2>2, <2>3, Zenon DEF RpcIInv, Listened
  <1>8. Waits'
    <2> SUFFICES ASSUME NEW d \in Callers, stage'[d] \in {"prepared", "waiting"}, NEW h, h = call'[d]
                 PROVE  pendings'[drawn'[h]] = h \/ Excused(h)'
      BY Zenon DEF Waits, Excused
    <2>1. d # c /\ stage[d] = stage'[d] /\ stage[d] # "idle" /\ stage[c] # "idle"
      <3>1. stage'[d] # "idle" /\ stage[c] # "idle"
        BY <1>0
      <3>2. QED
        BY <1>2, <3>1, Zenon
    <2>2. h = call[d] /\ h \in 1..calls /\ drawn[h] \in Ids /\ h # call[c]
      BY <1>0, <2>1, CallOf, Zenon DEF RpcIInv, CallsMade
    <2>3. pendings[drawn[h]] = h \/ Excused(h)
      BY <2>1, <2>2, Zenon DEF RpcIInv, Waits
    <2>4. CASE drawn[h] = i
      BY <1>0, <1>1, <2>2, <2>4, Zenon DEF Excused
    <2>5. CASE drawn[h] # i
      BY <1>0, <1>4, <2>2, <2>3, <2>5, Zenon DEF Excused
    <2>6. QED
      BY <2>4, <2>5
  <1>9. Decoded'
    BY <1>0, StillDecoded, Zenon
  <1>10. QED
    BY <1>5, <1>6, <1>7, <1>8, <1>9, Zenon DEF RpcIInv

\* With one answer more.
LEMMA WireGrows ==
  ASSUME NEW w \in Seq(Msgs), NEW m \in Msgs, NEW n \in Nat, m.to <= n,
         \A l \in 1..Len(w) : w[l].to <= n
  PROVE  /\ Append(w, m) \in Seq(Msgs)
         /\ \A l \in 1..Len(Append(w, m)) : Append(w, m)[l].to <= n
  <1>1. Append(w, m) \in Seq(Msgs) /\ Len(Append(w, m)) = Len(w) + 1 /\ Len(w) \in Nat
    OBVIOUS
  <1>2. ASSUME NEW l \in 1..Len(Append(w, m)) PROVE Append(w, m)[l].to <= n
    <2>1. CASE l = Len(w) + 1
      <3>1. Append(w, m)[l] = m
        BY <2>1
      <3>2. QED
        BY <3>1, Zenon
    <2>2. CASE l # Len(w) + 1
      <3>1. l \in 1..Len(w)
        BY <1>1, <2>2
      <3>2. Append(w, m)[l] = w[l]
        BY <3>1
      <3>3. QED
        BY <3>1, <3>2, Zenon
    <2>3. QED
      BY <2>1, <2>2
  <1>3. QED
    BY <1>1, <1>2

\* With the first one taken.
LEMMA WireShrinks ==
  ASSUME NEW w \in Seq(Msgs), NEW n \in Nat, w # <<>>,
         \A l \in 1..Len(w) : w[l].to <= n
  PROVE  /\ Head(w) \in Msgs /\ Head(w).to <= n /\ Tail(w) \in Seq(Msgs)
         /\ \A l \in 1..Len(Tail(w)) : Tail(w)[l].to <= n
  <1>1. /\ Tail(w) \in Seq(Msgs) /\ Len(Tail(w)) = Len(w) - 1 /\ Len(w) \in Nat
        /\ Len(w) > 0 /\ 1 \in 1..Len(w) /\ Head(w) = w[1] /\ Head(w) \in Msgs
    OBVIOUS
  <1>2. ASSUME NEW l \in 1..Len(Tail(w)) PROVE Tail(w)[l].to <= n
    <2>1. l + 1 \in 1..Len(w) /\ Tail(w)[l] = w[l + 1]
      BY <1>1
    <2>2. QED
      BY <2>1, Zenon
  <1>3. Head(w).to <= n
    BY <1>1, Zenon
  <1>4. QED
    BY <1>1, <1>2, <1>3

\* Whatever a peer answers, the invariant is kept.
LEMMA PeerAnswersIInv ==
  ASSUME RpcIInv, NEW m \in Msgs, PeerAnswers(m)
  PROVE  RpcIInv'
  <1>0. /\ answers[m.to] > 0 /\ answers' = [answers EXCEPT ![m.to] = answers[m.to] - 1]
        /\ wire' = Append(wire, m)
        /\ UNCHANGED <<calls, call, drawn, stage, outcome, pendings, errCh, result, serve, done>>
    BY Zenon DEF PeerAnswers
  <1>1. m.to \in Calls /\ answers[m.to] \in 0..MaxAnswers /\ answers[m.to] # 0
    BY <1>0, ToCall, RpcAssumption DEF RpcIInv, RpcTyped
  <1>2. m.to <= calls /\ calls \in Nat /\ wire \in Seq(Msgs) /\ \A l \in 1..Len(wire) : wire[l].to <= calls
    BY <1>1, Zenon DEF RpcIInv, RpcTyped, CallsMade
  <1>3. wire' \in Seq(Msgs) /\ \A l \in 1..Len(wire') : wire'[l].to <= calls
    BY <1>0, <1>2, WireGrows, Zenon
  <1>4. answers[m.to] - 1 \in 0..MaxAnswers
    BY <1>0, <1>1, RpcAssumption
  <1>5. \A k \in Calls : answers'[k] # 0 => answers[k] # 0
    BY <1>0, <1>1, <1>4, Zenon DEF RpcIInv, RpcTyped
  <1>6. RpcTyped'
    BY <1>0, <1>1, <1>3, <1>4, Zenon DEF RpcIInv, RpcTyped
  <1>7. CallsMade'
    BY <1>0, <1>3, <1>5, StillMade, Zenon DEF RpcIInv, CallsMade
  <1>8. Listened' /\ Waits' /\ Decoded'
    BY <1>0, StillListened, StillWaits, StillDecoded, Zenon
  <1>9. QED
    BY <1>6, <1>7, <1>8, Zenon DEF RpcIInv

\* Taking out the listener of a result keeps the invariant: the call that the result
\* answers drew the id of the listener, and no later than the listener's call.
LEMMA handleResultIInv ==
  ASSUME RpcIInv, handleResult
  PROVE  RpcIInv'
  <1> DEFINE m == Head(wire)
             i == drawn[m.to]
             k == pendings[i]
  <1>0. /\ serve = <<"reading">> /\ ~done /\ wire # <<>> /\ wire' = Tail(wire)
        /\ pendings' = [pendings EXCEPT ![i] = 0]
        /\ \/ k = 0 /\ UNCHANGED <<serve, done>>
           \/ k # 0 /\ serve' = <<"delivering", k, m>>
           \/ k # 0 /\ done' = TRUE /\ UNCHANGED serve
        /\ UNCHANGED <<calls, call, drawn, stage, outcome, errCh, result, answers>>
    BY Zenon DEF handleResult
  <1>1. /\ m \in Msgs /\ m.to <= calls /\ wire' \in Seq(Msgs)
        /\ \A l \in 1..Len(wire') : wire'[l].to <= calls
    BY <1>0, WireShrinks, Zenon DEF RpcIInv, RpcTyped, CallsMade
  <1>2. m.to \in 1..calls /\ i \in Ids /\ m.to \in Nat
    <2>1. m.to \in Nat /\ m.to # 0
      BY <1>1, ToCall, Zenon
    <2>2. m.to \in 1..calls
      BY <1>1, <2>1, AmongFirst, Zenon DEF RpcIInv, RpcTyped
    <2>3. QED
      BY <2>1, <2>2, Zenon DEF RpcIInv, CallsMade
  <1>3. pendings'[i] = 0 /\ \A h \in Ids : h # i => pendings'[h] = pendings[h]
    BY <1>0, <1>2, Zenon DEF RpcIInv, RpcTyped
  <1>4. k # 0 => Fits(k, m.to) /\ k \in Calls
    <2> SUFFICES ASSUME k # 0 PROVE Fits(k, m.to) /\ k \in Calls
      OBVIOUS
    <2>1. PICK c \in Callers : call[c] = k /\ stage[c] # "idle" /\ drawn[call[c]] = i
      BY <1>2, Zenon DEF RpcIInv, Listened
    <2>2. k \in 1..calls /\ k \in Calls /\ k \in Nat /\ drawn[k] = i
      BY <2>1, CallOf, Zenon
    <2>3. m.to <= k
      BY <1>2, Zenon DEF RpcIInv, Listened
    <2>4. m.to \in 1..k
      BY <1>1, <2>2, <2>3, ToCall, AmongFirst, Zenon
    <2>5. QED
      BY <2>2, <2>4, Zenon DEF Fits
  <1> HIDE DEF m, k
  <1>5. RpcTyped'
    <2>1. serve' = <<"reading">> \/ \E h \in Calls, a \in Msgs : serve' = <<"delivering", h, a>>
      BY <1>0, <1>1, <1>4, Zenon
    <2>2. 0 \in Nat
      OBVIOUS
    <2>3. QED
      BY <1>0, <1>1, <1>2, <2>1, <2>2, Zenon DEF RpcIInv, RpcTyped
  <1>6. CallsMade'
    BY <1>0, <1>1, StillMade, Zenon DEF RpcIInv, CallsMade
  <1>7. Listened'
    <2> SUFFICES ASSUME NEW h \in Ids, pendings'[h] # 0
                 PROVE  /\ \E d \in Callers : call'[d] = pendings'[h] /\ stage'[d] # "idle" /\ drawn'[call'[d]] = h
                        /\ \A j \in 1..calls' : drawn'[j] = h => j <= pendings'[h]
      BY Zenon DEF Listened
    <2>1. pendings'[h] = pendings[h]
      BY <1>3, Zenon
    <2>2. QED
      BY <1>0, <2>1, Zenon DEF RpcIInv, Listened
  <1>8. Waits'
    <2> SUFFICES ASSUME NEW d \in Callers, stage'[d] \in {"prepared", "waiting"}, NEW h, h = call'[d]
                 PROVE  pendings'[drawn'[h]] = h \/ Excused(h)'
      BY Zenon DEF Waits, Excused
    <2>1. stage[d] # "idle" /\ stage[d] \in {"prepared", "waiting"}
      BY <1>0
    <2>2. h = call[d] /\ h \in 1..calls /\ drawn[h] \in Ids /\ h # 0
      BY <1>0, <2>1, CallOf, Zenon
    <2>3. pendings[drawn[h]] = h \/ Excused(h)
      BY <2>1, <2>2, Zenon DEF RpcIInv, Waits
    <2>4. CASE Excused(h)
      BY <1>0, <2>4, Zenon DEF Excused
    <2>5. CASE pendings[drawn[h]] = h /\ drawn[h] # i
      BY <1>0, <1>3, <2>2, <2>5, Zenon
    <2>6. CASE pendings[drawn[h]] = h /\ drawn[h] = i
      <3>1. h = k
        BY <2>6 DEF k
      <3>2. serve' = <<"delivering", k, m>> => serve' # <<"reading">> /\ serve'[2] = k
        OBVIOUS
      <3>3. QED
        BY <1>0, <2>2, <3>1, <3>2, Zenon DEF Excused
    <2>7. QED
      BY <2>3, <2>4, <2>5, <2>6, Zenon
  <1>9. Decoded'
    <2>1. /\ \A d \in Callers : outcome[d] = "ok" => Fits(call[d], result[call[d]])
          /\ \A j \in Calls : errCh[j] # <<>> /\ Head(errCh[j]) => Fits(j, result[j])
      BY Zenon DEF RpcIInv, Decoded
    <2>2. serve' # <<"reading">> => Fits(serve'[2], serve'[3].to)
      <3>1. serve' = <<"delivering", k, m>> => serve'[2] = k /\ serve'[3] = m
        OBVIOUS
      <3>2. QED
        BY <1>0, <1>4, <3>1, Zenon
    <2>3. QED
      BY <1>0, <2>1, <2>2, Zenon DEF Decoded, Fits
  <1>10. QED
    BY <1>5, <1>6, <1>7, <1>8, <1>9, Zenon DEF RpcIInv

\* Decoding a result and putting it into the channel keeps the invariant.
LEMMA onResultIInv ==
  ASSUME RpcIInv, onResult
  PROVE  RpcIInv'
  <1>1. PICK k \in Calls, m \in Msgs : serve = <<"delivering", k, m>>
    BY Zenon DEF RpcIInv, RpcTyped, onResult
  <1>2. serve[2] = k /\ serve[3] = m /\ serve # <<"reading">>
    BY <1>1
  <1> DEFINE ok == m.body = "sound"
  <1>3. /\ Len(errCh[k]) < 1
        /\ errCh' = [errCh EXCEPT ![k] = Append(errCh[k], ok)]
        /\ result' = IF ok THEN [result EXCEPT ![k] = m.to] ELSE result
        /\ serve' = <<"reading">> /\ (done => done')
        /\ UNCHANGED <<calls, call, drawn, stage, outcome, pendings, answers, wire>>
    BY <1>2, Zenon DEF onResult
  <1>4. m.to \in Nat /\ errCh[k] \in Seq(BOOLEAN) /\ ok \in BOOLEAN
    BY ToCall, Zenon DEF RpcIInv, RpcTyped
  <1>5. Fits(k, m.to)
    BY <1>2, Zenon DEF RpcIInv, Decoded
  <1> HIDE DEF ok
  <1>6. /\ Append(errCh[k], ok) \in Seq(BOOLEAN) /\ Len(Append(errCh[k], ok)) = 1
        /\ Head(Append(errCh[k], ok)) = ok /\ Append(errCh[k], ok) # <<>>
    <2>1. errCh[k] = <<>>
      BY <1>3, <1>4, EmptySeq
    <2>2. Append(<<>>, ok) = <<ok>> /\ Len(<<ok>>) = 1 /\ <<ok>> # <<>>
      OBVIOUS
    <2>3. <<ok>> \in Seq(BOOLEAN)
      BY <1>4
    <2>4. Head(<<ok>>) = ok
      OBVIOUS
    <2>5. QED
      BY <2>1, <2>2, <2>3, <2>4, Zenon
  <1>7. errCh'[k] = Append(errCh[k], ok) /\ \A j \in Calls : j # k => errCh'[j] = errCh[j]
    BY <1>3, Zenon DEF RpcIInv, RpcTyped
  <1>8. /\ \A j \in Calls : j # k => result'[j] = result[j]
        /\ result'[k] = IF ok THEN m.to ELSE result[k]
        /\ result' \in [Calls -> Nat]
    BY <1>3, <1>4, Zenon DEF RpcIInv, RpcTyped
  <1>9. RpcTyped'
    BY <1>3, <1>4, <1>6, <1>8, Zenon DEF RpcIInv, RpcTyped
  <1>10. CallsMade'
    <2>1. ASSUME NEW j \in Calls PROVE Len(errCh'[j]) <= 1
      <3>1. CASE j = k
        BY <1>6, <1>7, <3>1
      <3>2. CASE j # k
        BY <1>7, <3>2, Zenon DEF RpcIInv, CallsMade
      <3>3. QED
        BY <3>1, <3>2
    <2>2. QED
      BY <1>3, <2>1, StillMade, Zenon DEF RpcIInv, CallsMade
  <1>11. Listened'
    BY <1>3, StillListened, Zenon
  <1>12. Waits'
    <2> SUFFICES ASSUME NEW d \in Callers, stage'[d] \in {"prepared", "waiting"}, NEW h, h = call'[d]
                 PROVE  pendings'[drawn'[h]] = h \/ Excused(h)'
      BY Zenon DEF Waits, Excused
    <2>1. stage[d] # "idle" /\ stage[d] \in {"prepared", "waiting"}
      BY <1>3
    <2>2. h = call[d] /\ h \in Calls
      BY <1>3, <2>1, CallOf, Zenon
    <2>3. pendings[drawn[h]] = h \/ Excused(h)
      BY <2>1, <2>2, Zenon DEF RpcIInv, Waits
    <2>4. CASE h = k
      BY <1>6, <1>7, <2>4, Zenon DEF Excused
    <2>5. CASE h # k
      BY <1>2, <1>3, <1>7, <2>2, <2>3, <2>5, Zenon DEF Excused
    <2>6. QED
      BY <2>4, <2>5
  <1>13. Decoded'
    <2>1. ASSUME NEW j \in Calls, errCh'[j] # <<>>, Head(errCh'[j]) PROVE Fits(j, result'[j])
      <3>1. CASE j = k
        <4>1. ok
          BY <1>6, <1>7, <2>1, <3>1, Zenon
        <4>2. QED
          BY <1>5, <1>8, <3>1, <4>1, Zenon
      <3>2. CASE j # k
        BY <1>7, <1>8, <2>1, <3>2, Zenon DEF RpcIInv, Decoded
      <3>3. QED
        BY <3>1, <3>2
    <2>2. ASSUME NEW c \in Callers, outcome[c] = "ok" PROVE Fits(call[c], result'[call[c]])
      <3>1. Fits(call[c], result[call[c]]) /\ call[c] \in 1..calls
        BY <2>2, Zenon DEF RpcIInv, Decoded, CallsMade
      <3>2. call[c] \in Calls
        BY <3>1, RpcAssumption DEF RpcIInv, RpcTyped, Calls
      <3>3. QED
        <4>1. CASE call[c] = k /\ ok
          BY <1>5, <1>8, <4>1, Zenon
        <4>2. CASE call[c] = k /\ ~ok
          BY <1>8, <3>1, <4>2, Zenon
        <4>3. CASE call[c] # k
          BY <1>8, <3>1, <3>2, <4>3, Zenon
        <4>4. QED
          BY <4>1, <4>2, <4>3, Zenon
    <2>3. QED
      BY <1>3, <2>1, <2>2, Zenon DEF Decoded, Fits
  <1>14. QED
    BY <1>9, <1>10, <1>11, <1>12, <1>13, Zenon DEF RpcIInv

\* The end of the connection keeps the invariant.
LEMMA DisconnectIInv ==
  ASSUME RpcIInv, Disconnect
  PROVE  RpcIInv'
  <1>1. UNCHANGED <<calls, call, drawn, stage, outcome, pendings, errCh, result, answers, wire, serve>> /\ done'
    BY Zenon DEF Disconnect
  <1>2. RpcTyped'
    BY <1>1, Zenon DEF RpcIInv, RpcTyped
  <1>3. CallsMade'
    BY <1>1, Zenon DEF RpcIInv, CallsMade
  <1>4. Listened' /\ Waits' /\ Decoded'
    BY <1>1, StillListened, StillWaits, StillDecoded, Zenon
  <1>5. QED
    BY <1>2, <1>3, <1>4, Zenon DEF RpcIInv

\* Every step of callers, peer and reading loop keeps the invariant.
LEMMA NextIInv == RpcIInv /\ [RpcNext]_rpcVars => RpcIInv'
  <1> SUFFICES ASSUME RpcIInv, [RpcNext]_rpcVars PROVE RpcIInv'
    OBVIOUS
  <1>1. CASE UNCHANGED rpcVars
    <2>1. UNCHANGED <<calls, call, drawn, stage, outcome, pendings, errCh, result, answers, wire, serve, done>>
      BY <1>1, Zenon DEF rpcVars
    <2>2. RpcTyped'
      BY <2>1, Zenon DEF RpcIInv, RpcTyped
    <2>3. CallsMade'
      BY <2>1, Zenon DEF RpcIInv, CallsMade
    <2>4. Listened' /\ Waits' /\ Decoded'
      BY <2>1, StillListened, StillWaits, StillDecoded, Zenon
    <2>5. QED
      BY <2>2, <2>3, <2>4, Zenon DEF RpcIInv
  <1>2. ASSUME NEW c \in Callers,
               (\E i \in Ids : prepareCall(c, i)) \/ Send(c) \/ TimeOut(c) \/ Receive(c) \/ finalizeCall(c)
        PROVE  RpcIInv'
    BY <1>2, prepareCallIInv, SendIInv, TimeOutIInv, ReceiveIInv, finalizeCallIInv, Zenon
  <1>3. ASSUME NEW m \in Msgs, PeerAnswers(m) PROVE RpcIInv'
    BY <1>3, PeerAnswersIInv, Zenon
  <1>4. CASE handleResult \/ onResult \/ Disconnect
    BY <1>4, handleResultIInv, onResultIInv, DisconnectIInv, Zenon
  <1>5. QED
    BY <1>1, <1>2, <1>3, <1>4, Zenon DEF RpcNext

\* Nothing is left in pendings by a call that has returned, and a call that waits for its
\* answer keeps its listener unless another call drew its id, whenever answers come and
\* however calls end (finalizeCall, handleResult).
THEOREM PendingsStayExact == RpcSpec => []PendingsExact
  <1>1. RpcIInv => PendingsExact
    <2> SUFFICES ASSUME RpcIInv PROVE PendingsExact
      OBVIOUS
    <2>1. ASSUME NEW i \in Ids PROVE pendings[i] \in 0..calls
      <3>1. CASE pendings[i] = 0
        BY <3>1 DEF RpcIInv, RpcTyped
      <3>2. CASE pendings[i] # 0
        <4>1. PICK c \in Callers : call[c] = pendings[i] /\ stage[c] # "idle"
          BY <3>2, Zenon DEF RpcIInv, Listened
        <4>2. pendings[i] \in 1..calls
          BY <4>1, CallOf, Zenon
        <4>3. QED
          BY <4>2 DEF RpcIInv, RpcTyped
      <3>3. QED
        BY <3>1, <3>2
    <2>2. RpcTypeOK
      <3>1. calls \in 0..MaxCalls
        BY RpcAssumption DEF RpcIInv, RpcTyped
      <3>2. QED
        BY <2>1, <3>1, Zenon DEF RpcIInv, RpcTyped, CallsMade, RpcTypeOK
    <2>3. \A i \in Ids : pendings[i] # 0 =>
            \E c \in Callers : call[c] = pendings[i] /\ stage[c] # "idle" /\ drawn[call[c]] = i
      BY Zenon DEF RpcIInv, Listened
    <2>4. \A c \in Callers : stage[c] = "waiting" =>
            pendings[drawn[call[c]]] = call[c] \/ Excused(call[c])
      BY Zenon DEF RpcIInv, Waits
    <2>5. QED
      BY <2>2, <2>3, <2>4, Zenon DEF PendingsExact, Excused
  <1>2. QED
    BY <1>1, RpcInitIInv, NextIInv, PTL DEF RpcSpec

\* A call that returns without error has decoded the answer to its own request, or to an
\* earlier one that was sent with the id that prepareCall drew again for it.
THEOREM AnswersAreOwn == RpcSpec => []OwnAnswer
  <1>1. RpcIInv => OwnAnswer
    BY Zenon DEF RpcIInv, Decoded, Fits, OwnAnswer
  <1>2. QED
    BY <1>1, RpcInitIInv, NextIInv, PTL DEF RpcSpec
=============================================================================
