----------------------------- MODULE BlockSync ------------------------------
(***************************************************************************)
(* Synchronisation with a peer (commu/communicator.go Sync, commu/sync.go),*)
(* the node's handler of the block stream (cmd/luckyshare/node/node.go),   *)
(* and what the peer answers (commu/handle_rpc.go).  Both chains may move  *)
(* between any two requests.                                               *)
(***************************************************************************)
EXTENDS Repository, Naturals, Sequences, FiniteSets

CONSTANTS
  Chain,       \* Chain[b]: the blocks up to b
  Score,       \* total score, different for different blocks
  LocalBlocks, \* blocks that reach this node some other way
  PeerStart,   \* the peer's best block when it connects
  PeerCount,   \* peers connected
  BatchSize,   \* blocks in an answer
  StreamCap,   \* capacity of the block stream (2048)
  MaxErrors    \* bound: requests that fail

\* The chains are the paths of a tree from its root.
ASSUME BlockSyncAssumption ==
  /\ Genesis \in Blocks /\ {PeerStart} \cup LocalBlocks \subseteq Blocks
  /\ Score \in [Blocks -> Nat]
  /\ \A b \in Blocks :
       /\ b \in Chain[b] /\ Genesis \in Chain[b] /\ Chain[b] \subseteq Blocks /\ IsFiniteSet(Chain[b])
       /\ \A c \in Chain[b] : Chain[c] \subseteq Chain[b] /\ (b \in Chain[c] => b = c)
       /\ \A c, d \in Chain[b] : c \in Chain[d] \/ d \in Chain[c]
  /\ {BatchSize, StreamCap, PeerCount, MaxErrors} \subseteq Nat /\ BatchSize > 0 /\ StreamCap > 0

VARIABLES
  best,          \* of this node's repository
  peerBest,      \* the peer's best block
  peerHead,      \* what this node knows of it (Peer.head)
  pc,            \* of the sync goroutine
  headNum, backward, range, fromNum,
  batch,         \* blocks of an answer not yet in the stream
  blockCh,       \* the stream
  fetcher, handler, \* the goroutines of download: "off", "on", "failing", "done"
  errs,          \* in errCh
  syncCount, synced,
  moved,         \* one of the chains moved by itself since the sync began
  errors         \* requests that failed

repo == <<stored, best>>
peer == <<peerBest, peerHead>>
search == <<headNum, backward, range>>
streams == <<fromNum, batch, blockCh, fetcher, handler, errs>>
counted == <<syncCount, synced>>
vars == <<repo, peer, pc, search, streams, counted, moved, errors>>

NumberOf(b) == Cardinality(Chain[b]) - 1

\* GetBlockID and GetBlock on a best chain
At(head, n) == { b \in Chain[head] : NumberOf(b) = n }

ParentOf(b) == CHOOSE p \in Chain[b] : NumberOf(p) = NumberOf(b) - 1

Init ==
  /\ stored = {Genesis} /\ best = Genesis
  /\ peerBest = PeerStart /\ peerHead = PeerStart
  /\ pc = "idle"
  /\ headNum = 0 /\ backward = 0 /\ range = [start |-> 0, end |-> 0, ancestor |-> 0] /\ fromNum = 0
  /\ batch = <<>> /\ blockCh = <<>> /\ fetcher = "off" /\ handler = "off" /\ errs = 0
  /\ syncCount = 0 /\ synced = FALSE
  /\ moved = FALSE /\ errors = 0

-----------------------------------------------------------------------------
(* What goes on meanwhile. *)

\* processBlock of a valid block whose parent is known
Accepted(b) ==
  /\ stored' = stored \cup {b}
  /\ best' = IF Score[b] > Score[best] THEN b ELSE best

\* House keeping or the packer commits a block.
LocalCommit(b) ==
  /\ b \in LocalBlocks \ stored /\ ParentOf(b) \in stored
  /\ Accepted(b)
  /\ moved' = (moved \/ best' # best)
  /\ UNCHANGED <<peer, pc, search, streams, counted, errors>>

\* The peer has a better block, and may say so (UpdateHead).
PeerCommit(b) ==
  /\ Score[b] > Score[peerBest]
  /\ peerBest' = b
  /\ peerHead' \in {peerHead, b}
  /\ moved' = TRUE
  /\ UNCHANGED <<repo, pc, search, streams, counted, errors>>

-----------------------------------------------------------------------------
(* findCommonAncestor *)

\* Two peers or fewer, none of them as good: nothing happens until the next time.
Suitable == Score[peerHead] >= Score[best]

\* Mutant: only a recent best block counts.
Count_RecentOnly(recent) ==
  /\ syncCount' = IF syncCount < 3 THEN syncCount + 1 ELSE 3
  /\ synced' = (synced \/ recent)

\* shouldSynced: the best block is recent, or this is the third time.
Count(recent) ==
  /\ syncCount' = IF syncCount < 3 THEN syncCount + 1 ELSE 3
  /\ synced' = (synced \/ recent \/ syncCount' > 2)

BestAssumed(recent) ==
  /\ pc = "idle" /\ ~Suitable /\ PeerCount >= 3
  /\ Count(recent)
  /\ UNCHANGED <<repo, peer, pc, search, streams, moved, errors>>

StartSync ==
  /\ pc = "idle" /\ Suitable
  /\ headNum' = NumberOf(best) /\ backward' = 0
  /\ moved' = FALSE
  /\ pc' = IF headNum' = 0 THEN "found" ELSE "seek"
  /\ range' = [start |-> 0, end |-> 0, ancestor |-> 0]
  /\ UNCHANGED <<repo, peer, streams, counted, errors>>

isOverlapped(num) == At(peerBest, num) = At(best, num)

\* The request fails, or this node's chain is not that long any more.
SearchFails ==
  /\ pc \in {"seek", "find"}
  /\ \/ errors < MaxErrors /\ errors' = errors + 1
     \/ /\ At(best, IF pc = "seek" THEN headNum - backward ELSE (range.start + range.end) \div 2) = {}
        /\ UNCHANGED errors
  /\ pc' = "idle"
  /\ UNCHANGED <<repo, peer, search, streams, counted, moved>>

\* fastSeek: back in steps that double
Seek ==
  LET num == headNum - backward
  IN  /\ pc = "seek"
      /\ backward < headNum => At(best, num) # {}
      /\ IF backward >= headNum
         THEN /\ pc' = "find"
              /\ range' = [start |-> 0, end |-> headNum, ancestor |-> 0]
              /\ UNCHANGED backward
         ELSE IF isOverlapped(num)
         THEN /\ pc' = IF num = headNum THEN "found" ELSE "find"
              /\ range' = [start |-> num, end |-> headNum, ancestor |-> IF num = headNum THEN num ELSE 0]
              /\ UNCHANGED backward
         ELSE /\ backward' = IF backward = 0 THEN 1 ELSE backward * 2
              /\ UNCHANGED <<pc, range>>
      /\ UNCHANGED <<repo, peer, headNum, streams, counted, moved, errors>>

\* Mutant: the lower half stops two below the middle.
Find_SkipsOne ==
  LET mid == (range.start + range.end) \div 2
  IN  /\ pc = "find"
      /\ At(best, mid) # {}
      /\ IF isOverlapped(mid)
         THEN IF range.start = range.end
              THEN pc' = "found" /\ range' = [range EXCEPT !.ancestor = mid]
              ELSE UNCHANGED pc /\ range' = [range EXCEPT !.start = mid + 1, !.ancestor = mid]
         ELSE IF mid > range.start + 1
              THEN UNCHANGED pc /\ range' = [range EXCEPT !.end = mid - 2]
              ELSE pc' = "found" /\ UNCHANGED range
      /\ UNCHANGED <<repo, peer, headNum, backward, streams, counted, moved, errors>>

\* One call of find
Find ==
  LET mid == (range.start + range.end) \div 2
  IN  /\ pc = "find"
      /\ At(best, mid) # {}
      /\ IF isOverlapped(mid)
         THEN IF range.start = range.end
              THEN pc' = "found" /\ range' = [range EXCEPT !.ancestor = mid]
              ELSE UNCHANGED pc /\ range' = [range EXCEPT !.start = mid + 1, !.ancestor = mid]
         ELSE IF mid > range.start
              THEN UNCHANGED pc /\ range' = [range EXCEPT !.end = mid - 1]
              ELSE pc' = "found" /\ UNCHANGED range
      /\ UNCHANGED <<repo, peer, headNum, backward, streams, counted, moved, errors>>

-----------------------------------------------------------------------------
(* download *)

\* The handler ends with a cancel, which fails the fetcher's requests.
cancelled == handler = "done"

Download ==
  /\ pc = "found"
  /\ pc' = "download"
  /\ fromNum' = range.ancestor + 1
  /\ fetcher' = "on" /\ handler' = "on" /\ errs' = 0
  /\ UNCHANGED <<repo, peer, search, batch, blockCh, counted, moved, errors>>

\* MsgGetBlocksFromNumber on the peer's best chain
Answer(n) ==
  LET m == IF NumberOf(peerBest) < n THEN 0 ELSE NumberOf(peerBest) - n + 1
  IN  [ i \in 1..(IF m < BatchSize THEN m ELSE BatchSize) |-> CHOOSE b \in At(peerBest, n + i - 1) : TRUE ]

\* Mutant: the next request asks for the block after the next.
Fetch_SkipsOne ==
  LET result == Answer(fromNum)
  IN  /\ fetcher = "on" /\ batch = <<>> /\ ~cancelled
      /\ IF result = <<>> THEN fetcher' = "done" ELSE UNCHANGED fetcher
      /\ batch' = result
      /\ fromNum' = fromNum + Len(result) + 1
      /\ UNCHANGED <<repo, peer, pc, search, blockCh, handler, errs, counted, moved, errors>>

Fetch ==
  LET result == Answer(fromNum)
  IN  /\ fetcher = "on" /\ batch = <<>> /\ ~cancelled
      /\ IF result = <<>> THEN fetcher' = "done" ELSE UNCHANGED fetcher
      /\ batch' = result
      /\ fromNum' = fromNum + Len(result)
      /\ UNCHANGED <<repo, peer, pc, search, blockCh, handler, errs, counted, moved, errors>>

FetchFails ==
  /\ fetcher = "on" /\ batch = <<>>
  /\ \/ cancelled /\ UNCHANGED errors
     \/ errors < MaxErrors /\ errors' = errors + 1
  /\ fetcher' = "failing"
  /\ UNCHANGED <<repo, peer, pc, search, fromNum, batch, blockCh, handler, errs, counted, moved>>

\* Into the stream if there is room; a cancel ends it, too.
Push ==
  /\ fetcher = "on" /\ batch # <<>>
  /\ \/ /\ Len(blockCh) < StreamCap
        /\ blockCh' = Append(blockCh, Head(batch))
        /\ batch' = Tail(batch)
        /\ UNCHANGED fetcher
     \/ /\ cancelled
        /\ fetcher' = "done"
        /\ UNCHANGED <<blockCh, batch>>
  /\ UNCHANGED <<repo, peer, pc, search, fromNum, handler, errs, counted, moved, errors>>

\* handleBlockStream: a known block is passed over, one without parent ends the stream.
Handle ==
  LET b == Head(blockCh)
  IN  /\ handler = "on" /\ blockCh # <<>>
      /\ blockCh' = Tail(blockCh)
      /\ \/ b \in stored /\ UNCHANGED <<repo, handler>>
         \/ b \notin stored /\ ParentOf(b) \in stored /\ Accepted(b) /\ UNCHANGED handler
         \/ b \notin stored /\ ParentOf(b) \notin stored /\ handler' = "failing" /\ UNCHANGED repo
      /\ UNCHANGED <<peer, pc, search, fromNum, batch, fetcher, errs, counted, moved, errors>>

HandlerEnds ==
  /\ handler = "on" /\ blockCh = <<>> /\ fetcher = "done"
  /\ handler' = "done"
  /\ UNCHANGED <<repo, peer, pc, search, fromNum, batch, blockCh, fetcher, errs, counted, moved, errors>>

\* Mutant: room for one error.
ErrCap_One == 1

\* The capacity of errCh
ErrCap == 2

\* errCh <- err, and only then the goroutine ends.
ReportHandler ==
  /\ handler = "failing" /\ errs < ErrCap
  /\ errs' = errs + 1
  /\ handler' = "done"
  /\ UNCHANGED <<repo, peer, pc, search, fromNum, batch, blockCh, fetcher, counted, moved, errors>>

ReportFetcher ==
  /\ fetcher = "failing" /\ errs < ErrCap
  /\ errs' = errs + 1
  /\ fetcher' = "done"
  /\ UNCHANGED <<repo, peer, pc, search, fromNum, batch, blockCh, handler, counted, moved, errors>>

\* goes.Wait returns, and download the first error.
Finish(recent) ==
  /\ pc = "download" /\ fetcher = "done" /\ handler = "done"
  /\ pc' = "idle"
  /\ batch' = <<>> /\ blockCh' = <<>> /\ fetcher' = "off" /\ handler' = "off"
  /\ IF errs = 0 THEN Count(recent) ELSE UNCHANGED counted
  /\ UNCHANGED <<repo, peer, search, fromNum, errs, moved, errors>>

-----------------------------------------------------------------------------
Step ==
  \/ StartSync \/ SearchFails \/ Seek \/ Find
  \/ Download \/ Fetch \/ FetchFails \/ Push
  \/ Handle \/ HandlerEnds \/ ReportHandler \/ ReportFetcher

Next ==
  \/ Step
  \/ \E recent \in BOOLEAN : BestAssumed(recent) \/ Finish(recent)
  \/ \E b \in Blocks : LocalCommit(b) \/ PeerCommit(b)

Spec == Init /\ [][Next]_vars

\* The timer of Sync, the answers and the goroutines go on.
Fairness ==
  /\ WF_vars(StartSync) /\ WF_vars(Seek \/ Find \/ SearchFails) /\ WF_vars(Download)
  /\ WF_vars(Fetch \/ FetchFails \/ Push \/ ReportFetcher)
  /\ WF_vars(Handle \/ HandlerEnds \/ ReportHandler)
  /\ WF_vars(\E recent \in BOOLEAN : Finish(recent))

FairSpec == Spec /\ Fairness

-----------------------------------------------------------------------------
TypeOK ==
  /\ best \in stored /\ stored \subseteq Blocks
  /\ pc \in {"idle", "seek", "find", "found", "download"}
  /\ range.start <= range.end + 1 /\ range.ancestor <= headNum
  /\ {fetcher, handler} \subseteq {"off", "on", "failing", "done"}
  /\ Len(blockCh) <= StreamCap /\ errs <= 2 /\ syncCount \in 0..3

\* The last number at which the two chains agree
CommonAncestor ==
  CHOOSE n \in 0..NumberOf(best) :
    /\ isOverlapped(n)
    /\ \A m \in n + 1..NumberOf(best) : ~isOverlapped(m)

\* The search that doubles and then halves finds where the chains part, if both stand
\* still, wherever they part; and the state keeps its type.
AncestorFound ==
  /\ TypeOK
  /\ pc = "found" /\ ~moved => range.ancestor = CommonAncestor

\* A sync that reports no error, and during which no chain moved by itself, ends with
\* the peer's best block in the repository and nothing better at the peer.
SyncCatchesUp ==
  [][ (\E recent \in BOOLEAN : Finish(recent)) /\ errs = 0 /\ ~moved
        => peerBest \in stored /\ Score[best] >= Score[peerBest] ]_vars

\* However the two goroutines of download fail, it returns.
DownloadReturns == pc = "download" ~> pc = "idle"

\* If from some time on the peer is as good as this node, syncedCh is closed, and the
\* packer may start.
SyncedAtLast == <>[]Suitable => <>synced
=============================================================================
