-------------------------------- MODULE Node --------------------------------
(***************************************************************************)
(* Committing blocks: Node.processBlock, commitBlock, writeLogs and        *)
(* processFork (cmd/luckyshare/node/node.go), called by the block stream,  *)
(* by house keeping and by the packer loop at the same time, on top of the *)
(* chain repository (chain/repository.go) and the log database             *)
(* (logdb/logdb.go), with crashes, failing writes, and the synchronisation *)
(* of the log database at start-up (cmd/luckyshare/sync_logdb.go).         *)
(*                                                                         *)
(* The tree of all blocks that are ever received or packed is given.  The  *)
(* rows of the log database are kept per block: a block with logs has all  *)
(* its rows or none, as one SQL transaction writes them.                   *)
(***************************************************************************)
EXTENDS Naturals, FiniteSets

CONSTANTS
  Blocks,      \* all blocks, genesis included
  Genesis,
  Parent,      \* the parent of every other block
  Score,       \* total score
  Rank,        \* position in the order of block ids
  HasLogs,     \* the blocks whose receipts hold events or transfers
  Workers,     \* goroutines that commit blocks
  MaxErrors,   \* bound: failing writes
  MaxCrashes   \* bound: crashes

\* Parents come first: a block's number is one more than its parent's.
ASSUME NodeAssumption ==
  /\ IsFiniteSet(Blocks) /\ Genesis \in Blocks
  /\ Parent \in [Blocks \ {Genesis} -> Blocks]
  /\ \A S \in SUBSET (Blocks \ {Genesis}) : S # {} => \E b \in S : Parent[b] \notin S
  /\ Score \in [Blocks -> Nat] /\ Rank \in [Blocks -> Nat]
  /\ HasLogs \subseteq Blocks \ {Genesis}
  /\ MaxErrors \in Nat /\ MaxCrashes \in Nat

VARIABLES
  stored,       \* blocks added to the repository
  states,       \* blocks whose state is committed
  best,         \* the best block, as stored and as held in memory
  rows,         \* blocks with rows in the log database
  newest,       \* the block id in the log database's config
  logDBFailed,
  pc,           \* where each worker is
  blk,          \* the block it commits
  prevBest,     \* the best block when it took commitLock
  writer,       \* the log goroutine it started, or 0
  running,      \* log goroutines that have not finished: [id, blk, prevBest]
  cached,       \* blocks that only the repository's caches hold
  owed,         \* history: blocks that left the best chain since start-up and whose
                \* transactions processFork has not given back to the pool since
  unsaved,      \* history: blocks whose write failed when the caches held them
  up,           \* the process runs
  errors, crashes

durable == <<stored, states, best, rows, newest>>
caches == <<cached, unsaved>>
vars == <<durable, caches, logDBFailed, pc, blk, prevBest, writer, running, owed, up, errors, crashes>>

-----------------------------------------------------------------------------
(* Chains. *)

\* The blocks of the chain that ends at a block.
Chain[b \in Blocks] == IF b = Genesis THEN {b} ELSE {b} \cup Chain[Parent[b]]

Number(b) == Cardinality(Chain[b]) - 1

\* Chain.Exclude
Exclude(head, other) == Chain[head] \ Chain[other]

\* Header.BetterThan
BetterThan(b, c) == Score[b] > Score[c] \/ (Score[b] = Score[c] /\ Rank[b] < Rank[c])

-----------------------------------------------------------------------------
Init ==
  /\ stored = {Genesis} /\ states = {Genesis} /\ best = Genesis
  /\ rows = {} /\ newest = Genesis /\ logDBFailed = FALSE
  /\ pc = [w \in Workers |-> "idle"]
  /\ blk = [w \in Workers |-> Genesis]
  /\ prevBest = [w \in Workers |-> Genesis]
  /\ writer = [w \in Workers |-> 0]
  /\ running = {} /\ cached = {} /\ unsaved = {}
  /\ owed = {}
  /\ up = TRUE
  /\ errors = 0 /\ crashes = 0

\* GetBlockSummary answers from the caches, or else from the database.
Known == stored \cup cached

\* Consensus.Process accepts a block: unknown, with a known parent.  The packer
\* does not ask, but its block is new and built on a stored one.
Process(w, b) ==
  /\ up /\ pc[w] = "idle"
  /\ b # Genesis /\ Parent[b] \in Known /\ b \notin Known
  /\ pc' = [pc EXCEPT ![w] = "processed"]
  /\ blk' = [blk EXCEPT ![w] = b]
  /\ UNCHANGED <<durable, caches, logDBFailed, prevBest, writer, running, owed, up, errors, crashes>>

Locked == { w \in Workers : pc[w] \in {"staging", "adding", "setting"} }

FreeId == CHOOSE i \in 1..Cardinality(running) + 1 : \A r \in running : r.id # i

becomeNewBest(w) == BetterThan(blk[w], prevBest[w])

\* Mutant: commitLock does not exclude.
Lock_NotExclusive(w) ==
  /\ up /\ pc[w] = "processed"
  /\ pc' = [pc EXCEPT ![w] = "staging"]
  /\ prevBest' = [prevBest EXCEPT ![w] = best]
  /\ IF BetterThan(blk[w], best) /\ ~logDBFailed
     THEN /\ writer' = [writer EXCEPT ![w] = FreeId]
          /\ running' = running \cup {[id |-> FreeId, blk |-> blk[w], prevBest |-> best]}
     ELSE /\ writer' = [writer EXCEPT ![w] = 0]
          /\ UNCHANGED running
  /\ UNCHANGED <<durable, caches, logDBFailed, blk, owed, up, errors, crashes>>

\* commitBlock takes commitLock, compares with the best block and starts the log
\* goroutine.
Lock(w) ==
  /\ up /\ pc[w] = "processed"
  /\ Locked = {}
  /\ pc' = [pc EXCEPT ![w] = "staging"]
  /\ prevBest' = [prevBest EXCEPT ![w] = best]
  /\ IF BetterThan(blk[w], best) /\ ~logDBFailed
     THEN /\ writer' = [writer EXCEPT ![w] = FreeId]
          /\ running' = running \cup {[id |-> FreeId, blk |-> blk[w], prevBest |-> best]}
     ELSE /\ writer' = [writer EXCEPT ![w] = 0]
          /\ UNCHANGED running
  /\ UNCHANGED <<durable, caches, logDBFailed, blk, owed, up, errors, crashes>>

\* The worker returns and its locals are gone.
Return(w) ==
  /\ pc' = [pc EXCEPT ![w] = "idle"]
  /\ blk' = [blk EXCEPT ![w] = Genesis]
  /\ prevBest' = [prevBest EXCEPT ![w] = Genesis]
  /\ writer' = [writer EXCEPT ![w] = 0]

\* A write fails: commitBlock returns the error.  Its deferred call of awaitLog
\* was bound before awaitLog was set, so it does not wait for the goroutine.
Fail(w) ==
  /\ errors < MaxErrors
  /\ errors' = errors + 1
  /\ Return(w)
  /\ UNCHANGED <<durable, logDBFailed, running, owed, up, crashes>>

\* Mutant: an error of stage.Commit is ignored.
Commit_IgnoresError(w) ==
  /\ up /\ pc[w] = "staging"
  /\ pc' = [pc EXCEPT ![w] = "adding"]
  /\ \/ states' = states \cup {blk[w]} /\ UNCHANGED errors
     \/ errors < MaxErrors /\ errors' = errors + 1 /\ UNCHANGED states
  /\ UNCHANGED <<caches, stored, best, rows, newest, logDBFailed, blk, prevBest, writer, running, owed, up, crashes>>

\* stage.Commit
Commit(w) ==
  /\ up /\ pc[w] = "staging"
  /\ \/ /\ states' = states \cup {blk[w]}
        /\ pc' = [pc EXCEPT ![w] = "adding"]
        /\ UNCHANGED <<caches, stored, best, rows, newest, logDBFailed, blk, prevBest, writer, running, owed, up, errors, crashes>>
     \/ Fail(w) /\ UNCHANGED caches

\* repo.AddBlock: the parent may have left the caches meanwhile; the index may not be
\* written; or saveBlock fills the caches and then its batch is not written.
AddBlock(w) ==
  /\ up /\ pc[w] = "adding"
  /\ \/ /\ Parent[blk[w]] \in Known
        /\ stored' = stored \cup {blk[w]}
        /\ cached' = cached \ {blk[w]}
        /\ pc' = [pc EXCEPT ![w] = "setting"]
        /\ UNCHANGED <<unsaved, states, best, rows, newest, logDBFailed, blk, prevBest, writer, running, owed, up, errors, crashes>>
     \/ /\ Parent[blk[w]] \notin Known
        /\ Return(w)
        /\ UNCHANGED <<durable, caches, logDBFailed, running, owed, up, errors, crashes>>
     \/ Fail(w) /\ UNCHANGED caches
     \/ /\ Fail(w)
        /\ Parent[blk[w]] \in Known
        /\ cached' = cached \cup ({blk[w]} \ stored)
        /\ unsaved' = unsaved \cup ({blk[w]} \ stored)

\* The caches drop a block to make room.
Evict(b) ==
  /\ up /\ b \in cached
  /\ cached' = cached \ {b}
  /\ UNCHANGED <<durable, unsaved, logDBFailed, pc, blk, prevBest, writer, running, owed, up, errors, crashes>>

\* Mutant: a goroutine that was never started is awaited.
SetBest_AwaitsUnstarted(w) ==
  /\ up /\ pc[w] = "setting"
  /\ becomeNewBest(w) => writer[w] # 0 /\ \A r \in running : r.id # writer[w]
  /\ \/ /\ best' = IF becomeNewBest(w) THEN blk[w] ELSE best
        /\ owed' = (owed \cup Chain[best]) \ Chain[best']
        /\ pc' = [pc EXCEPT ![w] = "forking"]
        /\ writer' = [writer EXCEPT ![w] = 0]
        /\ UNCHANGED <<caches, stored, states, rows, newest, logDBFailed, blk, prevBest, running, up, errors, crashes>>
     \/ becomeNewBest(w) /\ Fail(w) /\ UNCHANGED caches

\* Mutant: every committed block becomes the best.
SetBest_Always(w) ==
  /\ up /\ pc[w] = "setting"
  /\ becomeNewBest(w) => \A r \in running : r.id # writer[w]
  /\ \/ /\ best' = blk[w]
        /\ owed' = (owed \cup Chain[best]) \ Chain[best']
        /\ pc' = [pc EXCEPT ![w] = "forking"]
        /\ writer' = [writer EXCEPT ![w] = 0]
        /\ UNCHANGED <<caches, stored, states, rows, newest, logDBFailed, blk, prevBest, running, up, errors, crashes>>
     \/ becomeNewBest(w) /\ Fail(w) /\ UNCHANGED caches

\* awaitLog, repo.SetBestBlockID, and the return that releases commitLock.
SetBest(w) ==
  /\ up /\ pc[w] = "setting"
  /\ becomeNewBest(w) => \A r \in running : r.id # writer[w]
  /\ \/ /\ best' = IF becomeNewBest(w) THEN blk[w] ELSE best
        /\ owed' = (owed \cup Chain[best]) \ Chain[best']
        /\ pc' = [pc EXCEPT ![w] = "forking"]
        /\ writer' = [writer EXCEPT ![w] = 0]
        /\ UNCHANGED <<caches, stored, states, rows, newest, logDBFailed, blk, prevBest, running, up, errors, crashes>>
     \/ becomeNewBest(w) /\ Fail(w) /\ UNCHANGED caches

\* Mutant: the arguments of Exclude are swapped.
ProcessFork_Swapped(w) ==
  /\ up /\ pc[w] = "forking"
  /\ owed' = IF becomeNewBest(w) THEN owed \ Exclude(blk[w], prevBest[w]) ELSE owed
  /\ Return(w)
  /\ UNCHANGED <<durable, caches, logDBFailed, running, up, errors, crashes>>

\* What GetBlock reads: a block that only the caches hold may have lost transactions.
Readable == { S \in SUBSET Known : stored \subseteq S }

\* processFork, outside the lock, between the two trunks commitBlock returned: the
\* blocks in ascending order, up to the first that cannot be read.
ProcessFork(w) ==
  LET side == Exclude(prevBest[w], blk[w])
  IN  /\ up /\ pc[w] = "forking"
      /\ IF becomeNewBest(w)
         THEN \E S \in Readable : owed' = owed \ { b \in side : side \cap Chain[b] \subseteq S }
         ELSE UNCHANGED owed
      /\ Return(w)
      /\ UNCHANGED <<durable, caches, logDBFailed, running, up, errors, crashes>>

\* Mutant: only the new block is written.
WriteLogs_OnlyHead(r) ==
  LET diff == {r.blk}
  IN  /\ up /\ r \in running
      /\ running' = running \ {r}
      /\ rows' = { b \in rows : \A d \in diff : Number(b) < Number(d) } \cup (diff \cap HasLogs)
      /\ newest' = r.blk
      /\ UNCHANGED <<caches, stored, states, best, logDBFailed, pc, blk, prevBest, writer, owed, up, errors, crashes>>

\* The log goroutine: one SQL transaction that deletes every row from the first
\* block it writes on, writes the blocks the new trunk adds, and notes the last.
\* It reads all blocks but the new one from the repository.
WriteLogs(r) ==
  LET diff == Exclude(Parent[r.blk], r.prevBest) \cup {r.blk}
      read == (diff \cup {Parent[r.blk]}) \ {r.blk}
  IN  /\ up /\ r \in running
      /\ running' = running \ {r}
      /\ \/ /\ read \subseteq Known
            /\ rows' = { b \in rows : \A d \in diff : Number(b) < Number(d) } \cup (diff \cap HasLogs)
            /\ newest' = r.blk
            /\ UNCHANGED <<logDBFailed, errors>>
         \/ /\ \/ errors < MaxErrors /\ errors' = errors + 1
               \/ ~(read \subseteq stored) /\ UNCHANGED errors
            /\ logDBFailed' = TRUE
            /\ UNCHANGED <<rows, newest>>
      /\ UNCHANGED <<caches, stored, states, best, pc, blk, prevBest, writer, owed, up, crashes>>

Crash ==
  /\ up /\ crashes < MaxCrashes
  /\ crashes' = crashes + 1
  /\ up' = FALSE
  /\ pc' = [w \in Workers |-> "idle"]
  /\ blk' = [w \in Workers |-> Genesis]
  /\ prevBest' = [w \in Workers |-> Genesis]
  /\ writer' = [w \in Workers |-> 0]
  /\ running' = {} /\ cached' = {}
  /\ logDBFailed' = FALSE
  /\ owed' = {}
  /\ UNCHANGED <<durable, unsaved, errors>>

-----------------------------------------------------------------------------
(* Start-up. *)

\* seekLogDBSyncPosition
seekStart == IF Number(newest) >= Number(best) THEN Number(best) - 1 ELSE Number(newest)

\* The numbers at which the walk back along the best chain stops.
Stops == { Number(b) : b \in { c \in Chain[best] : c = Genesis \/ c \in rows } }

\* Mutant: the newest logged block is taken to be on the best chain.
seekLogDBSyncPosition_TrustsNewest ==
  IF best = Genesis \/ newest = Genesis THEN 0
  ELSE IF newest = best THEN Number(best)
  ELSE 1 + seekStart

seekLogDBSyncPosition ==
  IF best = Genesis \/ newest = Genesis THEN 0
  ELSE IF newest = best THEN Number(best)
  ELSE 1 + (CHOOSE n \in Stops : n <= seekStart /\ \A m \in Stops : m <= seekStart => m <= n)

\* syncLogDB.  Start-up fails when the walk back or the writing needs a block that the
\* repository does not have.
Restart ==
  LET startPos == seekLogDBSyncPosition
  IN  /\ ~up
      /\ newest # best => { b \in Chain[best] : Number(b) + 1 >= startPos } \subseteq stored
      /\ up' = TRUE
      /\ IF Number(best) = startPos
         THEN UNCHANGED <<rows, newest>>
         ELSE /\ rows' = { b \in rows : Number(b) < startPos }
                         \cup { b \in Chain[best] \cap HasLogs : Number(b) >= startPos }
              /\ newest' = best
      /\ UNCHANGED <<caches, stored, states, best, logDBFailed, pc, blk, prevBest, writer, running, owed, errors, crashes>>

-----------------------------------------------------------------------------
Next ==
  \/ \E w \in Workers :
       \/ \E b \in Blocks : Process(w, b)
       \/ Lock(w) \/ Commit(w) \/ AddBlock(w) \/ SetBest(w) \/ ProcessFork(w)
  \/ \E r \in running : WriteLogs(r)
  \/ \E b \in Blocks : Evict(b)
  \/ Crash
  \/ Restart

Spec == Init /\ [][Next]_vars

\* As long as a worker is committing or a log goroutine runs, one of them goes on.
Fairness ==
  WF_vars(\/ \E w \in Workers : Lock(w) \/ Commit(w) \/ AddBlock(w) \/ SetBest(w) \/ ProcessFork(w)
          \/ \E r \in running : WriteLogs(r))

FairSpec == Spec /\ Fairness

-----------------------------------------------------------------------------
TypeOK ==
  /\ stored \subseteq Blocks /\ states \subseteq Blocks /\ best \in Blocks
  /\ rows \subseteq HasLogs /\ newest \in Blocks /\ logDBFailed \in BOOLEAN
  /\ pc \in [Workers -> {"idle", "processed", "staging", "adding", "setting", "forking"}]
  /\ blk \in [Workers -> Blocks] /\ prevBest \in [Workers -> Blocks]
  /\ writer \in [Workers -> Nat]
  /\ running \subseteq [id : Nat, blk : Blocks, prevBest : Blocks]
  /\ cached \subseteq Blocks /\ unsaved \subseteq Blocks
  /\ owed \subseteq Blocks
  /\ up \in BOOLEAN /\ errors \in Nat /\ crashes \in Nat

\* What a restart finds, wherever the process died and whatever writes failed: the best
\* block is in the repository; on the chain of every stored block all states are
\* committed, and a block is missing only if its own write failed when AddBlock's caches
\* already answered for it.
RepositorySound ==
  /\ best \in stored
  /\ \A b \in stored : Chain[b] \subseteq states /\ Chain[b] \subseteq stored \cup unsaved

\* The best block only ever gives way to a better one, though several workers
\* compare and set it, and across crashes.
BestOnlyImproves == [][best' # best => BetterThan(best', best)]_vars

\* Until a crash or a failing write, no block that is stored is better than the
\* best one, except the one about to become the best; and the state keeps its type.
BestIsBest ==
  /\ TypeOK
  /\ errors + crashes = 0 /\ Locked = {} => \A b \in stored : ~BetterThan(b, best)

\* Until a crash or a failing write, the log database holds the logs of the best
\* chain and nothing else whenever no commit is under way.
LogsMatchTrunk ==
  errors + crashes = 0 /\ Locked = {} => rows = Chain[best] \cap HasLogs

\* No transaction of a block that left the best chain is forgotten: processFork
\* has given it back to the pool, or is about to; unless the write of the block or of
\* one before it failed, so that processFork may have been unable to read it.
SideTxsOffered ==
  \A b \in owed :
    Chain[b] \cap unsaved = {} =>
      \E w \in Workers : pc[w] = "forking" /\ becomeNewBest(w) /\ b \in Exclude(prevBest[w], blk[w])

\* commitBlock returns: the wait for the log goroutine always ends.
CommitReturns == \A w \in Workers : pc[w] # "idle" ~> pc[w] = "idle"

\* After the first crash, when no failing write preceded it, the synchronisation at
\* start-up has written the logs of every block of the best chain below the best block.
SyncRepairsBelowBest ==
  [][~up /\ up' /\ errors = 0 /\ crashes = 1 =>
       \A b \in (Chain[best] \cap HasLogs) \ {best} : b \in rows']_vars

\* writeLogs promises "to prevent logs dropped in rare condition of long fork":
\* the logs of the best chain are in the database when the process runs and no
\* commit is under way.
TrunkLogged ==
  up /\ Locked = {} => Chain[best] \cap HasLogs \subseteq rows
=============================================================================
