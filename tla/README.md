# A verification of the luckyshare node

TLA+ models of the parts of the luckyshare node whose correctness depends on
interleavings, crashes, forks or arithmetic at its edges. TLC checks them on small
instances, and TLAPS proves the most important properties for every instance.

## The system

A luckyshare node is a proof-of-authority chain node. Its parts:

| part | source | what it does | modules |
|---|---|---|---|
| scheduler | `consensus/poal/sched.go` | draws who may propose in a slot, scores a block, deactivates who missed slots | `Poal`, `PoalChain`, `BlockProofs` |
| Authority contract | `sharer/authority` | keeps the candidates, a doubly linked list in contract storage | `Authority`, `CandidateList`, `ProtocolProofs` |
| consensus | `consensus/` | validates a block, with a cache of candidates per block | `Consensus`, `BlockProofs` |
| packer | `packer/` | schedules and builds a block | `PoalChain`, `Consensus`, `GasLimit` |
| gas limit, bandwidth | `block/gas_limit.go`, `cmd/luckyshare/bandwidth` | moves the gas limit towards a target within bounds | `GasLimit`, `BlockProofs` |
| node | `cmd/luckyshare/node` | processes and commits blocks from the network, from the queue of early blocks and from the packer | `Node`, `NodeProofs`, `Propagation` |
| repository | `chain/` | stores blocks, knows the best one | `Node`, `Repository` |
| log database | `logdb/`, `cmd/luckyshare/sync_logdb.go` | stores events of the best chain, is repaired at start-up | `Node` |
| transaction pool | `txpool/` | collects transactions, washes itself, offers the executable ones | `TxPool`, `TxPoolProofs` |
| pruner | `cmd/luckyshare/pruner`, `muxdb/trie_*.go` | archives the state of a block and sweeps the rest | `Pruner`, `PrunerProofs` |
| block sync | `commu/sync.go`, `commu/communicator.go` | finds the common ancestor with a peer and downloads | `BlockSync`, `NetworkProofs` |
| announcements | `commu/announcement_loop.go`, `commu/handle_rpc.go` | fetches announced blocks | `Propagation`, `ProtocolProofs` |
| RPC | `p2psrv/rpc` | calls over a p2p connection, with timeouts | `Rpc`, `NetworkProofs` |
| stacked map | `common/stackedmap` | a map with save points | `StackedMap`, `StackedMapProofs` |
| state | `state/`, `runtime/statedb` | accounts, code, storage and the events of a clause, over two stacked maps | `StateDB`, `EvmProofs` |
| virtual machine | `vm/`, `runtime/runtime.go` | runs a clause, reports every operation to a tracer | `Evm`, `EvmProofs` |
| tracers | `tracers/` | nine JavaScript objects that gather a trace | `CallTracer`, `EvmdisTracer`, `PrestateTracer`, `OpcodeTracers` |
| debug API | `api/debug` | runs a clause again with the tracer a request names | `Tracing` |

A block arrives by announcement, push or download, is validated by consensus under
`consLock`, is committed under `commitLock` (logs, state, block, best block), and
gives the transactions of the blocks it displaced back to the pool. The packer asks
the scheduler for a slot when the node is synced, takes executables from the pool and
goes through the same commit. The pruner works beside all of that. A transaction's
clauses are run by the virtual machine on a state with save points; the debug API runs
them again with a tracer attached.

`PROJECT.json` lists all parts, the unmodelled ones included, every definition with
the source lines it stands for, and the hazards.

## Modules

Each component module has the state of the component as variables and an action for
every step that other goroutines can see: a section under a lock is one action; a
read and a later write that nothing protects are two. `MC*` modules give constants
their values, and nothing else. Definitions with an underscore and a suffix
(`Lock_NotExclusive`) are mutants: plausible bugs, of which one per property is
checked to be found.

**Poal, PoalChain.** `NewScheduler`, `whoseTurn`, `Schedule`, `IsTheTime` and
`Updates` as operators on a list of proposers. The hash of `dprp` is any number the
model likes, so what holds, holds whatever the hash draws. `PoalChain` grows one
chain by blocks of any proposer at any clock.

**Authority, CandidateList.** The entries of `authority/types.go` with `Prev`, `Next`,
the head and the tail; Add, Revoke and Update with their early returns.
`CandidateList` is what they promise: a list to which one appends, from which one
removes, and in which a revoked candidate never appears again. The refinement mapping
is the walk of `AllCandidates`.

**Consensus.** A tree of blocks, each with its list and balances; `Process` with the
candidates cache, whose objects point into a heap of shared lists, and the packer,
which reads the contract instead. Checks of gas, transactions and roots are one
choice.

**Node.** Workers go through processBlock and commitBlock: `Process`, `Lock` (which
starts the log goroutine), `Commit` (state), `AddBlock`, `SetBest` (waits for the log
goroutine), `ProcessFork`, and `Fail` at each. `Crash` keeps what is on disk;
`Restart` is the start-up with `syncLogDB`. The tree of blocks is a constant. Rows of
the log database are kept per block, since one SQL transaction writes them. `saveBlock`
fills the caches of the repository before its batch is written, so a write that fails
may leave a block that only the caches hold (`cached`): it counts as known, children are
accepted upon it, until it is evicted (`Evict`) or the process dies. The history variable
`unsaved` keeps these blocks.

**TxPool.** The map by hash, the index by id and the quota; callers of `add` in their
steps (check, put into the map, flag, count); `Remove`, `Fill`; the wash in its steps
(snapshot, removals one by one, offer, store). What `Executable` answers is a choice
per best block.

**Pruner.** The saved status (step, N1, N2), the two live spaces and the permanent
space, commits that start and end at different times, forks, and restarts anywhere. A
trie has one node for every block that changed it. A block that is committed is at most
`MaxAhead` above the best one, which is 1 for blocks that arrive in order and never more
than the slack the pruner adds to the best number (10). The history variable `overtaken`
says that a fork has replaced a block at or below a saved N2.

**GasLimit.** `IsValid`, `Qualify` and `Adjust` on numbers up to a largest one, a
chain of blocks by this packer and by others, and the bandwidth's suggestion.

**Repository.** The set of stored blocks, which `BlockSync` and `Propagation` write.

**BlockSync.** One sync round with one peer: the seek that doubles, the search that
halves, the two goroutines of `download` with their channel, context and error
channel, while both chains grow and requests fail.

**Propagation.** Messages of peers, the announcement loop with its two counters, the
fetches, the queue of early blocks with its random drop, and the ticker of
`houseKeeping`: `FutureTick` takes the blocks that are queued, `FutureBlock` processes
the next of them, and between two of them the sync process and the packer store others
and the clock goes on, while `houseKeeping` itself takes no new block. The history
variable `due` keeps what could be stored when the tick began.

**Rpc.** Callers, calls with ids that are drawn until one has no listener, so that an id
may be one that an earlier call had, listeners, a reading loop that hands results over, a
peer that answers a request late, more than once, wrongly or never, timeouts and the end
of the connection.

**StackedMap, StateDB.** Operators on values, not state machines. A stacked map is a
stack of levels and an index from a key to the levels that hold it, with `Push`, `Pop`,
`PopTo`, `Get`, `Put` and `Journal`. `StateDB` is two of them: the state, and what a
clause leaves besides (events, transfers, suicide flags). `Snapshot` pushes both and
stores the position in the first as a value in the second; `RevertToSnapshot` pops the
second, finds that value and pops the first.

**Evm.** One clause, from `Call` or `Create` at depth 0 to its end. There is no code: in
every frame any operation that the interpreter accepts may come next. Operations that
only compute are the one `OP`; gas is a choice to fail, before an operation is executed
(`FailBefore`) or while it is (`FailAfter`). What is kept is what calls, creates,
returns, reverts, failures, self destruction, `SSTORE` and logs do to the frames and
the state, and in which order the interpreter calls `CaptureState` and `CaptureFault`
(`captured`). The stack of a frame is its topmost value, which is all that the tracers
read to see how a call ended. The history variable `worlds` keeps what each open frame
found when it was entered; only the properties read it.

**CallTracer, EvmdisTracer, PrestateTracer, OpcodeTracers.** The functions `step`,
`fault` and `result` of the JavaScript objects, as operators from the object before to
the object after. `log` is what the tracer can read of the machine. Hexadecimal
strings, gas amounts and memory are abstracted to what tells two reports apart: of a
call, its type, whether its gas and output are known, its error and the calls below.

**Tracing.** The composition: a request picks a tracer; every step of `Evm` is followed
by the calls to the tracer it made; at the end `GetResult` is asked for the report.
Beside the tracer, `truth` records what really ran (the tree of calls, the operations
with the frames they ran in), and the properties compare the two.

## Runs

| run | distinct states | shows |
|---|---|---|
| `poal_chain` | 486 | scheduled slots are aligned and not in the past; the score counts the active proposers |
| `authority` | 1,021 | the links stay a list, the entries implement `CandidateList` by the walk of `AllCandidates` |
| `consensus` | 18 thousand | cached candidates are those of the block they are filed under; whatever the packer schedules, validation accepts |
| `node` | 574 thousand | the best block is the best one and only improves; the logs are those of the trunk; displaced transactions are given back; a restart finds a repository that lacks no block but one whose own write failed, and repairs the logs below the best block; every commit returns |
| `txpool` | 529 thousand | quota, index by id and limits at every interleaving; what is offered was announced; what stays executable is offered |
| `pruner` | 1.2 million | while forks replace only blocks above N2, no state of the guaranteed history loses a node and what was archived is complete |
| `gas_limit` | 20 thousand | `Qualify` and `IsValid` agree at both ends of the range, the target is reached |
| `block_sync` | 425 thousand | the common ancestor is found; a sync without an error catches up; `download` returns; the node is synced at last |
| `rpc` | 367 thousand | calls return; one that succeeds has the answer to its request or to an earlier one of the same id; no listener is left behind, and none is missing without a reason |
| `propagation` | 277 thousand | the fetch counters are exact; a tick empties the queue of a whole due branch, whatever is stored during it; an early block is stored at last unless it was dropped |
| `node_trunk_logged` | violation | a crash can lose the logs of the best block itself |
| `tracing` | 364 thousand | a failing frame leaves nothing behind; below a static call nothing changes; the index of the stacked maps is exact; the call tree, the disassembly, the prestate and the histograms are those of what ran |

Where a component's module has a `TypeOK` that is not listed by itself, one of the
invariants of its run includes it.

### Bounds

- `poal_chain`: three proposers, of which `Updates` looks back at two slots, four
  slots, every hash: proposers miss none, some, and more slots than are looked at.
- `authority`: four masters, so that an entry in the middle has neighbours that are
  not ends. The state graph is finite without a bound.
- `consensus`: two blocks besides genesis, in a row or side by side, a cache of two:
  an object is copied, shared and evicted.
- `node`: a trunk of three blocks and a fork of one that beats the second, so that the
  best chain gets shorter before the third block wins it back; two workers, one failing
  write and one crash.
- `txpool`: two signatures of one body, two callers, limit 1 and one transaction per
  account, so that every limit is met; one of: a fill, a new best block, a fetched
  blocklist, a failing wash, and two answers of the chain that differ for both.
- `pruner`: two whole cycles; two blocks off the best chain, so that two blocks of it may
  be replaced, or one and a restart, or two restarts. Without the hypothesis on
  `overtaken` TLC finds `StateAvailable` violated on this very instance, so the
  boundary is met.
- `gas_limit`: floor 5, divisor 4, largest number 40: both ends are met.
- `block_sync`: branches that part after the first block and grow to four and five,
  batches of two, a stream of one, one failing request.
- `rpc`: two callers, two calls and two ids, so that the second call may draw the id of
  the first, and two answers per call.
- `propagation`: three peers where `maxFetches` is two, one message each, a branch of
  three blocks and a bad one, a queue of two.
- `tracing`: a request gives the tracer, the operations a clause draws from and the
  number of operations, five to nine. Two contracts, one with native methods, a plain
  account and a precompiled contract; three frames, where the fourth is refused. Each
  tracer has the operations it tells apart, and two requests where these are many. The
  requests of `noop` are for the state: nested frames that write and fail in turn,
  creates and self destructions, and static calls with calls below them.

Constants whose names begin with `Max` and that the code does not have (`MaxErrors`,
`MaxCrashes`, `MaxWrites`, `MaxForks`, `MaxMessages`, `Horizon`...) are such bounds.

Where a run does not look for deadlocks, the system may stop: its bounds are used up
or nobody has anything to do.

### Fairness

Only weak fairness of goroutines that the Go scheduler runs, of tickers that fire
again and of timeouts: in `node` that, while a worker commits or a log goroutine runs,
one of them goes on, in `txpool` the callers and the housekeeping ticker, in `gas_limit` the packer's turn, in `block_sync`
the sync timer and the goroutines of download (a request is answered or fails by its
timeout), in `rpc` the reading loop, the callers and their timer, in `propagation` the
clock, the ticker and its loop. Nothing is assumed of peers, of new blocks or of
callers beginning a call.

## Proofs

| theorem | for every |
|---|---|
| `BlockProofs`: `ChainTypes`, `SchedulePromised`, `TotalScoreGrew`, `ScoreCounted`, `NobodyDeactivated` | set of proposers, interval, hash and clock |
| `BlockProofs`: `LimitStaysInRange`, `PackedStaysValid`, `TargetApproached` | floor, divisor, word size, targets |
| `BlockProofs`: `CacheStaysCoherent`, `PackedPassesValidation` | candidates, balances, hash, transactions, tree of blocks, size of the cache |
| `ProtocolProofs`: `ListStaysLinked`, `ListImplemented` | set of masters |
| `ProtocolProofs`: `FetchesStayCounted`, `QueueStaysDrained` | peers, tree of blocks, times, limits |
| `NodeProofs`: `RepositoryStaysSound`, `BestImproved`, `SideTxsStayOffered`, `BestStaysBest`, `LogsFollowTrunk`, `SyncRepairs` | tree of blocks, workers, errors, crashes |
| `PrunerProofs`: `StateStaysAvailable`, `ArchiveStaysComplete` | length of the history, delays, forks, commits, cycles, restarts |
| `TxPoolProofs`: `QuotaStaysExact`, `IdIndexStaysSound`, `WashStaysWithinLimit`, `OfferedStaysAnnounced`, `AccountStaysLimited` | transactions, accounts, callers, limits |
| `NetworkProofs`: `SearchFindsAncestor`, `SyncStaysComplete` | tree of blocks, chains in it, batch and stream sizes |
| `NetworkProofs`: `PendingsStayExact`, `AnswersAreOwn` | callers, calls, ids, answers |
| `StackedMapProofs`: `NewIndexed`, `PushIndexed`, `PutIndexed`, `PopIndexed`, `GetIsNewest`, `PopRestores` | keys, values, levels |
| `EvmProofs`: `MapsStayIndexed`, `StaticKeepsState`, `FailedFramesUndone` | accounts, code, clause, depth of calls |

The assumptions are the named ASSUMEs of the component modules: types of the
constants, a positive interval, a gas limit floor not below the divisor, addresses
without repetition, an absent value (`Missing`) that is no number, and what makes blocks
a tree: in `Node` that parents come first (every set of blocks besides genesis has one
whose parent is outside), in `BlockSync` that any two blocks of a chain are on one
another's chain and that chains are finite, in `Propagation` that a block's number is one
above its parent's. `Consensus` assumes that the genesis list names no master twice and
that masters are added from the known set; `Pruner`, that `MaxAhead` is within the slack.
TLC evaluates them in every run.

*Poal.* `TypeOK` is inductive. The work is in the lemmas: `NthExists` (a draw hits an
active proposer), `ScoreOfUpdates` (the deactivated are active and are not the
proposer, so the difference is positive and counts what stays) and `FirstSlotAligned`.

*Authority.* `Inv` says that links are mutual, that ends have no neighbour and that
head and tail are listed. It is inductive together with `Acyclic`, the existence of a
ranking along `Next`: without it a cycle beside the list would become a self-link.
For the refinement that is still too little: `Threaded` names the sequence of masters
that the links thread, from head to tail and without repetition. `AllCandidates` walks
along it, so the mapping yields that sequence, and Add, Revoke and Update are shown to
append to it, to take one out and to change one flag: each a step of `CandidateList`.

*Node.* `RepositorySound` alone is not inductive: a step has to know that the worker
inside holds the lock alone (`LockHeld`), that what it is about to add or to set is
committed or stored, and that the best block is the one it compared with
(`Progress`). `BestImproved` and `SideTxsStayOffered` rest on the same invariant, the
latter with the fact that a block enters the best chain only in a commit that will give
back what it displaced. What only the caches hold has its state committed and is among
the blocks whose write failed, so the parent of a block that is added is stored or one
of these (`Held`). `Calm` is the invariant of the time before the first failing
write or crash: a stored block that beats the best one is in the hands of the worker
that is about to set it, and the log database holds the logs of the best chain, or of the
new block's chain, or the log goroutine that leads from one to the other is running.
`BestStaysBest` and `LogsFollowTrunk` are read off it. `Stopped` says what the first
crash leaves, the logs of one whole chain whose head is the newest block noted;
`seekLogDBSyncPosition` then finds where this chain and the best one part (`SyncRepairs`).
It is about the first crash: that one may lose the logs of the best block itself (see
`node_trunk_logged`), and after the next block this loss is below the best block.
The facts about chains (`ChainLinear`, `AncestorLower`, `RowsMove`...) are proved from
the tree.

*TxPool.* The quota is the cardinality of a set of pooled transactions; the invariant
adds that an object is filed under its own hash and id and that callers and the wash
hold existing objects. `Fill` adds many at once, and its lemma `FillMap` is about
disjoint unions. A second invariant, `JInv`, follows the wash through its steps: what it
keeps of its snapshot, less what it has still to remove, is within the limit, although
others remove and add meanwhile (`Bounded`), for which what callers are about to add must
not be in the snapshot (`Unpooled`); and an object whose flag is set was announced, as is
all that a wash offers once it has announced (`Told`).

*GasLimit.* The invariant is the range of the gas limit; `QualifyBounded` shows that
what `Qualify` gives is within the bound, the range and the side of the target.

*Consensus.* The invariant (`ConsensusIInv`) is coherence itself, with the facts about a
block that its preservation needs: its list has no master twice and only masters the
contract knows, and numbers and parents are those of earlier blocks. That it is kept is
an argument about pointers: `FreePtrIs` finds a list that no cached object has, since
there is one more than the cache holds; `CandidatesUpdateIs` shows that Update writes
into such a list, never into a shared one; and `PickedStays` shows that without an event
of an endorsor the picked positions are those a fresh pick on the new state would give.
For a list of one candidate the two may differ in the active flag, which the contract
refuses to write (`Alike`). `PackedPassesValidation` rests on `SchedulesAlike`: schedulers
over alike lists answer alike, since a proposer that schedules itself counts as active.

*Propagation.* `Tallied` makes the counters inductive: the fetches are finitely many, one
at most of a peer, and of a block as many as its counter says. `Rooted` says that stored
blocks are valid and have their parents stored. `QueueStaysDrained` follows a tick block by
block (`Passing`): what was due is stored and gone from the queue, or still to come. The
next block by number is due only if its parent, which has a lower number, was, or was
stored before; so the parent is stored when its turn comes, and the block is accepted, or
known because somebody else has stored it meanwhile.

*Pruner.* The blocks are a tree that grows, and a block's path does not change when others
are added (`PathStable`, `GrownPaths`), so the state at a number of the best chain is
well defined (`AtIs`). `Loop` relates what the loop holds to what is saved, at each point
where it may be stopped. `Separate` is the reason for the slack: from the switch on, the
space that is to be swept gets no node above N2, since no commit is further ahead of the
best block (`Near`). `Lost` says which nodes are in no live space: those at or below what
is archived, further back than the history to keep. `Kept` says what is archived at each
step, unless a fork went below N2. `AvailableFollows` joins the last two: a node of the
history that is in no live space is the node its trie has at the archived number.

*BlockSync.* While the chains stand still, the place where they part is between the
bounds of the search or is the ancestor noted last (`Searching`). During a download the
blocks in the answer and in the stream are a segment of the peer's chain that continues
what is stored (`Streaming`), and a goroutine that ended without an error ended with the
stream (`Goroutines`).

*Rpc.* A listener is traced to a call under way (`Listened`), and a call that waits keeps
its listener unless there is an excuse (`Waits`, `Excused`). What a caller takes from its
channel is traced to what was decoded before it was put there (`Decoded`), and that to a
message whose request had the listener's id and was not made later (`Fits`): messages
answer calls that were made (`CallsMade`), and the listener of an id is that of the last
call that drew it.

*StackedMap.* `Indexed` says that the revisions of a key list, in increasing order,
exactly the levels that hold it. New, Push, Put, Pop and PopTo keep it. `GetIsNewest`
follows: the last revision is the highest level with the key. `PopRestores` says of a
map that any puts after a Push have led to (the levels below are untouched, one is on
top) that after Pop every Get answers as before.

*Evm.* What a clause can change (`Visible`) is a function of the levels of the two maps.
All setters write on the top levels only (`Writes`). `Snapshot` leaves on the top level
of the one map the depth of the other; as long as nothing below is written, reverting to
it cuts both maps where they were (`RevertCuts`, `RevertSeen`) and keeps the snapshots
taken before it (`RevertKeeps`). The invariant of the machine, `Holds`, says that every
open frame has such a snapshot, which shows what the frame found when it was entered
(`Opened`); that inner frames have later ones, in both maps (`Nested`); and that from a
static call inwards all frames are read only, none is a create, and what is visible is
what the call began with (`Frozen`). The theorems are about `EvmSpec(Menus)`, for any
set of menus; `Tracing` takes no other steps of the machine, so they hold there for
every tracer.

The prover has no induction over data. Where a recursive function is to be reasoned
about (the walk of `AllCandidates`, `PopTo`, `Journal`, `GetLogs`, the chains of
`Node` and `Pruner`) the proofs use that a set of numbers has a least element (`LeastNumber`, `NoLeast`), or
that parents come first (`BlockInduction`).

`ChainTypes`, `TotalScoreGrew`, `NobodyDeactivated`, `LimitStaysInRange` and
`TargetApproached` state `TypeOK`, `TotalScoreGrows`, `NoMissNoDeactivation` and
`Approaches`, which no run checks: the proofs cover every instance.

## Only model-checked

Liveness under fairness, which is beyond the prover; and of `Tracing` what the tracers
report (`CallsReported`, `OpsNested`, `PrestateTrue`, `HistogramsExact`), since the report
of the call tracer is made by a recursive operator, which the prover does not handle.
All other invariants and action properties that the runs check are proved.

## Where the code and its comments differ

The run `node_trunk_logged` ends in a counterexample that `PROJECT.json` explains under
"findings": a crash between a sibling's log write and the change of the best block loses
the best block's logs, which the start-up does not notice.

More were met while modelling. The models follow the code, and the properties are
stated so as to hold of it:

- `stepInitiate` of the pruner waits only until the best number is above N2
  (`pruner.go:97`) before the state at N2 is archived. If a fork then replaces the block
  at N2, the next cycle takes the replacing block's state, which was never archived, as
  the base of its difference, and sweeps nodes that the best block still uses, although
  `luckyshare/params.go:37` calls MaxStateHistory the 'max guaranteed state history'.
  `StateAvailable` and `ArchiveComplete` end where `overtaken` begins; the run shows
  that nothing else loses a node.
- `Authority.Revoke` and `Update` refuse a sole candidate, because its entry has no
  neighbour (`authority.go:143`), and the contract then says it is not listed.
  `CandidateList` has the guard `Len(list) > 1` for that.
- `defer awaitLog()` in `commitBlock` (`node.go:298`) binds the function before it is
  assigned, so an error return leaves the log goroutine running outside the lock. It
  can then overwrite the logs of a later commit, which is why `SyncRepairsBelowBest`
  speaks of a crash that no failing write preceded.
- `saveBlock` adds a block to the caches inside the batch (`repository.go:175`), before it
  is written. If the write fails, `AddBlock` returns the error, but the block is known and
  a child can be stored upon it and become the best block. After a restart the chain has a
  hole, which `syncLogDB` may fail to read, and while the process runs `processFork` stops at
  such a block once it has left the caches. `RepositorySound` and `SideTxsOffered` except
  these blocks, and only these.
- `prepareCall` (`rpc.go:161`) makes sure that no pending call has the id it draws, but a
  call that has returned may have had it: a late answer to that call then ends the new one,
  and `finalizeCall` of a call removes whatever listener its id has. `OwnAnswer` and
  `PendingsExact` allow for equal ids, and for nothing else.
- `txObjectMap.RemoveByHash` (`tx_object_map.go:75`) deletes the id's entry even if it
  is another pooled transaction's, so `Get` may miss a pooled transaction.
  `IdIndexSound` is therefore about what the index holds, not about what it lacks.
- The call tracer 'extracts and reports all the internal calls' (`call_tracer.js:17`),
  but it notices that a call has returned only at an operation that is neither a call, a
  create, a self destruction nor a revert, and that is not refused. Such an operation
  directly after a call is handled first, and the call is reported under the wrong
  caller or not at all. `CallsReported` excludes it by `truth.clean`.
- The prestate tracer looks up `toContract(from, nonce)` for a CREATE
  (`prestate_tracer.js:87`), which is not how this chain makes addresses, so storage
  access in init code throws and there is no report; neither is there one of a clause
  without operations. It does not look up who is paid by a self destruction; it takes
  a failed clause's value off the receiver, although it was returned; the nonce of the
  sender becomes -1, since `GetNonce` answers 0. `PrestateTrue` is stated accordingly.
- The disassembly tracer does not record the first operation after a call, nor the
  operations of init code; after two calls in a row those of the second callee are
  lost; `SUICIDE` (`evmdis_tracer.js:79`) is not a name the machine uses. `OpsNested` is
  about what it records.
- The trigram tracer forgets the first operation at each new depth, and the 4byte tracer
  counts calls that are refused. `HistogramsExact` says exactly that.

## Not modelled

- In `Evm`: instructions that only compute, amounts of gas, refunds, memory and return
  data; energy; what native methods do to the state, and their panics; `NoRecursion`
  and `Cancel`. Code is left open instead, so every order of the modelled operations
  is covered.
- Tries, encodings, cryptography, HTTP handlers, genesis data and ABI: data out of a
  model checker's reach, or no state. `api/doc/swagger-ui` is a minified copy of a
  published user interface.
- `consensus/kademlia` and `consensus/permission` are imported by nothing in the node.
- Gossip of transactions (`MarkTransaction`, `txsLoop`, `syncTxs`, `MsgGetTxs`,
  `BroadcastBlock`), the transaction stash, the packer loop and `Flow.Adopt`, `prio_cache`,
  the block readers of the subscriptions, `verifyLogDB`, the built-in contracts besides
  Authority, the p2p server and node discovery: they could be modelled in the same way.
  `PROJECT.json` lists the hazards of these that no property covers.
