---------------------------- MODULE Propagation -----------------------------
(***************************************************************************)
(* How a block comes in: the handlers of MsgNewBlock and MsgNewBlockID     *)
(* (commu/handle_rpc.go), the loop that fetches announced blocks           *)
(* (commu/announcement_loop.go), the feed of new blocks, and house keeping *)
(* with its queue of blocks that are early (cmd/luckyshare/node/node.go,   *)
(* cache/rnd_cache.go).                                                    *)
(***************************************************************************)
EXTENDS Repository, Naturals, FiniteSets

CONSTANTS
  Peers,
  Parent,       \* Parent[b]
  Time,         \* Time[b]: the first time b is not in the future
  Number,       \* Number[b]
  Valid,        \* blocks that pass the other checks
  maxFetches,   \* fetches at a time of one block
  FutureLimit,  \* entries of the queue (32)
  MaxNow,       \* bound: the clock
  MaxMessages   \* bound: messages of a peer

ASSUME PropagationAssumption ==
  /\ Genesis \in Valid /\ Valid \subseteq Blocks
  /\ Parent \in [Blocks -> Blocks] /\ Time \in [Blocks -> Nat] /\ Number \in [Blocks -> Nat]
  /\ Parent[Genesis] = Genesis
  /\ \A b \in Blocks \ {Genesis} : Number[b] = Number[Parent[b]] + 1
  /\ {maxFetches, FutureLimit, MaxNow, MaxMessages} \subseteq Nat /\ maxFetches > 0 /\ FutureLimit > 0

VARIABLES
  now,
  rpc,              \* rpc[p]: what the handler of p's message waits to pass on
  messages,         \* messages[p]: messages of p so far
  fetchingPeers,
  fetchingBlockIDs, \* fetchingBlockIDs[b]: the counter of b, 0 if it has none
  fetches,          \* goroutines: [peer, id, phase]
  futureBlocks,
  lost,             \* blocks the queue dropped to stay in its limit
  ticking,          \* what the ticker has still to go through
  due               \* history: what was ready in the queue when the ticker last began

propagationVars == <<stored, now, rpc, messages, fetchingPeers, fetchingBlockIDs, fetches,
                     futureBlocks, lost, ticking, due>>
announce == <<fetchingPeers, fetchingBlockIDs>>
tick == <<ticking, due>>
queue == <<futureBlocks, lost, tick>>

none == [kind |-> "none", id |-> Genesis]

PropagationInit ==
  /\ stored = {Genesis} /\ now = 0
  /\ rpc = [p \in Peers |-> none] /\ messages = [p \in Peers |-> 0]
  /\ fetchingPeers = {} /\ fetchingBlockIDs = [b \in Blocks |-> 0] /\ fetches = {}
  /\ futureBlocks = {} /\ lost = {} /\ ticking = {} /\ due = {}

Clock ==
  /\ now < MaxNow
  /\ now' = now + 1
  /\ UNCHANGED <<stored, rpc, messages, announce, fetches, queue>>

-----------------------------------------------------------------------------
(* handleRPC *)

\* A peer sends a block or its id; the handler waits until it is taken.
Message(p, kind, b) ==
  /\ rpc[p] = none /\ messages[p] < MaxMessages
  /\ messages' = [messages EXCEPT ![p] = @ + 1]
  /\ rpc' = [rpc EXCEPT ![p] = [kind |-> kind, id |-> b]]
  /\ UNCHANGED <<stored, now, announce, fetches, queue>>

-----------------------------------------------------------------------------
(* announcementLoop *)

\* One fetch per peer and maxFetches per block; else the announcement is skipped.
Announced(p) ==
  LET b == rpc[p].id
  IN  /\ rpc[p].kind = "id"
      /\ rpc' = [rpc EXCEPT ![p] = none]
      /\ IF p \notin fetchingPeers /\ fetchingBlockIDs[b] < maxFetches
         THEN /\ fetchingPeers' = fetchingPeers \cup {p}
              /\ fetchingBlockIDs' = [fetchingBlockIDs EXCEPT ![b] = @ + 1]
              /\ fetches' = fetches \cup {[peer |-> p, id |-> b, phase |-> "asking"]}
         ELSE UNCHANGED <<announce, fetches>>
      /\ UNCHANGED <<stored, now, messages, queue>>

\* fetchBlockByID: a block that is stored meanwhile is not asked for, and the peer may
\* fail to answer.
Ask(f) ==
  /\ f \in fetches /\ f.phase = "asking"
  /\ \E phase \in IF f.id \in stored THEN {"done"} ELSE {"sending", "done"} :
       fetches' = (fetches \ {f}) \cup {[f EXCEPT !.phase = phase]}
  /\ UNCHANGED <<stored, now, rpc, messages, announce, queue>>

\* Mutant: the counter of a block is deleted with the first fetch that is done.
FetchDone_Deletes(f) ==
  /\ f \in fetches /\ f.phase = "done"
  /\ fetches' = fetches \ {f}
  /\ fetchingPeers' = fetchingPeers \ {f.peer}
  /\ fetchingBlockIDs' = [fetchingBlockIDs EXCEPT ![f.id] = 0]
  /\ UNCHANGED <<stored, now, rpc, messages, queue>>

FetchDone(f) ==
  /\ f \in fetches /\ f.phase = "done"
  /\ fetches' = fetches \ {f}
  /\ fetchingPeers' = fetchingPeers \ {f.peer}
  /\ fetchingBlockIDs' = [fetchingBlockIDs EXCEPT ![f.id] = IF @ > 1 THEN @ - 1 ELSE 0]
  /\ UNCHANGED <<stored, now, rpc, messages, queue>>

-----------------------------------------------------------------------------
(* houseKeeping *)

\* What processBlock answers.
Verdict(b) ==
  IF b \in stored THEN "known"
  ELSE IF Parent[b] \notin stored THEN "parent missing"
  ELSE IF Time[b] > now THEN "future"
  ELSE IF b \notin Valid THEN "bad"
  ELSE "ok"

\* RandCache.Set drops any entry when there is one too many.
Queued(b) ==
  IF b \in futureBlocks \/ Cardinality(futureBlocks) < FutureLimit
  THEN futureBlocks' = futureBlocks \cup {b} /\ lost' = lost \ {b}
  ELSE \E d \in futureBlocks \cup {b} :
         /\ futureBlocks' = (futureBlocks \cup {b}) \ {d}
         /\ lost' = (lost \ {b}) \cup {d}

\* A new block, when the ticker is not at work: it is stored; or queued if it is early or
\* its parent is queued; or dropped.
NewBlock(b) ==
  LET v == Verdict(b)
      early == v = "future" \/ (v = "parent missing" /\ Parent[b] \in futureBlocks)
  IN  /\ ticking = {}
      /\ \/ /\ v = "ok"
            /\ stored' = stored \cup {b}
            /\ UNCHANGED <<futureBlocks, lost>>
         \/ /\ early
            /\ Queued(b)
            /\ UNCHANGED stored
         \/ /\ v # "ok" /\ ~early
            /\ UNCHANGED <<stored, futureBlocks, lost>>
      /\ UNCHANGED tick

\* newBlockFeed.Send, from the handler of MsgNewBlock
Feed(p) ==
  /\ rpc[p].kind = "block"
  /\ rpc' = [rpc EXCEPT ![p] = none]
  /\ NewBlock(rpc[p].id)
  /\ UNCHANGED <<now, messages, announce, fetches>>

\* and from a fetch
FeedFetched(f) ==
  /\ f \in fetches /\ f.phase = "sending"
  /\ fetches' = (fetches \ {f}) \cup {[f EXCEPT !.phase = "done"]}
  /\ NewBlock(f.id)
  /\ UNCHANGED <<now, rpc, messages, announce>>

\* The queued blocks that can be stored, and all of them in the order of their numbers.
Ready ==
  UNION { S \in SUBSET futureBlocks :
            \A b \in S : b \in Valid /\ Time[b] <= now /\ Parent[b] \in stored \cup S }

\* futureTicker: goes through the blocks that are queued now.
FutureTick ==
  /\ ticking = {} /\ futureBlocks # {}
  /\ ticking' = futureBlocks
  /\ due' = Ready
  /\ UNCHANGED <<stored, now, rpc, messages, announce, fetches, futureBlocks, lost>>

\* Mutant: from the highest number down.
FutureBlock_Descending(b) ==
  LET v == Verdict(b)
  IN  /\ b \in ticking /\ \A a \in ticking : Number[a] <= Number[b]
      /\ ticking' = ticking \ {b}
      /\ stored' = IF v = "ok" THEN stored \cup {b} ELSE stored
      /\ futureBlocks' = IF v \in {"ok", "known"} THEN futureBlocks \ {b} ELSE futureBlocks
      /\ UNCHANGED <<now, rpc, messages, announce, fetches, lost, due>>

\* Mutant: every block leaves the queue.
FutureBlock_Removes(b) ==
  LET v == Verdict(b)
  IN  /\ b \in ticking /\ \A a \in ticking : Number[b] <= Number[a]
      /\ ticking' = ticking \ {b}
      /\ stored' = IF v = "ok" THEN stored \cup {b} ELSE stored
      /\ futureBlocks' = futureBlocks \ {b}
      /\ UNCHANGED <<now, rpc, messages, announce, fetches, lost, due>>

\* The next of them by number, and blocks of one number in any order; it leaves the queue
\* if it is stored or was known.
FutureBlock(b) ==
  LET v == Verdict(b)
  IN  /\ b \in ticking /\ \A a \in ticking : Number[b] <= Number[a]
      /\ ticking' = ticking \ {b}
      /\ stored' = IF v = "ok" THEN stored \cup {b} ELSE stored
      /\ futureBlocks' = IF v \in {"ok", "known"} THEN futureBlocks \ {b} ELSE futureBlocks
      /\ UNCHANGED <<now, rpc, messages, announce, fetches, lost, due>>

\* The sync process, or the packer, stores a block.
Elsewhere(b) ==
  /\ Verdict(b) = "ok"
  /\ stored' = stored \cup {b}
  /\ UNCHANGED <<now, rpc, messages, announce, fetches, queue>>

PropagationNext ==
  \/ Clock
  \/ \E p \in Peers :
       \/ \E kind \in {"block", "id"}, b \in Blocks \ {Genesis} : Message(p, kind, b)
       \/ Announced(p) \/ Feed(p)
  \/ \E f \in fetches : Ask(f) \/ FetchDone(f) \/ FeedFetched(f)
  \/ FutureTick
  \/ \E b \in ticking : FutureBlock(b)
  \/ \E b \in Blocks : Elsewhere(b)

PropagationSpec == PropagationInit /\ [][PropagationNext]_propagationVars

\* Time passes, and the ticker goes on; nothing need arrive and no fetch need end.
PropagationFairSpec ==
  /\ PropagationSpec
  /\ WF_propagationVars(Clock) /\ WF_propagationVars(FutureTick)
  /\ WF_propagationVars(\E b \in ticking : FutureBlock(b))

-----------------------------------------------------------------------------
PropagationTypeOK ==
  /\ stored \subseteq Valid /\ \A b \in stored : Parent[b] \in stored
  /\ \A b \in Blocks : fetchingBlockIDs[b] \in 0..maxFetches
  /\ Cardinality(futureBlocks) <= FutureLimit
  /\ ticking \subseteq futureBlocks

\* The counters of the loop are the fetches under way: one at most of a peer, as many
\* as counted of a block, none forgotten, whatever order they end in.  And the state keeps its type.
FetchesCounted ==
  /\ PropagationTypeOK
  /\ \A b \in Blocks : fetchingBlockIDs[b] = Cardinality({ f \in fetches : f.id = b })
  /\ fetchingPeers = { f.peer : f \in fetches }
  /\ Cardinality(fetches) = Cardinality(fetchingPeers)

Ancestry(b) == { a \in Blocks : a = b \/ a = Parent[b] \/ a = Parent[Parent[b]] }

\* When the ticker has gone through the queue, every block is stored and gone from the
\* queue that was due and valid when it began and had its parent stored or queued and
\* ready in the same way: a whole branch goes in at once, whatever is stored meanwhile
\* by the sync process or the packer, and in whatever order blocks of one number come.
QueueDrains ==
  ticking = {} => due \subseteq stored /\ due \cap futureBlocks = {}

\* A block that came early, and upon ancestors that are stored or queued, is stored in
\* the end, unless the queue dropped it or one of them, or one of them is bad.
EarlyIsStored ==
  \A b \in Valid :
    b \in futureBlocks ~> \/ b \in stored
                          \/ \E a \in Ancestry(b) : a \in lost \/ a \notin Valid

=============================================================================
