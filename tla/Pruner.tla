------------------------------- MODULE Pruner -------------------------------
(***************************************************************************)
(* The state pruner (cmd/luckyshare/pruner/pruner.go and status.go) on the *)
(* trie spaces of muxdb (trie_pruner.go, trie_live_space.go, trie.go),     *)
(* beside the goroutines that commit blocks.                               *)
(*                                                                         *)
(* Each of the two tries, the index and the accounts, is one node per      *)
(* block that changed it: a state is the pair of blocks that last wrote    *)
(* the two.  A node is found if the permanent space or one of the two live *)
(* spaces holds it.  The steps of the pruner are kept with the point where *)
(* its status is saved, so that it may be interrupted anywhere.            *)
(***************************************************************************)
EXTENDS Naturals, Sequences, FiniteSets

CONSTANTS
  InitSlack,         \* how far ahead of the best block N2 is put (10)
  MaxStateHistory,   \* blocks whose state is guaranteed (65535)
  DropDelay,         \* what DropStaleNodes waits for besides (128)
  MaxAhead,          \* how far ahead of the best block a block that is committed may be
  MaxReorg,          \* bound: how many blocks of the best chain may be replaced
  MaxFaults,         \* bound: blocks that do not extend the best block, and restarts
  MaxWrites,         \* bound: blocks that change the account trie
  MaxBlocks          \* bound: blocks

ASSUME PrunerAssumption ==
  /\ {InitSlack, MaxStateHistory, DropDelay, MaxReorg, MaxFaults, MaxWrites, MaxBlocks} \subseteq Nat
  /\ MaxAhead \in 1..InitSlack

VARIABLES
  blocks,      \* [parent, number, node], the first is genesis
  bestBlock,
  forks,       \* blocks so far that do not extend the best block
  committing,  \* commits under way: [parent, changed, space]
  live,        \* the nodes in the live spaces A and B
  permanent,   \* the nodes in the permanent space
  active,      \* the live space commits write to
  status,      \* as saved: [N1, N2, Step, Cycles]
  mem,         \* as held by the running loop
  waiting,     \* the loop is past the switch of stepInitiate
  restarts,
  overtaken    \* history: a fork has replaced a block at or below a saved N2

prunerVars == <<blocks, bestBlock, forks, committing, live, permanent, active, status, mem, waiting, restarts, overtaken>>
tries == <<blocks, bestBlock, forks, committing, overtaken>>
spaces == <<live, permanent, active>>

Trie == {"index", "account"}

Nodes(b) == { <<t, blocks[b].node[t]>> : t \in Trie }

Found == live["A"] \cup live["B"] \cup permanent

bestNum == blocks[bestBlock].number

\* The chain that ends at b, as the set of its blocks.
ChainOf(b) ==
  LET anc[c \in 1..b] == IF c = 1 THEN {1} ELSE {c} \cup anc[blocks[c].parent]
  IN  anc[b]

\* bestChain.GetBlockID
BlockAt(n) == CHOOSE b \in ChainOf(bestBlock) : blocks[b].number = n

PrunerInit ==
  /\ blocks = <<[parent |-> 0, number |-> 0, node |-> [t \in Trie |-> 1]]>>
  /\ bestBlock = 1 /\ forks = 0
  /\ committing = {}
  /\ live = [s \in {"A", "B"} |-> IF s = "A" THEN { <<t, 1>> : t \in Trie } ELSE {}]
  /\ permanent = {} /\ active = "A"
  /\ status = [N1 |-> 0, N2 |-> 0, Step |-> "initiate", Cycles |-> 0]
  /\ mem = [N1 |-> 0, N2 |-> 0, Step |-> "stopped", Cycles |-> 0]
  /\ waiting = FALSE
  /\ restarts = 0 /\ overtaken = FALSE

Writes == Cardinality({ b \in DOMAIN blocks \ {1} : blocks[b].node["account"] = b })

-----------------------------------------------------------------------------
(* Committing blocks. *)

\* A commit asks for the active space before it writes.
BeginCommit(parent, changed) ==
  /\ committing = {} /\ Len(blocks) < MaxBlocks
  /\ blocks[parent].number < bestNum + MaxAhead
  /\ \A b \in ChainOf(bestBlock) \ ChainOf(parent) : blocks[b].number + MaxReorg > bestNum
  /\ parent # bestBlock => forks + restarts < MaxFaults
  /\ "account" \in changed => Writes < MaxWrites
  /\ forks' = IF parent = bestBlock THEN forks ELSE forks + 1
  /\ committing' = {[parent |-> parent, changed |-> changed, space |-> active]}
  /\ UNCHANGED <<blocks, bestBlock, spaces, status, mem, waiting, restarts, overtaken>>

\* The tries of a block ask one after the other, so a later one may meet the space
\* of now.  A child of the best block is better than it; another block may be if its
\* chain is not the shorter one.
EndCommit(c, space) ==
  LET id == Len(blocks) + 1
      new == [ parent |-> c.parent, number |-> blocks[c.parent].number + 1,
               node |-> [t \in Trie |-> IF t \in c.changed THEN id ELSE blocks[c.parent].node[t]] ]
  IN  /\ c \in committing
      /\ space \in [c.changed -> {c.space, active}]
      /\ committing' = {}
      /\ blocks' = Append(blocks, new)
      /\ live' = [s \in {"A", "B"} |-> live[s] \cup { <<t, id>> : t \in { u \in c.changed : space[u] = s } }]
      /\ bestBlock' \in IF c.parent = bestBlock THEN {id}
                         ELSE IF new.number >= bestNum THEN {bestBlock, id} ELSE {bestBlock}
      /\ overtaken' = \/ overtaken
                      \/ /\ bestBlock' # bestBlock
                         /\ \E b \in ChainOf(bestBlock) \ ChainOf(c.parent) : blocks[b].number <= status.N2
      /\ UNCHANGED <<forks, permanent, active, status, mem, waiting, restarts>>

-----------------------------------------------------------------------------
(* The loop. *)

\* Mutant: the nodes of the older trie are taken for archived in the first cycle, too.
Archived_AlwaysDiff(t, n1, n2) == { <<t, blocks[BlockAt(n2)].node[t]>> } \ { <<t, blocks[BlockAt(n1)].node[t]>> }

\* ArchiveNodes of the two tries at n1 and n2: the nodes only the later one has; of
\* genesis, all.
Archived(t, n1, n2) ==
  { <<t, blocks[BlockAt(n2)].node[t]>> }
    \ IF n1 = 0 /\ n2 = 0 THEN {} ELSE { <<t, blocks[BlockAt(n1)].node[t]>> }

\* The process starts: the status is loaded, and before the first cycle is through
\* genesis is archived.
Start ==
  /\ mem.Step = "stopped"
  /\ mem' = status
  /\ permanent' = IF status.Cycles = 0
                  THEN permanent \cup UNION { Archived(t, 0, 0) : t \in Trie }
                  ELSE permanent
  /\ UNCHANGED <<tries, live, active, status, waiting, restarts>>

\* The process stops between two writes; blocks under way are lost.
Stop ==
  /\ mem.Step # "stopped" /\ forks + restarts < MaxFaults
  /\ restarts' = restarts + 1
  /\ mem' = [N1 |-> 0, N2 |-> 0, Step |-> "stopped", Cycles |-> 0]
  /\ waiting' = FALSE
  /\ committing' = {}
  /\ UNCHANGED <<blocks, bestBlock, forks, spaces, status, overtaken>>

\* Mutant: the range ends at the best block, before commits under way are through.
N2AfterSwitch_Best == IF bestNum < MaxStateHistory THEN MaxStateHistory ELSE bestNum

N2AfterSwitch ==
  IF bestNum + InitSlack < MaxStateHistory THEN MaxStateHistory ELSE bestNum + InitSlack

\* stepInitiate: the switch is stored at once.
Switch ==
  /\ mem.Step = "initiate" /\ ~waiting
  /\ active' = IF active = "A" THEN "B" ELSE "A"
  /\ mem' = [mem EXCEPT !.N1 = mem.N2, !.N2 = N2AfterSwitch]
  /\ waiting' = TRUE
  /\ UNCHANGED <<tries, live, permanent, status, restarts>>

Initiated ==
  /\ waiting /\ bestNum > mem.N2
  /\ mem' = [mem EXCEPT !.Step = "index"]
  /\ status' = mem'
  /\ waiting' = FALSE
  /\ UNCHANGED <<tries, spaces, restarts>>

\* The nodes are written, and then the status: a restart may archive twice.
Archive(t, written) ==
  /\ mem.Step = t
  /\ permanent' = permanent \cup Archived(t, mem.N1, mem.N2)
  /\ mem' = [mem EXCEPT !.Step = written]
  /\ UNCHANGED <<tries, live, active, status, waiting, restarts>>

SaveArchived(written, next) ==
  /\ mem.Step = written
  /\ mem' = [mem EXCEPT !.Step = next]
  /\ status' = mem'
  /\ UNCHANGED <<tries, spaces, waiting, restarts>>

\* DropStaleNodes, once the history to keep is past N2.
DropStale ==
  /\ mem.Step = "drop" /\ bestNum > mem.N2 + MaxStateHistory + DropDelay
  /\ live' = [live EXCEPT ![IF active = "A" THEN "B" ELSE "A"] = {}]
  /\ mem' = [mem EXCEPT !.Step = "dropped"]
  /\ UNCHANGED <<tries, permanent, active, status, waiting, restarts>>

SaveDropped ==
  /\ mem.Step = "dropped"
  /\ mem' = [mem EXCEPT !.Step = "initiate", !.Cycles = 1]
  /\ status' = mem'
  /\ UNCHANGED <<tries, spaces, waiting, restarts>>

PrunerNext ==
  \/ \E parent \in DOMAIN blocks, accounts \in BOOLEAN :
       BeginCommit(parent, IF accounts THEN Trie ELSE {"index"})
  \/ \E c \in committing : \E space \in [c.changed -> {"A", "B"}] : EndCommit(c, space)
  \/ Start \/ Stop
  \/ Switch \/ Initiated
  \/ Archive("index", "index-done") \/ SaveArchived("index-done", "account")
  \/ Archive("account", "account-done") \/ SaveArchived("account-done", "drop")
  \/ DropStale \/ SaveDropped

PrunerSpec == PrunerInit /\ [][PrunerNext]_prunerVars

-----------------------------------------------------------------------------
PrunerTypeOK ==
  /\ \A b \in DOMAIN blocks : b # 1 => blocks[b].parent \in 1..b - 1
  /\ bestBlock \in DOMAIN blocks /\ active \in {"A", "B"}
  /\ \A n \in Found : n \in Trie \X DOMAIN blocks
  /\ \A s \in {status, mem} : s.N1 <= s.N2 /\ s.Cycles \in 0..1

\* The state of the last MaxStateHistory blocks of the best chain is complete:
\* whenever the pruner archives, sweeps, is interrupted and starts again, and
\* whatever is being committed meanwhile, as long as forks replace blocks above N2 only.
StateAvailable ==
  ~overtaken =>
    \A b \in ChainOf(bestBlock) :
      blocks[b].number + MaxStateHistory >= bestNum => Nodes(b) \subseteq Found

\* What the next cycle builds on: when the stale nodes are about to be swept, the
\* permanent space holds the whole state at N2, as long as forks replace blocks above
\* N2 only.  And the state keeps its type.
ArchiveComplete ==
  /\ PrunerTypeOK
  /\ mem.Step \in {"drop", "dropped"} /\ ~overtaken => Nodes(BlockAt(mem.N2)) \subseteq permanent
=============================================================================
