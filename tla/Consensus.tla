----------------------------- MODULE Consensus -----------------------------
(***************************************************************************)
(* Block validation with the cache of candidates (consensus/consensus.go,  *)
(* consensus/validator.go, consensus/poal/candidates.go), next to the      *)
(* packer, which never uses the cache (packer/packer.go).                  *)
(*                                                                         *)
(* A block is a record of its header and of the state after it: the list   *)
(* of the Authority contract and the endorsors whose balance reaches the   *)
(* endorsement.  Its identity is its position in `blocks`.  The cache maps *)
(* blocks to Candidates objects; the slices `list` of these objects are    *)
(* pointers into `heap`, because copies share them until one is written.   *)
(*                                                                         *)
(* Process runs under Node.consLock, so it is one action; the commit of    *)
(* the block it accepted comes later, under another lock, or never.  Every *)
(* check about gas, the transactions and the roots is a choice.            *)
(***************************************************************************)
EXTENDS Poal

CONSTANTS
  Masters,        \* node masters; each has its own endorsor
  GenesisList,    \* the candidates' list of the genesis block
  Endorsor,       \* the endorsor of each node master
  Bodies,         \* what the transactions of a block may do to the list and the balances
  Hash,           \* Hash[number][time], the draw of dprp
  VIP191,         \* first block with transaction features
  CacheSize,      \* capacity of candidatesCache (16 in New)
  MaxBlocks,      \* bound: blocks besides genesis
  LastTime        \* bound: last block time

\* What the list of the contract has of a candidate.
Candidate == [NodeMaster : Masters, Endorsor : { Endorsor[m] : m \in Masters }, Active : BOOLEAN]

ASSUME ConsensusAssumption ==
  /\ CacheSize \in Nat \ {0} /\ MaxBlocks \in Nat /\ LastTime \in Nat
  /\ \A n \in 0..MaxBlocks : Hash[n] \in [1..LastTime -> Nat]
  /\ GenesisList \in Seq(Candidate)
  /\ \A i, j \in DOMAIN GenesisList : GenesisList[i].NodeMaster = GenesisList[j].NodeMaster => i = j
  /\ \A body \in Bodies : body.op = "add" => body.m \in Masters

VARIABLES
  blocks,      \* accepted or packed blocks, genesis first
  committed,   \* the blocks that commitBlock added to the repository
  cache,       \* candidatesCache, most recently used first
  heap         \* the candidates' lists the cached objects point to

consensusVars == <<blocks, committed, cache, heap>>

Ptrs == 1..CacheSize + 1

-----------------------------------------------------------------------------
(* poal.Candidates *)

\* Pick's scan: the first MaxBlockProposers positions with an endorsed candidate.
RePick(list, rich) ==
  { i \in DOMAIN list :
      /\ list[i].Endorsor \in rich
      /\ Cardinality({ j \in 1..i - 1 : list[j].Endorsor \in rich }) < MaxBlockProposers }

Pick(c, list, rich) == IF c.satisfied = {} THEN RePick(list, rich) ELSE c.satisfied

Proposers(list, satisfied) ==
  [ i \in satisfied |-> [Address |-> list[i].NodeMaster, Active |-> list[i].Active] ]

IsEndorsor(list, e) == \E i \in DOMAIN list : list[i].Endorsor = e

\* Mutant: the picked positions survive a change of balances.
InvalidateCache_Noop(c) == c

InvalidateCache(c) == [c EXCEPT !.satisfied = {}]

-----------------------------------------------------------------------------
(* candidatesCache: Get and Add move an entry to the front, and the last one *)
(* leaves a full cache.                                                      *)

Cached(id) == \E i \in DOMAIN cache : cache[i].id = id

Entry(id) == cache[CHOOSE i \in DOMAIN cache : cache[i].id = id]

\* A sequence without its element at i.
Without(seq, i) == [ j \in 1..Len(seq) - 1 |-> seq[IF j < i THEN j ELSE j + 1] ]

LruAdd(entries, id, c) ==
  LET old == { i \in DOMAIN entries : entries[i].id = id }
      rest == IF old = {} THEN entries ELSE Without(entries, CHOOSE i \in old : TRUE)
      n == IF Len(rest) < CacheSize THEN Len(rest) + 1 ELSE CacheSize
  IN  [ i \in 1..n |-> IF i = 1 THEN [id |-> id, c |-> c] ELSE rest[i - 1] ]

\* Lists nothing points to are collected.
Collect(h, entries) ==
  [ p \in Ptrs |-> IF \E i \in DOMAIN entries : entries[i].c.list = p THEN h[p] ELSE <<>> ]

FreePtr == CHOOSE p \in Ptrs : \A i \in DOMAIN cache : cache[i].c.list # p

\* Mutant: the shared list is not marked.
Copy_Unmarked(c) == c

\* Copy marks the cached object and its copy as sharing one list.
Copy(c) == [c EXCEPT !.referenced = TRUE]

NewCandidates(p) == [list |-> p, satisfied |-> {}, referenced |-> FALSE]

-----------------------------------------------------------------------------
(* The effect of a block on the state. *)

NumberOf(b) == blocks[b].Number

SchedulerOn(b, signer, list, satisfied) ==
  NewScheduler(signer, Proposers(list, satisfied), Hash[NumberOf(b)], blocks[b].Time)

\* Whether Updates returns the candidate at all, and its new flag.
Updated(s, t, m) ==
  \/ m \in toDeactivate(s, t)
  \/ m = s.proposer /\ \E i \in s.actives : s.proposers[i] = [Address |-> m, Active |-> FALSE]

Apply(s, t, list) ==
  [ i \in DOMAIN list |->
      IF Updated(s, t, list[i].NodeMaster)
      THEN [list[i] EXCEPT !.Active = (list[i].NodeMaster = s.proposer)]
      ELSE list[i] ]

\* authority.Update refuses the only entry of the list.
StateUpdate(s, t, list) == IF Len(list) > 1 THEN Apply(s, t, list) ELSE list

\* The positions of a node master in a list.
PositionsOf(list, m) == { i \in DOMAIN list : list[i].NodeMaster = m }

\* authority.Add and Revoke, on the list; Revoke refuses the only entry.
ListAfter(list, body, known) ==
  CASE body.op = "add" /\ body.m \notin known ->
         Append(list, [NodeMaster |-> body.m, Endorsor |-> Endorsor[body.m], Active |-> TRUE])
    [] body.op = "revoke" /\ Len(list) > 1 /\ PositionsOf(list, body.m) # {} ->
         Without(list, CHOOSE i \in PositionsOf(list, body.m) : TRUE)
    [] OTHER -> list

RichAfter(rich, body) ==
  CASE body.op = "transfer" -> IF body.enough THEN rich \cup {body.e} ELSE rich \ {body.e}
    [] body.op = "params" -> body.rich
    [] OTHER -> rich

\* The event the contract emits only if the list changed.
HasAuthorityEvent(list, body, known) == ListAfter(list, body, known) # list

MakeBlock(h, s, body) ==
  LET p == blocks[h.Parent]
      list == StateUpdate(s, h.Time, p.list)
  IN  [ Parent |-> h.Parent, Number |-> p.Number + 1, Time |-> h.Time, Signer |-> h.Signer,
        TotalScore |-> h.TotalScore, body |-> body,
        list  |-> ListAfter(list, body, p.known),
        known |-> IF body.op = "add" THEN p.known \cup {body.m} ELSE p.known,
        rich  |-> RichAfter(p.rich, body) ]

-----------------------------------------------------------------------------
(* consensus.validate *)

validateBlockHeader(h, now) ==
  /\ h.Time > blocks[h.Parent].Time
  /\ (h.Time - blocks[h.Parent].Time) % BlockInterval = 0
  /\ h.Time <= now + BlockInterval
  /\ h.TotalScore > blocks[h.Parent].TotalScore

\* The Candidates object validateProposer works on, its list, and the heap and
\* the cache after it was obtained: a copy of the cached object, or a new one
\* over the list of the contract.
Candidates(id) == IF Cached(id) THEN Copy(Entry(id).c) ELSE NewCandidates(FreePtr)

ListOf(id) == IF Cached(id) THEN heap[Entry(id).c.list] ELSE blocks[id].list

HeapWith(id) == [heap EXCEPT ![Candidates(id).list] = ListOf(id)]

CacheAfterGet(id) == IF Cached(id) THEN LruAdd(cache, id, Copy(Entry(id).c)) ELSE cache

\* The verdict of validateProposer over a list and a set of picked positions.
validateProposer(h, list, satisfied) ==
  LET s == SchedulerOn(h.Parent, h.Signer, list, satisfied)
  IN  /\ Listed(h.Signer, s.proposers)
      /\ IsTheTime(s, h.Time)
      /\ blocks[h.Parent].TotalScore + score(s, h.Time) = h.TotalScore

\* Candidates.Update, for all the updates of a block: a shared list is copied
\* before it is written.
CandidatesUpdate(c, s, t, h) ==
  LET list == h[c.list]
      p == IF c.referenced THEN FreePtr ELSE c.list
  IN  IF \E i \in DOMAIN list : Updated(s, t, list[i].NodeMaster)
      THEN [ c |-> [c EXCEPT !.list = p, !.referenced = FALSE],
             heap |-> [h EXCEPT ![p] = Apply(s, t, list)] ]
      ELSE [ c |-> c, heap |-> h ]

HasEndorsorEvent(list, body) ==
  \/ body.op = "params"
  \/ body.op = "transfer" /\ IsEndorsor(list, body.e)

\* What Process does once validateProposer accepted: validateBlockBody and
\* verifyBlock fail, or the block is accepted and its candidates are cached.
AcceptOrNot(h, s, body, done) ==
  LET parent == blocks[h.Parent]
      list == done.heap[done.c.list]
      new == MakeBlock(h, s, body)
      known == { b \in DOMAIN blocks : blocks[b] = new }
      newId == IF known = {} THEN Len(blocks) + 1 ELSE CHOOSE b \in known : TRUE
      c == IF HasEndorsorEvent(list, body) THEN InvalidateCache(done.c) ELSE done.c
  IN  /\ known \cap committed = {}
      /\ newId <= MaxBlocks + 1
      /\ \/ /\ cache' = CacheAfterGet(h.Parent)
            /\ UNCHANGED blocks
         \/ /\ cache' = IF HasAuthorityEvent(StateUpdate(s, h.Time, parent.list), body, parent.known)
                        THEN CacheAfterGet(h.Parent)
                        ELSE LruAdd(CacheAfterGet(h.Parent), newId, c)
            /\ blocks' = IF known = {} THEN Append(blocks, new) ELSE blocks
      /\ heap' = Collect(done.heap, cache')

\* Process, for a header that is neither known nor an orphan.
Process(h, now) ==
  LET id == h.Parent
      list == ListOf(id)
      satisfied == Pick(Candidates(id), list, blocks[id].rich)
      s == SchedulerOn(id, h.Signer, list, satisfied)
      picked == [Candidates(id) EXCEPT !.satisfied = satisfied]
  IN  /\ h.TxsFeatures = (NumberOf(id) + 1 >= VIP191)
      /\ validateBlockHeader(h, now)
      /\ IF validateProposer(h, list, satisfied)
         THEN \E body \in Bodies :
                AcceptOrNot(h, s, body, CandidatesUpdate(picked, s, h.Time, HeapWith(id)))
         ELSE cache' = CacheAfterGet(id) /\ UNCHANGED <<blocks, heap>>
      /\ UNCHANGED committed

\* commitBlock, as far as Process can tell: the block is found from now on.
Commit(b) ==
  /\ b \notin committed
  /\ committed' = committed \cup {b}
  /\ UNCHANGED <<blocks, cache, heap>>

\* The scheduler of Packer.Schedule: authority.Candidates picks from the state.
PackerScheduler(id, m) ==
  SchedulerOn(id, m, blocks[id].list, RePick(blocks[id].list, blocks[id].rich))

\* The times Packer.Schedule may return on a block, whatever the clock says.
ScheduledTimes(id, m) ==
  LET s == PackerScheduler(id, m)
  IN  { t \in 1..LastTime : Listed(m, s.proposers) /\ \E now \in 0..LastTime : Schedule(s, now, t) }

\* Packer.Schedule, Flow.Pack and the commit: the node's own block is stored
\* without passing Process.
Pack(id, m, t, body) ==
  LET s == PackerScheduler(id, m)
      h == [ Parent |-> id, Signer |-> m, Time |-> t,
             TotalScore |-> blocks[id].TotalScore + score(s, t) ]
      new == MakeBlock(h, s, body)
  IN  /\ Len(blocks) <= MaxBlocks
      /\ t \in ScheduledTimes(id, m)
      /\ \A b \in DOMAIN blocks : blocks[b] # new
      /\ blocks' = Append(blocks, new)
      /\ committed' = committed \cup {Len(blocks) + 1}
      /\ UNCHANGED <<cache, heap>>

ConsensusInit ==
  /\ blocks = << [ Parent |-> 0, Number |-> 0, Time |-> 0, Signer |-> "none", TotalScore |-> 0,
                   body |-> [op |-> "none"], list |-> GenesisList,
                   known |-> { GenesisList[i].NodeMaster : i \in DOMAIN GenesisList },
                   rich |-> { Endorsor[m] : m \in Masters } ] >>
  /\ committed = {1}
  /\ cache = <<>>
  /\ heap = [p \in Ptrs |-> <<>>]

ConsensusNext ==
  \/ \E id \in committed, m \in Masters, t \in 1..LastTime, k \in 1..Cardinality(Masters), f \in BOOLEAN :
       Process([Parent |-> id, Signer |-> m, Time |-> t, TotalScore |-> blocks[id].TotalScore + k,
                TxsFeatures |-> f], LastTime)
  \/ \E b \in DOMAIN blocks : Commit(b)
  \/ \E id \in committed, m \in Masters, t \in 1..LastTime, body \in Bodies : Pack(id, m, t, body)

ConsensusSpec == ConsensusInit /\ [][ConsensusNext]_consensusVars

-----------------------------------------------------------------------------
ConsensusTypeOK ==
  /\ \A b \in DOMAIN blocks : /\ blocks[b].Parent \in 0..b - 1
                             /\ blocks[b].TotalScore \in Nat
                             /\ \A i, j \in DOMAIN blocks[b].list :
                                  blocks[b].list[i].NodeMaster = blocks[b].list[j].NodeMaster => i = j
  /\ committed \subseteq DOMAIN blocks
  /\ Len(cache) <= CacheSize
  /\ \A i \in DOMAIN cache : cache[i].id \in DOMAIN blocks /\ cache[i].c.list \in Ptrs

\* Two lists schedule alike: the flag of the only candidate is never looked at.
Alike(l1, l2) ==
  \/ l1 = l2
  \/ /\ Len(l1) = 1 /\ Len(l2) = 1
     /\ l1[1].NodeMaster = l2[1].NodeMaster /\ l1[1].Endorsor = l2[1].Endorsor

\* A cached object holds the candidates of the block it is filed under and, once
\* picked, the positions a fresh Pick on that block's state would choose: whatever
\* blocks were processed in between, accepted or not, and whoever shared its list.
\* And the state keeps its type.
CacheCoherent ==
  /\ ConsensusTypeOK
  /\ \A i \in DOMAIN cache :
       LET b == blocks[cache[i].id]
           c == cache[i].c
       IN  /\ Alike(heap[c.list], b.list)
           /\ c.satisfied # {} => c.satisfied = RePick(b.list, b.rich)

\* Whoever is scheduled on a stored block by Packer.Schedule, which reads the
\* contract, builds a header that validation, which reads the cache, accepts.
PackedIsValid ==
  \A id \in committed, m \in Masters : \A t \in ScheduledTimes(id, m) :
    LET s == PackerScheduler(id, m)
        h == [ Parent |-> id, Signer |-> m, Time |-> t,
               TotalScore |-> blocks[id].TotalScore + score(s, t) ]
        satisfied == Pick(Candidates(id), ListOf(id), blocks[id].rich)
    IN  validateBlockHeader(h, t) /\ validateProposer(h, ListOf(id), satisfied)
=============================================================================
