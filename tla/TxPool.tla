------------------------------- MODULE TxPool -------------------------------
(***************************************************************************)
(* The transaction pool (txpool/tx_pool.go, tx_object_map.go, tx_object.go *)
(* and blocklist.go): callers of add, the packer that removes what it      *)
(* packed, Fill from the stash, and the housekeeping goroutine that washes *)
(* the pool.  Every access under the map's lock is one step.               *)
(*                                                                         *)
(* What txObject.Executable answers on the best block is `verdict`: the    *)
(* transaction may be executable, may become so (pending), or is refused   *)
(* (bad).  Objects are numbered as they are made, because a transaction    *)
(* that left the pool and came back is another object.                     *)
(***************************************************************************)
EXTENDS Naturals, Sequences, FiniteSets

CONSTANTS
  Txs,              \* transactions, by hash
  Ids, Id,          \* transaction ids: two signatures of one body share one
  Origins, Origin,
  Price,            \* overall gas price
  Callers,          \* goroutines that call add
  Methods,          \* the ways they do: Add, AddLocal, StrictlyAdd
  Limit, LimitPerAccount,
  SmallPool,        \* below this length an added transaction triggers a wash (200)
  Verdicts,         \* what the chain may say of the transactions, best block by best block
  MaxObjs,          \* bound: objects made
  MaxEvents         \* bound: new best blocks, fetched lists, fills and failed washes

ASSUME TxPoolAssumption ==
  /\ IsFiniteSet(Txs)
  /\ Id \in [Txs -> Ids] /\ Origin \in [Txs -> Origins] /\ Price \in [Txs -> Nat]
  /\ Limit \in Nat /\ LimitPerAccount \in Nat /\ SmallPool \in Nat
  /\ Verdicts \subseteq [Txs -> {"executable", "pending", "bad"}]
  /\ {MaxObjs, MaxEvents} \subseteq Nat

VARIABLES
  obj,                           \* the objects made: [tx, local, executable]
  mapByHash, mapByID, quota,     \* the txObjectMap; 0 is no object
  executables,                   \* the objects of the last successful wash
  addedAfterWash,                \* whether the counter is above zero
  verdict, head, synced,         \* the best block: what it says, its number, whether it is recent
  blocked,                       \* origins on the blocklist
  pc, mine, executable, onHead,  \* a caller: where it is, its object, the answer, whether it asked
  wash,                          \* housekeeping
  announced,                     \* objects for which a goroutine sends an "executable" event
  fetches, fills, errors

map  == <<mapByHash, mapByID, quota>>
best == <<verdict, head, synced>>
call == <<pc, mine, executable, onHead>>
used == <<fetches, fills, errors>>
vars == <<obj, map, executables, addedAfterWash, best, blocked, call, wash, announced, used>>

Events == head + fetches + fills + errors

-----------------------------------------------------------------------------
(* txObjectMap *)

Pooled == { t \in Txs : mapByHash[t] # 0 }

PoolLen == Cardinality(Pooled)

InsertObj(o, t) ==
  /\ mapByHash' = [mapByHash EXCEPT ![t] = o]
  /\ mapByID' = [mapByID EXCEPT ![Id[t]] = o]
  /\ quota' = [quota EXCEPT ![Origin[t]] = @ + 1]

\* Mutant: the quota is not given back.
RemoveByHash_KeepsQuota(t) ==
  /\ mapByHash' = [mapByHash EXCEPT ![t] = 0]
  /\ mapByID' = [mapByID EXCEPT ![Id[t]] = 0]
  /\ UNCHANGED quota

\* Mutant: the index by id is forgotten.
RemoveByHash_KeepsId(t) ==
  /\ mapByHash' = [mapByHash EXCEPT ![t] = 0]
  /\ quota' = [quota EXCEPT ![Origin[t]] = IF @ > 1 THEN @ - 1 ELSE 0]
  /\ UNCHANGED mapByID

\* Of a pooled transaction; the entry of a quota that would become 0 is deleted.
RemoveByHash(t) ==
  /\ mapByHash' = [mapByHash EXCEPT ![t] = 0]
  /\ mapByID' = [mapByID EXCEPT ![Id[t]] = 0]
  /\ quota' = [quota EXCEPT ![Origin[t]] = IF @ > 1 THEN @ - 1 ELSE 0]

-----------------------------------------------------------------------------
idleWash == [phase |-> "idle", head |-> 0, verdict |-> [t \in Txs |-> "bad"],
             all |-> {}, toRemove |-> {}, offer |-> {}, failed |-> FALSE]

Init ==
  /\ obj = <<>>
  /\ mapByHash = [t \in Txs |-> 0] /\ mapByID = [i \in Ids |-> 0] /\ quota = [o \in Origins |-> 0]
  /\ executables = {} /\ addedAfterWash = FALSE
  /\ verdict \in Verdicts /\ head = 0 /\ synced \in BOOLEAN
  /\ blocked = {}
  /\ pc = [c \in Callers |-> "idle"] /\ mine = [c \in Callers |-> 0]
  /\ executable = [c \in Callers |-> FALSE] /\ onHead = [c \in Callers |-> FALSE]
  /\ wash = idleWash
  /\ announced = {}
  /\ fetches = 0 /\ fills = 0 /\ errors = 0

-----------------------------------------------------------------------------
(* add *)

\* Everything before the map is locked: a known or blocked transaction, one that
\* the chain refuses, one that is not executable when that is asked for, and,
\* before the chain is synced, any when the pool is full, goes no further.
AddCheck(c, t, method) ==
  /\ pc[c] = "idle" /\ Len(obj) < MaxObjs
  /\ t \notin Pooled
  /\ Origin[t] \notin blocked
  /\ IF synced
     THEN verdict[t] # "bad" /\ (method = "StrictlyAdd" => verdict[t] = "executable")
     ELSE PoolLen < Limit
  /\ obj' = Append(obj, [tx |-> t, local |-> method = "AddLocal", executable |-> FALSE])
  /\ pc' = [pc EXCEPT ![c] = "checked"]
  /\ mine' = [mine EXCEPT ![c] = Len(obj')]
  /\ executable' = [executable EXCEPT ![c] = synced /\ verdict[t] = "executable"]
  /\ onHead' = [onHead EXCEPT ![c] = synced]
  /\ UNCHANGED <<map, executables, addedAfterWash, best, blocked, wash, announced, used>>

\* Mutant: the limit per account is not looked at.
AddToMap_NoQuota(c) ==
  LET t == obj[mine[c]].tx
  IN  /\ pc[c] = "checked"
      /\ pc' = [pc EXCEPT ![c] = "added"]
      /\ IF t \in Pooled THEN UNCHANGED map ELSE InsertObj(mine[c], t)
      /\ UNCHANGED <<obj, mine, executable, onHead, executables, addedAfterWash, best, blocked, wash, announced, used>>

\* txObjectMap.Add: another caller may have added the transaction meanwhile.
AddToMap(c) ==
  LET t == obj[mine[c]].tx
  IN  /\ pc[c] = "checked"
      /\ \/ /\ t \in Pooled
            /\ pc' = [pc EXCEPT ![c] = "added"]
            /\ UNCHANGED <<map, mine, executable, onHead>>
         \/ /\ t \notin Pooled /\ quota[Origin[t]] >= LimitPerAccount
            /\ pc' = [pc EXCEPT ![c] = "idle"]
            /\ mine' = [mine EXCEPT ![c] = 0]
            /\ executable' = [executable EXCEPT ![c] = FALSE]
            /\ onHead' = [onHead EXCEPT ![c] = FALSE]
            /\ UNCHANGED map
         \/ /\ t \notin Pooled /\ quota[Origin[t]] < LimitPerAccount
            /\ InsertObj(mine[c], t)
            /\ pc' = [pc EXCEPT ![c] = "added"]
            /\ UNCHANGED <<mine, executable, onHead>>
      /\ UNCHANGED <<obj, executables, addedAfterWash, best, blocked, wash, announced, used>>

\* txObj.executable is written without the lock, then the event goes out.
AddFlag(c) ==
  /\ pc[c] = "added"
  /\ pc' = [pc EXCEPT ![c] = "flagged"]
  /\ IF onHead[c]
     THEN /\ obj' = [obj EXCEPT ![mine[c]].executable = executable[c]]
          /\ announced' = IF executable[c] THEN announced \cup {mine[c]} ELSE announced
     ELSE UNCHANGED <<obj, announced>>
  /\ UNCHANGED <<map, mine, executable, onHead, executables, addedAfterWash, best, blocked, wash, used>>

AddCount(c) ==
  /\ pc[c] = "flagged"
  /\ pc' = [pc EXCEPT ![c] = "idle"]
  /\ mine' = [mine EXCEPT ![c] = 0]
  /\ executable' = [executable EXCEPT ![c] = FALSE]
  /\ onHead' = [onHead EXCEPT ![c] = FALSE]
  /\ addedAfterWash' = TRUE
  /\ UNCHANGED <<obj, map, executables, best, blocked, wash, announced, used>>

-----------------------------------------------------------------------------
(* Remove, Fill, and what the pool does not decide. *)

Remove(t) ==
  /\ t \in Pooled
  /\ RemoveByHash(t)
  /\ UNCHANGED <<obj, executables, addedAfterWash, best, blocked, call, wash, announced, used>>

\* Positions of the transactions Fill puts in: of origins that are not blocked,
\* and not pooled.
New(txs) == { i \in DOMAIN txs : Origin[txs[i]] \notin blocked /\ txs[i] \notin Pooled }

Fresh(txs) == { txs[i] : i \in New(txs) }

Position(txs, t) == CHOOSE i \in New(txs) : txs[i] = t

\* The last of an id stays in the index.
OfId(txs, d) == { i \in New(txs) : Id[txs[i]] = d }

LastOfId(txs, d) == CHOOSE i \in OfId(txs, d) : \A j \in OfId(txs, d) : j <= i

\* Fill from the stash, under one lock; the limit per account is not checked.
Fill(txs) ==
  /\ Events < MaxEvents /\ Len(obj) + Len(txs) <= MaxObjs
  /\ fills' = fills + 1
  /\ obj' = obj \o [i \in DOMAIN txs |-> [tx |-> txs[i], local |-> FALSE, executable |-> FALSE]]
  /\ mapByHash' = [t \in Txs |-> IF t \in Fresh(txs) THEN Len(obj) + Position(txs, t) ELSE mapByHash[t]]
  /\ mapByID' = [d \in Ids |-> IF OfId(txs, d) = {} THEN mapByID[d] ELSE Len(obj) + LastOfId(txs, d)]
  /\ quota' = [a \in Origins |-> quota[a] + Cardinality({ t \in Fresh(txs) : Origin[t] = a })]
  /\ UNCHANGED <<executables, addedAfterWash, best, blocked, call, wash, announced, fetches, errors>>

\* The repository has another best block, recent or not.
NewHead ==
  /\ Events < MaxEvents
  /\ head' = head + 1
  /\ verdict' \in Verdicts
  /\ synced' \in BOOLEAN
  /\ UNCHANGED <<obj, map, executables, addedAfterWash, blocked, call, wash, announced, used>>

\* Six block intervals pass without a new best block.
Stall ==
  /\ synced
  /\ synced' = FALSE
  /\ UNCHANGED <<obj, map, executables, addedAfterWash, verdict, head, blocked, call, wash, announced, used>>

\* blocklist.Fetch and Load replace the list.
Fetch(list) ==
  /\ Events < MaxEvents
  /\ fetches' = fetches + 1
  /\ blocked' = list
  /\ UNCHANGED <<obj, map, executables, addedAfterWash, best, call, wash, announced, fills, errors>>

-----------------------------------------------------------------------------
(* housekeeping *)

\* Mutant: washing does not depend on what was added.
Tick_HeadOnly ==
  /\ wash.phase = "idle"
  /\ IF synced /\ (head # wash.head \/ PoolLen > Limit)
     THEN /\ wash' = [wash EXCEPT !.head = head, !.verdict = verdict, !.phase = "washing"]
          /\ addedAfterWash' = FALSE
     ELSE /\ wash' = [wash EXCEPT !.head = head]
          /\ UNCHANGED addedAfterWash
  /\ UNCHANGED <<obj, map, executables, best, blocked, call, announced, used>>

Tick ==
  /\ wash.phase = "idle"
  /\ IF synced /\ \/ head # wash.head
                  \/ PoolLen > Limit
                  \/ PoolLen < SmallPool /\ addedAfterWash
     THEN /\ wash' = [wash EXCEPT !.head = head, !.verdict = verdict, !.phase = "washing"]
          /\ addedAfterWash' = FALSE
     ELSE /\ wash' = [wash EXCEPT !.head = head]
          /\ UNCHANGED addedAfterWash
  /\ UNCHANGED <<obj, map, executables, best, blocked, call, announced, used>>

least(m, n) == IF m < n THEN m ELSE n

\* The most expensive executables within the limit, ties either way.
Cut(objs) ==
  { S \in SUBSET objs :
      /\ Cardinality(S) = least(Cardinality(objs), Limit)
      /\ \A o \in S, p \in objs \ S : Price[obj[o].tx] >= Price[obj[p].tx] }

\* Mutant: the limit holds for executables and for the others separately.
Rest_OwnLimit(objs, kept) == { S \in SUBSET objs : Cardinality(S) = least(Cardinality(objs), Limit) }

\* As many of the others as still fit, in the order of a Go map.
Rest(objs, kept) ==
  { S \in SUBSET objs : Cardinality(S) = least(Cardinality(objs), Limit - Cardinality(kept)) }

\* wash on a copy of the map's objects.  Any object that is not local may be out
\* of its lifetime.
Wash ==
  LET all   == { mapByHash[t] : t \in Pooled }
      of(v) == { o \in all : wash.verdict[obj[o].tx] = v }
      local == { o \in all : obj[o].local }
      out   == { o \in all : Origin[obj[o].tx] \in blocked }
  IN  /\ wash.phase = "washing"
      /\ \/ \E expired \in SUBSET (all \ local) :
              LET gone == out \cup expired \cup of("bad")
                  runs == of("executable") \ gone
                  rest == of("pending") \ gone
              IN  \E keep \in Cut(runs \ local) : \E others \in Rest(rest \ local, keep) :
                    wash' = [wash EXCEPT !.phase = "offering", !.all = all,
                               !.offer = keep \cup (runs \cap local),
                               !.toRemove = all \ (keep \cup others \cup ((runs \cup rest) \cap local))]
         \/ /\ Events < MaxEvents
            /\ \E cut \in SUBSET all :
                 /\ Cardinality(all \ cut) = least(Cardinality(all), Limit)
                 /\ wash' = [wash EXCEPT !.phase = "removing", !.all = all, !.toRemove = cut, !.failed = TRUE]
      /\ errors' = IF wash'.failed THEN errors + 1 ELSE errors
      /\ UNCHANGED <<obj, map, executables, addedAfterWash, best, blocked, call, announced, fetches, fills>>

\* Mutant: only local transactions are announced by the wash.
Offer_LocalOnly ==
  LET toBroadcast == { o \in wash.offer : obj[o].local }
  IN  /\ wash.phase = "offering"
      /\ wash' = [wash EXCEPT !.phase = "removing"]
      /\ obj' = [o \in DOMAIN obj |-> [obj[o] EXCEPT !.executable = @ \/ o \in toBroadcast]]
      /\ announced' = announced \cup toBroadcast
      /\ UNCHANGED <<map, executables, addedAfterWash, best, blocked, call, used>>

\* The transactions that became executable, and all local ones, are announced.
Offer ==
  LET toBroadcast == { o \in wash.offer : ~obj[o].executable \/ obj[o].local }
  IN  /\ wash.phase = "offering"
      /\ wash' = [wash EXCEPT !.phase = "removing"]
      /\ obj' = [o \in DOMAIN obj |-> [obj[o] EXCEPT !.executable = @ \/ o \in toBroadcast]]
      /\ announced' = announced \cup toBroadcast
      /\ UNCHANGED <<map, executables, addedAfterWash, best, blocked, call, used>>

\* The deferred removals, one lock at a time, by hash.
WashOut(o) ==
  /\ wash.phase = "removing" /\ o \in wash.toRemove
  /\ wash' = [wash EXCEPT !.toRemove = @ \ {o}]
  /\ IF obj[o].tx \in Pooled THEN RemoveByHash(obj[o].tx) ELSE UNCHANGED map
  /\ UNCHANGED <<obj, executables, addedAfterWash, best, blocked, call, announced, used>>

Store ==
  /\ wash.phase = "removing" /\ wash.toRemove = {}
  /\ executables' = IF wash.failed THEN executables ELSE wash.offer
  /\ wash' = [idleWash EXCEPT !.head = wash.head]
  /\ UNCHANGED <<obj, map, addedAfterWash, best, blocked, call, announced, used>>

-----------------------------------------------------------------------------
\* Bound: how many transactions the stash holds.
FillLens == 1..2

Next ==
  \/ \E c \in Callers :
       \/ \E t \in Txs, method \in Methods : AddCheck(c, t, method)
       \/ AddToMap(c) \/ AddFlag(c) \/ AddCount(c)
  \/ \E t \in Txs : Remove(t)
  \/ \E n \in FillLens : \E txs \in [1..n -> Txs] :
       (\A i, j \in 1..n : txs[i] = txs[j] => i = j) /\ Fill(txs)
  \/ NewHead \/ Stall
  \/ \E list \in SUBSET Origins : Fetch(list)
  \/ Tick \/ Wash \/ Offer \/ Store
  \/ \E o \in wash.toRemove : WashOut(o)

Spec == Init /\ [][Next]_vars

\* Callers go on, and the ticker of housekeeping goes on.
Fairness ==
  /\ \A c \in Callers : WF_vars(AddToMap(c) \/ AddFlag(c) \/ AddCount(c))
  /\ WF_vars(Tick \/ Wash \/ Offer \/ Store \/ \E o \in wash.toRemove : WashOut(o))

FairSpec == Spec /\ Fairness

-----------------------------------------------------------------------------
TypeOK ==
  /\ \A o \in DOMAIN obj : obj[o] \in [tx : Txs, local : BOOLEAN, executable : BOOLEAN]
  /\ mapByHash \in [Txs -> 0..Len(obj)] /\ mapByID \in [Ids -> 0..Len(obj)]
  /\ quota \in [Origins -> Nat]
  /\ executables \cup announced \subseteq DOMAIN obj
  /\ wash.all \cup wash.toRemove \cup wash.offer \subseteq DOMAIN obj

InPool(a) == Cardinality({ t \in Pooled : Origin[t] = a })

\* The quota of an account is the number of its pooled transactions, whoever
\* adds, fills, removes and washes at the same time, also when a transaction is
\* removed twice or added again in between.
QuotaExact ==
  \A a \in Origins : quota[a] = InPool(a)

\* Nothing but Fill, which skips the check, takes an account above LimitPerAccount,
\* however many callers add at once.
AccountLimited ==
  [][fills' = fills => \A a \in Origins : InPool(a)' > LimitPerAccount => InPool(a)' <= InPool(a)]_vars

\* Get never returns an object that has left the pool.
IdIndexSound ==
  \A d \in Ids : mapByID[d] # 0 =>
    Id[obj[mapByID[d]].tx] = d /\ mapByHash[obj[mapByID[d]].tx] = mapByID[d]

\* When a wash is through, no more than Limit of the remote objects it looked at
\* are left in the pool, although others add and remove meanwhile; a failed wash
\* leaves no more than Limit of all.  And the state keeps its type.
WashKeepsLimit ==
  LET left == { o \in wash.all : mapByHash[obj[o].tx] = o }
  IN  /\ TypeOK
      /\ wash.phase = "removing" /\ wash.toRemove = {} =>
           Cardinality({ o \in left : wash.failed \/ ~obj[o].local }) <= Limit

\* Whatever the pool offers to the packer was announced as executable to the
\* subscribers, who pass it on to the peers: by add or by a wash, although both
\* write the flag that is meant to avoid a second announcement.
OfferedIsAnnounced == executables \subseteq announced

Lasting(t) == synced /\ verdict[t] = "executable" /\ Origin[t] \notin blocked

\* In a small pool no addition is missed between the counter and the wash: when a
\* transaction stays executable it is offered to the packer or leaves the pool.  (Fill
\* leaves the counter alone, and a failed wash waits for another addition or block.)
OfferedEventually ==
  \A t \in Txs : <>[](Lasting(t) /\ fills + errors = 0) =>
    []<>(t \notin Pooled \/ \E o \in executables : obj[o].tx = t)
=============================================================================
