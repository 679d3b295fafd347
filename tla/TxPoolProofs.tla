---------------------------- MODULE TxPoolProofs ----------------------------
(***************************************************************************)
(* For any transactions, accounts, callers and limits: the quota the pool  *)
(* keeps for an account is the number of its pooled transactions, the      *)
(* index by id only holds pooled objects, a wash keeps what it looked at   *)
(* within the limit, what is offered was announced, and callers together   *)
(* do not take an account above its limit.                                 *)
(***************************************************************************)
EXTENDS TxPool, FiniteSetTheorems, TLAPS

Object == [tx : Txs, local : BOOLEAN, executable : BOOLEAN]

Answers == [Txs -> {"executable", "pending", "bad"}]

NatSets == SUBSET Nat

Washing ==
  [ phase : {"idle", "washing", "offering", "removing"}, head : Nat,
    verdict : Answers, all : NatSets, toRemove : NatSets, offer : NatSets, failed : BOOLEAN ]

MapTyped ==
  /\ Len(obj) \in Nat
  /\ mapByHash \in [Txs -> 0..Len(obj)]
  /\ mapByID \in [Ids -> 0..Len(obj)]
  /\ quota \in [Origins -> Nat]

Typed ==
  /\ obj \in Seq(Object)
  /\ verdict \in Answers /\ head \in Nat
  /\ pc \in [Callers -> {"idle", "checked", "added", "flagged"}] /\ mine \in [Callers -> Nat]
  /\ executable \in [Callers -> BOOLEAN]
  /\ wash \in Washing

\* The objects callers and housekeeping hold exist.
Held ==
  /\ \A c \in Callers : pc[c] # "idle" => mine[c] \in 1..Len(obj)
  /\ wash.toRemove \subseteq 1..Len(obj)

\* A pooled object is filed under its own transaction.
Filed == \A t \in Pooled : obj[mapByHash[t]].tx = t

MapInv == MapTyped /\ Filed /\ QuotaExact /\ IdIndexSound

IInv == Typed /\ Held /\ MapInv

-----------------------------------------------------------------------------
(* Counting the transactions of an account. *)

Of(S, a) == { t \in S : Origin[t] = a }

\* An account has finitely many transactions.
LEMMA OfFinite ==
  ASSUME NEW S \in SUBSET Txs, NEW a
  PROVE  IsFiniteSet(Of(S, a)) /\ Cardinality(Of(S, a)) \in Nat
  <1>1. Of(S, a) \subseteq Txs
    BY DEF Of
  <1>2. IsFiniteSet(Of(S, a))
    BY <1>1, TxPoolAssumption, FS_Subset
  <1>3. QED
    BY <1>2, FS_CardinalityType

\* A new transaction counts one for its origin.
LEMMA OfInsert ==
  ASSUME NEW S \in SUBSET Txs, NEW t \in Txs \ S, NEW a
  PROVE  Cardinality(Of(S \cup {t}, a)) = Cardinality(Of(S, a)) + (IF Origin[t] = a THEN 1 ELSE 0)
  <1>1. IsFiniteSet(Of(S, a)) /\ Cardinality(Of(S, a)) \in Nat
    BY OfFinite
  <1>2. CASE Origin[t] = a
    <2>1. Of(S \cup {t}, a) = Of(S, a) \cup {t} /\ t \notin Of(S, a)
      BY <1>2 DEF Of
    <2>2. QED
      BY <1>1, <1>2, <2>1, FS_AddElement, ZenonT(60)
  <1>3. CASE Origin[t] # a
    <2>1. Of(S \cup {t}, a) = Of(S, a)
      BY <1>3 DEF Of
    <2>2. QED
      BY <1>1, <1>3, <2>1
  <1>4. QED
    BY <1>2, <1>3

\* A removed transaction counts one less for its origin.
LEMMA OfRemove ==
  ASSUME NEW S \in SUBSET Txs, NEW t \in S, NEW a
  PROVE  Cardinality(Of(S, a)) = Cardinality(Of(S \ {t}, a)) + (IF Origin[t] = a THEN 1 ELSE 0)
  <1>1. S \ {t} \in SUBSET Txs /\ t \in Txs \ (S \ {t}) /\ (S \ {t}) \cup {t} = S
    OBVIOUS
  <1>2. QED
    BY <1>1, OfInsert

\* Disjoint sets of transactions add up.
LEMMA OfUnion ==
  ASSUME NEW S \in SUBSET Txs, NEW F \in SUBSET Txs, S \cap F = {}, NEW a
  PROVE  Cardinality(Of(S \cup F, a)) = Cardinality(Of(S, a)) + Cardinality(Of(F, a))
  <1>1. /\ IsFiniteSet(Of(S, a)) /\ Cardinality(Of(S, a)) \in Nat
        /\ IsFiniteSet(Of(F, a)) /\ Cardinality(Of(F, a)) \in Nat
    BY OfFinite
  <1>2. Of(S \cup F, a) = Of(S, a) \cup Of(F, a) /\ Of(S, a) \cap Of(F, a) = {}
    BY DEF Of
  <1>3. Cardinality(Of(S, a) \cup Of(F, a))
          = Cardinality(Of(S, a)) + Cardinality(Of(F, a)) - Cardinality(Of(S, a) \cap Of(F, a))
    BY <1>1, FS_Union
  <1>4. Cardinality(Of(S, a) \cap Of(F, a)) = 0
    BY <1>2, FS_EmptySet
  <1>5. Cardinality(Of(S \cup F, a)) = Cardinality(Of(S, a) \cup Of(F, a))
    BY <1>2
  <1>6. QED
    BY <1>1, <1>3, <1>4, <1>5

-----------------------------------------------------------------------------
(* The three ways the map changes. *)

\* Entering an object into the map keeps the quota exact and adds its transaction.
LEMMA Inserted ==
  ASSUME MapTyped, QuotaExact, NEW t \in Txs \ Pooled, NEW o \in 1..Len(obj), InsertObj(o, t)
  PROVE  /\ QuotaExact' /\ quota' \in [Origins -> Nat]
         /\ mapByHash' \in [Txs -> 0..Len(obj)] /\ mapByID' \in [Ids -> 0..Len(obj)]
         /\ Pooled' = Pooled \cup {t}
  <1>0. Len(obj) \in Nat /\ t \in Txs /\ Id[t] \in Ids /\ Origin[t] \in Origins
    BY TxPoolAssumption DEF MapTyped
  <1>1. Pooled' = Pooled \cup {t}
    BY <1>0 DEF Pooled, InsertObj, MapTyped
  <1>2. mapByHash' \in [Txs -> 0..Len(obj)] /\ mapByID' \in [Ids -> 0..Len(obj)]
    BY <1>0 DEF InsertObj, MapTyped
  <1>3. quota' \in [Origins -> Nat]
    BY <1>0 DEF InsertObj, MapTyped
  <1>4. ASSUME NEW a \in Origins PROVE quota'[a] = InPool(a)'
    <2>1. InPool(a)' = Cardinality(Of(Pooled \cup {t}, a)) /\ InPool(a) = Cardinality(Of(Pooled, a))
      BY <1>1 DEF InPool, Of
    <2>2. Pooled \in SUBSET Txs
      BY DEF Pooled
    <2>3. InPool(a)' = InPool(a) + (IF Origin[t] = a THEN 1 ELSE 0)
      BY <2>1, <2>2, OfInsert
    <2>4. quota[a] = InPool(a)
      BY DEF QuotaExact
    <2>5. quota'[a] = quota[a] + (IF Origin[t] = a THEN 1 ELSE 0)
      BY <1>0 DEF InsertObj, MapTyped
    <2>6. QED
      BY <2>3, <2>4, <2>5
  <1>5. QED
    BY <1>1, <1>2, <1>3, <1>4 DEF QuotaExact

\* RemoveByHash keeps the quota exact and removes one transaction.
LEMMA Removed ==
  ASSUME MapTyped, QuotaExact, NEW t \in Pooled, RemoveByHash(t)
  PROVE  /\ QuotaExact' /\ quota' \in [Origins -> Nat]
         /\ mapByHash' \in [Txs -> 0..Len(obj)] /\ mapByID' \in [Ids -> 0..Len(obj)]
         /\ Pooled' = Pooled \ {t}
  <1>0. Len(obj) \in Nat /\ t \in Txs /\ Id[t] \in Ids /\ Origin[t] \in Origins
    BY TxPoolAssumption DEF MapTyped, Pooled
  <1>1. Pooled' = Pooled \ {t}
    BY <1>0 DEF Pooled, RemoveByHash, MapTyped
  <1>2. mapByHash' \in [Txs -> 0..Len(obj)] /\ mapByID' \in [Ids -> 0..Len(obj)]
    BY <1>0 DEF RemoveByHash, MapTyped
  <1>3. quota' \in [Origins -> Nat]
    BY <1>0 DEF RemoveByHash, MapTyped
  <1>4. ASSUME NEW a \in Origins PROVE quota'[a] = InPool(a)'
    <2>1. InPool(a)' = Cardinality(Of(Pooled \ {t}, a)) /\ InPool(a) = Cardinality(Of(Pooled, a))
      BY <1>1 DEF InPool, Of
    <2>2. Pooled \in SUBSET Txs
      BY DEF Pooled
    <2>3. InPool(a) = InPool(a)' + (IF Origin[t] = a THEN 1 ELSE 0)
      BY <2>1, <2>2, OfRemove
    <2>4. Cardinality(Of(Pooled \ {t}, a)) \in Nat
      BY <2>2, OfFinite
    <2>5. quota[a] = InPool(a)
      BY DEF QuotaExact
    <2>6. quota'[a] = IF Origin[t] = a THEN (IF quota[a] > 1 THEN quota[a] - 1 ELSE 0) ELSE quota[a]
      BY <1>0 DEF RemoveByHash, MapTyped
    <2>7. QED
      BY <2>1, <2>3, <2>4, <2>5, <2>6
  <1>5. QED
    BY <1>1, <1>2, <1>3, <1>4 DEF QuotaExact

\* The objects made before stay what they are.
Grown ==
  /\ Len(obj') \in Nat /\ Len(obj) <= Len(obj')
  /\ \A o \in 1..Len(obj) : obj'[o].tx = obj[o].tx

\* A new object leaves the others as they were.
LEMMA ObjectAppended ==
  ASSUME NEW s \in Seq(Object), NEW new \in Object
  PROVE  /\ Append(s, new) \in Seq(Object)
         /\ Len(Append(s, new)) = Len(s) + 1 /\ Len(Append(s, new)) \in Nat /\ Len(s) <= Len(Append(s, new))
         /\ \A o \in 1..Len(s) : Append(s, new)[o].tx = s[o].tx
  OBVIOUS

\* Objects have their type.
LEMMA ObjectAt ==
  ASSUME NEW s \in Seq(Object), NEW o \in 1..Len(s)
  PROVE  s[o] \in Object
  OBVIOUS

\* Objects added together leave the others as they were.
LEMMA ObjectsJoined ==
  ASSUME NEW s \in Seq(Object), NEW t \in Seq(Object)
  PROVE  /\ Len(s \o t) = Len(s) + Len(t)
         /\ \A o \in 1..Len(s) : (s \o t)[o] = s[o]
  OBVIOUS

\* New objects that are not entered leave the map's invariant.
LEMMA KeepMap ==
  ASSUME MapInv, UNCHANGED map, Grown
  PROVE  MapInv'
  <1>1. MapTyped'
    BY DEF MapInv, MapTyped, map, Grown
  <1>2. Filed'
    BY DEF MapInv, MapTyped, Filed, Pooled, map, Grown
  <1>3. QuotaExact'
    BY DEF MapInv, QuotaExact, InPool, Pooled, map
  <1>4. IdIndexSound'
    BY SMTT(60) DEF MapInv, MapTyped, IdIndexSound, map, Grown
  <1>5. QED
    BY <1>1, <1>2, <1>3, <1>4 DEF MapInv

\* Entering an object keeps the map's invariant.
LEMMA InsertMap ==
  ASSUME MapInv, UNCHANGED obj, NEW t \in Txs \ Pooled, NEW o \in 1..Len(obj),
         obj[o].tx = t, InsertObj(o, t)
  PROVE  MapInv'
  <1>0. t \in Txs /\ Id[t] \in Ids /\ o # 0
    BY TxPoolAssumption DEF MapInv, MapTyped
  <1>1. QuotaExact' /\ MapTyped' /\ Pooled' = Pooled \cup {t}
    BY Inserted, ZenonT(60) DEF MapInv, MapTyped
  <1>2. Filed'
    BY <1>0, <1>1, SMTT(60) DEF MapInv, MapTyped, Filed, InsertObj
  <1>3. IdIndexSound'
    <2> SUFFICES ASSUME NEW d \in Ids, mapByID'[d] # 0
                 PROVE  Id[obj[mapByID'[d]].tx] = d /\ mapByHash'[obj[mapByID'[d]].tx] = mapByID'[d]
      BY DEF IdIndexSound
    <2>1. CASE d = Id[t]
      BY <1>0, <2>1, SMTT(60) DEF MapInv, MapTyped, InsertObj
    <2>2. CASE d # Id[t]
      <3>1. mapByID'[d] = mapByID[d]
        BY <2>2 DEF MapInv, MapTyped, InsertObj
      <3>2. Id[obj[mapByID[d]].tx] = d /\ mapByHash[obj[mapByID[d]].tx] = mapByID[d]
        BY <3>1 DEF MapInv, IdIndexSound
      <3>3. obj[mapByID[d]].tx # t
        BY <2>2, <3>2
      <3>4. mapByHash'[obj[mapByID[d]].tx] = mapByHash[obj[mapByID[d]].tx]
        BY <3>3 DEF MapInv, MapTyped, InsertObj
      <3>5. QED
        BY <3>1, <3>2, <3>4
    <2>3. QED
      BY <2>1, <2>2
  <1>4. QED
    BY <1>1, <1>2, <1>3 DEF MapInv

\* RemoveByHash keeps the map's invariant.
LEMMA RemoveMap ==
  ASSUME MapInv, UNCHANGED obj, NEW t \in Pooled, RemoveByHash(t)
  PROVE  MapInv'
  <1>0. t \in Txs /\ Id[t] \in Ids
    BY TxPoolAssumption DEF Pooled
  <1>1. QuotaExact' /\ MapTyped' /\ Pooled' = Pooled \ {t}
    BY Removed DEF MapInv, MapTyped
  <1>2. Filed'
    BY <1>0, <1>1, SMTT(60) DEF MapInv, MapTyped, Filed, RemoveByHash
  <1>3. IdIndexSound'
    <2> SUFFICES ASSUME NEW d \in Ids, mapByID'[d] # 0
                 PROVE  Id[obj[mapByID'[d]].tx] = d /\ mapByHash'[obj[mapByID'[d]].tx] = mapByID'[d]
      BY DEF IdIndexSound
    <2>1. d # Id[t] /\ mapByID'[d] = mapByID[d]
      BY <1>0 DEF MapInv, MapTyped, RemoveByHash
    <2>2. Id[obj[mapByID[d]].tx] = d /\ mapByHash[obj[mapByID[d]].tx] = mapByID[d]
      BY <2>1 DEF MapInv, IdIndexSound
    <2>3. obj[mapByID[d]].tx # t
      BY <2>1, <2>2
    <2>4. mapByHash'[obj[mapByID[d]].tx] = mapByHash[obj[mapByID[d]].tx]
      BY <2>3 DEF MapInv, MapTyped, RemoveByHash
    <2>5. QED
      BY <2>1, <2>2, <2>4
  <1>4. QED
    BY <1>1, <1>2, <1>3 DEF MapInv
\* Fill, which enters many at once, keeps the invariant.
LEMMA FillMap ==
  ASSUME IInv, NEW n \in FillLens, NEW txs \in [1..n -> Txs],
         \A i, j \in 1..n : txs[i] = txs[j] => i = j, Fill(txs)
  PROVE  IInv'
  <1> DEFINE added == [i \in 1..n |-> [tx |-> txs[i], local |-> FALSE, executable |-> FALSE]]
  <1>0. n \in Nat /\ DOMAIN txs = 1..n
    BY DEF FillLens
  <1>1. obj' = obj \o added
    BY <1>0 DEF Fill
  <1>2. /\ Len(obj) \in Nat /\ obj \in Seq(Object) /\ added \in Seq(Object) /\ Len(added) = n
    <2>2. \A i \in 1..n : added[i] \in Object
      BY DEF Object
    <2>3. added \in [1..n -> Object]
      BY <2>2
    <2>4. added \in Seq(Object) /\ Len(added) = n
      BY <1>0, <2>3
    <2>5. QED
      BY <2>4, Zenon DEF IInv, Typed, MapInv, MapTyped
  <1>3. /\ obj' \in Seq(Object) /\ Len(obj') = Len(obj) + n
        /\ \A o \in 1..Len(obj) : obj'[o] = obj[o]
        /\ \A i \in 1..n : obj'[Len(obj) + i].tx = txs[i]
    <2>1. \A i \in 1..n : added[i].tx = txs[i]
      OBVIOUS
    <2> HIDE DEF added
    <2>2. obj' \in Seq(Object) /\ Len(obj') = Len(obj) + n
      BY <1>0, <1>1, <1>2
    <2>3. \A o \in 1..Len(obj) : obj'[o] = obj[o]
      BY <1>1, <1>2
    <2>4. \A i \in 1..n : obj'[Len(obj) + i] = added[i]
      BY <1>0, <1>1, <1>2
    <2>5. QED
      BY <2>1, <2>2, <2>3, <2>4
  <1> HIDE DEF added
  <1>4. Fresh(txs) \subseteq Txs /\ Fresh(txs) \cap Pooled = {}
    BY <1>0 DEF Fresh, New
  <1>5. ASSUME NEW t \in Fresh(txs)
        PROVE  Position(txs, t) \in 1..n /\ txs[Position(txs, t)] = t
    <2>1. \E i \in New(txs) : txs[i] = t
      BY DEF Fresh
    <2>2. Position(txs, t) \in New(txs) /\ txs[Position(txs, t)] = t
      BY <2>1 DEF Position
    <2>3. QED
      BY <1>0, <2>2 DEF New
  <1>6. ASSUME NEW d \in Ids, OfId(txs, d) # {}
        PROVE  /\ LastOfId(txs, d) \in 1..n /\ Id[txs[LastOfId(txs, d)]] = d
               /\ txs[LastOfId(txs, d)] \in Fresh(txs)
    <2>0. OfId(txs, d) \subseteq 1..n
      BY <1>0 DEF OfId, New
    <2>1. \E i \in OfId(txs, d) : \A j \in OfId(txs, d) : j <= i
      BY <1>6, <2>0 DEF FillLens
    <2>2. LastOfId(txs, d) \in OfId(txs, d)
      BY <2>1, SMTT(60) DEF LastOfId
    <2>3. QED
      BY <2>0, <2>2 DEF OfId, Fresh
  <1>7. \A t \in Txs : mapByHash'[t] = IF t \in Fresh(txs) THEN Len(obj) + Position(txs, t) ELSE mapByHash[t]
    BY DEF Fill
  <1>8. \A d \in Ids : mapByID'[d] = IF OfId(txs, d) = {} THEN mapByID[d] ELSE Len(obj) + LastOfId(txs, d)
    BY DEF Fill
  <1>9. MapTyped' /\ Pooled' = Pooled \cup Fresh(txs)
    <2>0. DOMAIN mapByHash' = Txs /\ mapByHash' = [t \in Txs |-> mapByHash'[t]]
          /\ mapByID' = [d \in Ids |-> mapByID'[d]]
      BY DEF Fill
    <2>1. mapByHash' \in [Txs -> 0..Len(obj')]
      <3>1. ASSUME NEW t \in Txs PROVE mapByHash'[t] \in 0..Len(obj')
        BY <1>0, <1>2, <1>3, <1>5, <1>7, SMTT(60) DEF IInv, MapInv, MapTyped
      <3>2. QED
        BY <2>0, <3>1, SMTT(60)
    <2>2. mapByID' \in [Ids -> 0..Len(obj')]
      <3>1. ASSUME NEW d \in Ids PROVE mapByID'[d] \in 0..Len(obj')
        <4>1. mapByID[d] \in 0..Len(obj)
          BY DEF IInv, MapInv, MapTyped
        <4>2. CASE OfId(txs, d) = {}
          BY <1>0, <1>2, <1>3, <1>8, <4>1, <4>2, SMTT(60)
        <4>3. CASE OfId(txs, d) # {}
          BY <1>0, <1>2, <1>3, <1>6, <1>8, <4>3, SMTT(60)
        <4>4. QED
          BY <4>2, <4>3
      <3>2. QED
        BY <2>0, <3>1
    <2>3. quota' \in [Origins -> Nat]
      <3>1. ASSUME NEW a \in Origins PROVE Cardinality({ t \in Fresh(txs) : Origin[t] = a }) \in Nat
        <4>1. Cardinality(Of(Fresh(txs), a)) \in Nat
          BY <1>4, OfFinite, SMTT(60)
        <4>2. QED
          BY <4>1 DEF Of
      <3>2. quota' = [a \in Origins |-> quota[a] + Cardinality({ t \in Fresh(txs) : Origin[t] = a })]
        BY DEF Fill
      <3>3. quota \in [Origins -> Nat]
        BY DEF IInv, MapInv, MapTyped
      <3>4. QED
        BY <3>1, <3>2, <3>3
    <2>4. Pooled' = Pooled \cup Fresh(txs)
      BY <1>0, <1>2, <1>4, <1>5, <1>7, SMTT(60) DEF Pooled
    <2>5. QED
      BY <1>0, <1>2, <1>3, <2>1, <2>2, <2>3, <2>4, SMTT(60) DEF MapTyped
  <1>10. QuotaExact'
    <2> SUFFICES ASSUME NEW a \in Origins PROVE quota'[a] = InPool(a)'
      BY DEF QuotaExact
    <2>1. Pooled \subseteq Txs /\ InPool(a)' = Cardinality(Of(Pooled \cup Fresh(txs), a))
      BY <1>9, Zenon DEF Pooled, InPool, Of
    <2>2. InPool(a)' = Cardinality(Of(Pooled, a)) + Cardinality(Of(Fresh(txs), a))
      BY <1>4, <2>1, OfUnion, SMTT(60)
    <2>3. quota'[a] = quota[a] + Cardinality(Of(Fresh(txs), a))
      BY DEF Of, Fill
    <2>4. quota[a] = Cardinality(Of(Pooled, a))
      BY DEF IInv, MapInv, QuotaExact, InPool, Of
    <2>5. QED
      BY <2>2, <2>3, <2>4, SMTT(60)
  <1>11. Filed'
    <2> SUFFICES ASSUME NEW t \in Pooled' PROVE obj'[mapByHash'[t]].tx = t
      BY DEF Filed
    <2>0. t \in Txs
      BY DEF Pooled
    <2>1. CASE t \in Fresh(txs)
      BY <1>3, <1>5, <1>7, <2>0, <2>1, SMTT(60)
    <2>2. CASE t \notin Fresh(txs)
      <3>1. t \in Pooled /\ mapByHash'[t] = mapByHash[t] /\ mapByHash[t] \in 1..Len(obj)
        BY <1>7, <1>9, <2>0, <2>2, SMTT(60) DEF IInv, MapInv, MapTyped, Pooled
      <3>2. QED
        BY <1>3, <3>1, SMTT(60) DEF IInv, MapInv, Filed
    <2>3. QED
      BY <2>1, <2>2
  <1>12. IdIndexSound'
    <2> SUFFICES ASSUME NEW d \in Ids, mapByID'[d] # 0
                 PROVE  Id[obj'[mapByID'[d]].tx] = d /\ mapByHash'[obj'[mapByID'[d]].tx] = mapByID'[d]
      BY SMTT(60) DEF IdIndexSound
    <2>1. CASE OfId(txs, d) = {}
      <3>1. mapByID'[d] = mapByID[d] /\ mapByID[d] \in 1..Len(obj)
        BY <1>8, <2>1, SMTT(60) DEF IInv, MapInv, MapTyped
      <3>2. Id[obj[mapByID[d]].tx] = d /\ mapByHash[obj[mapByID[d]].tx] = mapByID[d]
        BY <3>1 DEF IInv, MapInv, IdIndexSound
      <3>3. obj[mapByID[d]].tx \notin Fresh(txs)
        BY <2>1, <3>2, SMTT(60) DEF Fresh, OfId
      <3>4. obj[mapByID[d]].tx \in Txs
        <4>1. obj[mapByID[d]] \in Object
          BY <1>2, <3>1, SMTT(60)
        <4>2. QED
          BY <4>1 DEF Object
      <3>5. QED
        BY <1>3, <1>7, <3>1, <3>2, <3>3, <3>4, SMTT(60)
    <2>2. CASE OfId(txs, d) # {}
      <3> DEFINE i == LastOfId(txs, d)
      <3>1. i \in 1..n /\ Id[txs[i]] = d /\ mapByID'[d] = Len(obj) + i /\ txs[i] \in Fresh(txs)
        BY <1>6, <1>8, <2>2, SMTT(60)
      <3> HIDE DEF i
      <3>2. obj'[mapByID'[d]].tx = txs[i]
        BY <1>3, <3>1, SMTT(60)
      <3>3. Position(txs, txs[i]) = i
        BY <1>5, <3>1, SMTT(60)
      <3>4. mapByHash'[txs[i]] = Len(obj) + i
        BY <1>4, <1>7, <3>1, <3>3, SMTT(60)
      <3>5. QED
        BY <3>1, <3>2, <3>4, SMTT(60)
    <2>3. QED
      BY <2>1, <2>2, SMTT(60)
  <1>13. Typed' /\ Held'
    <2>1. UNCHANGED <<verdict, head, pc, mine, executable, wash>>
      BY SMTT(60) DEF Fill, call, best
    <2>2. Typed'
      BY <1>3, <2>1, SMTT(60) DEF IInv, Typed
    <2>3. Held'
      <3>1. 1..Len(obj) \subseteq 1..Len(obj')
        BY <1>0, <1>2, <1>3
      <3>2. QED
        BY <2>1, <3>1 DEF IInv, Held
    <2>4. QED
      BY <2>2, <2>3, SMTT(60)
  <1>14. QED
    <2>1. MapInv'
      BY <1>9, <1>10, <1>11, <1>12 DEF MapInv
    <2>2. QED
      BY <1>13, <2>1 DEF IInv
-----------------------------------------------------------------------------
(* One step per action. *)

\* An empty pool satisfies the invariant.
LEMMA InitIInv == Init => IInv
  <1> SUFFICES ASSUME Init PROVE IInv
    OBVIOUS
  <1>1. Typed
    <2>1. wash \in Washing
      <3>1. [t \in Txs |-> "bad"] \in Answers
        BY DEF Answers
      <3>2. {} \in NatSets
        BY DEF NatSets
      <3>3. QED
        BY <3>1, <3>2 DEF Init, idleWash, Washing
    <2>2. obj \in Seq(Object) /\ head \in Nat
      BY DEF Init
    <2>3. verdict \in Answers
      BY TxPoolAssumption DEF Init, Answers
    <2>4. /\ pc \in [Callers -> {"idle", "checked", "added", "flagged"}] /\ mine \in [Callers -> Nat]
          /\ executable \in [Callers -> BOOLEAN]
      BY DEF Init
    <2>5. QED
      BY <2>1, <2>2, <2>3, <2>4, SMTT(60) DEF Typed
  <1>2. Held
    BY DEF Init, Held, idleWash
  <1>3. MapTyped /\ Pooled = {}
    BY DEF Init, MapTyped, Pooled
  <1>4. Filed /\ IdIndexSound
    BY <1>3 DEF Init, Filed, IdIndexSound
  <1>5. QuotaExact
    <2>1. \A a \in Origins : { t \in Pooled : Origin[t] = a } = {}
      BY <1>3
    <2>2. QED
      BY <2>1, FS_EmptySet, ZenonT(60) DEF Init, QuotaExact, InPool
  <1>6. QED
    BY <1>1, <1>2, <1>3, <1>4, <1>5 DEF IInv, MapInv

\* Every step of a caller of add keeps the invariant.
LEMMA CallerIInv ==
  ASSUME IInv, NEW c \in Callers,
         \/ \E t \in Txs, method \in Methods : AddCheck(c, t, method)
         \/ AddToMap(c) \/ AddFlag(c) \/ AddCount(c)
  PROVE  IInv'
  <1>0. Len(obj) \in Nat /\ obj \in Seq(Object)
    BY DEF IInv, Typed
  <1>1. ASSUME NEW t \in Txs, NEW method \in Methods, AddCheck(c, t, method) PROVE IInv'
    <2> DEFINE new == [tx |-> t, local |-> method = "AddLocal", executable |-> FALSE]
    <2>1. new \in Object /\ obj' = Append(obj, new)
      BY <1>1, SMTT(60) DEF AddCheck, Object
    <2> HIDE DEF new
    <2>2. obj' \in Seq(Object) /\ Len(obj') = Len(obj) + 1 /\ Grown
      BY <2>1, <1>0, ObjectAppended, ZenonT(60) DEF Grown
    <2>3. MapInv'
      <3>1. UNCHANGED map
        BY <1>1, ZenonT(60) DEF AddCheck
      <3>2. QED
        BY <2>2, <3>1, KeepMap, ZenonT(60) DEF IInv
    <2>a. /\ pc' = [pc EXCEPT ![c] = "checked"] /\ mine' = [mine EXCEPT ![c] = Len(obj')]
          /\ executable' = [executable EXCEPT ![c] = synced /\ verdict[t] = "executable"]
          /\ UNCHANGED <<verdict, head, wash>>
      BY <1>1, ZenonT(60) DEF AddCheck, best
    <2>4. Typed'
      <3>1. pc' \in [Callers -> {"idle", "checked", "added", "flagged"}]
        BY <2>a DEF IInv, Typed
      <3>2. mine' \in [Callers -> Nat]
        BY <1>0, <2>2, <2>a DEF IInv, Typed
      <3>3. executable' \in [Callers -> BOOLEAN]
        <4>1. (synced /\ verdict[t] = "executable") \in BOOLEAN
          BY Zenon
        <4>2. QED
          BY <2>a, <4>1 DEF IInv, Typed
      <3>4. QED
        BY <2>2, <2>a, <3>1, <3>2, <3>3, SMTT(60) DEF IInv, Typed
    <2>5. Held'
      <3>1. 1..Len(obj) \subseteq 1..Len(obj') /\ Len(obj') \in 1..Len(obj')
        BY <1>0, <2>2
      <3>2. \A b \in Callers : mine'[b] = IF b = c THEN Len(obj') ELSE mine[b]
        BY <2>a DEF IInv, Typed
      <3>3. \A b \in Callers : b # c => pc'[b] = pc[b]
        BY <2>a, ZenonT(60) DEF IInv, Typed
      <3>4. QED
        BY <2>a, <3>1, <3>2, <3>3 DEF IInv, Held
    <2>6. QED
      BY <2>3, <2>4, <2>5, SMTT(60) DEF IInv
  <1>2. ASSUME AddToMap(c) PROVE IInv'
    <2>1. Typed' /\ Held'
      <3>1. /\ pc' \in [Callers -> {"idle", "checked", "added", "flagged"}]
            /\ mine' \in [Callers -> Nat]
        <4>1. \E v \in {"added", "idle"} : pc' = [pc EXCEPT ![c] = v]
          BY <1>2, ZenonT(60) DEF AddToMap
        <4>2. mine' = mine \/ mine' = [mine EXCEPT ![c] = 0]
          BY <1>2, ZenonT(60) DEF AddToMap
        <4>3. QED
          BY <4>1, <4>2, SMTT(60) DEF IInv, Typed
      <3>2. executable' \in [Callers -> BOOLEAN]
        BY <1>2, ZenonT(60) DEF IInv, Typed, AddToMap
      <3>3. UNCHANGED <<obj, verdict, head, wash>>
        BY <1>2, ZenonT(60) DEF AddToMap, best
      <3>4. Held'
        <4>1. \/ mine' = mine /\ pc[c] # "idle"
              \/ pc'[c] = "idle" /\ \A b \in Callers \ {c} : mine'[b] = mine[b]
          BY <1>2, ZenonT(60) DEF IInv, Typed, AddToMap
        <4>2. \A b \in Callers \ {c} : pc'[b] = pc[b]
          BY <1>2, ZenonT(60) DEF IInv, Typed, AddToMap
        <4>3. Held /\ wash' = wash /\ obj' = obj
          BY <3>3, ZenonT(60) DEF IInv
        <4>4. ASSUME NEW b \in Callers, pc'[b] # "idle" PROVE mine'[b] \in 1..Len(obj)
          <5>1. CASE b = c
            BY <4>1, <4>3, <4>4, <5>1, ZenonT(60) DEF Held
          <5>2. CASE b # c
            BY <4>1, <4>2, <4>3, <4>4, <5>2, ZenonT(60) DEF Held
          <5>3. QED
            BY <5>1, <5>2, Zenon
        <4>5. QED
          BY <4>3, <4>4, ZenonT(60) DEF Held
      <3>5. QED
        BY <3>1, <3>2, <3>3, <3>4, SMTT(60) DEF IInv, Typed
    <2>2. mine[c] \in 1..Len(obj) /\ obj[mine[c]].tx \in Txs /\ UNCHANGED obj
      <3>1. mine[c] \in 1..Len(obj) /\ UNCHANGED obj
        BY <1>2, ZenonT(60) DEF IInv, Held, AddToMap
      <3>2. obj[mine[c]] \in Object
        BY <1>0, <3>1
      <3>3. QED
        BY <3>1, <3>2, SMTT(60) DEF Object
    <2>3. CASE UNCHANGED map
      <3>1. Grown
        BY <1>0, <2>2 DEF Grown
      <3>2. QED
        BY <2>1, <2>3, <3>1, KeepMap DEF IInv
    <2>4. CASE obj[mine[c]].tx \notin Pooled /\ InsertObj(mine[c], obj[mine[c]].tx)
      BY <2>1, <2>2, <2>4, InsertMap DEF IInv
    <2>5. QED
      BY <1>2, <2>3, <2>4, ZenonT(60) DEF AddToMap
  <1>3. ASSUME AddFlag(c) PROVE IInv'
    <2>1. obj' \in Seq(Object) /\ Len(obj') = Len(obj) /\ Grown
      <3>1. mine[c] \in 1..Len(obj) /\ executable[c] \in BOOLEAN
        BY <1>3, SMTT(60) DEF IInv, Typed, Held, AddFlag
      <3>2. obj[mine[c]] \in Object
        BY <1>0, <3>1, ObjectAt, ZenonT(60)
      <3>3. CASE onHead[c]
        <4> DEFINE o == [obj[mine[c]] EXCEPT !.executable = executable[c]]
        <4>1. o \in Object /\ o.tx = obj[mine[c]].tx
          BY <3>1, <3>2 DEF Object
        <4>2. obj' = [obj EXCEPT ![mine[c]] = o]
          BY <1>3, <3>3 DEF AddFlag
        <4> HIDE DEF o
        <4>3. QED
          BY <1>0, <3>1, <4>1, <4>2 DEF Grown
      <3>4. CASE ~onHead[c]
        BY <1>0, <1>3, <3>4, SMTT(60) DEF AddFlag, Grown
      <3>5. QED
        BY <3>3, <3>4
    <2>2. MapInv'
      BY <1>3, <2>1, KeepMap DEF IInv, AddFlag, map
    <2>3. Typed' /\ Held'
      BY <1>3, <2>1, SMTT(60) DEF IInv, Typed, Held, AddFlag, best
    <2>4. QED
      BY <2>2, <2>3 DEF IInv
  <1>4. ASSUME AddCount(c) PROVE IInv'
    <2>1. Grown
      BY <1>0, <1>4, SMTT(60) DEF AddCount, Grown
    <2>2. MapInv'
      <3>1. UNCHANGED map
        BY <1>4, ZenonT(60) DEF AddCount
      <3>2. QED
        BY <2>1, <3>1, KeepMap, ZenonT(60) DEF IInv
    <2>3. Typed' /\ Held'
      BY <1>4, SMTT(60) DEF IInv, Typed, Held, AddCount, best
    <2>4. QED
      BY <2>2, <2>3 DEF IInv
  <1>5. QED
    BY <1>1, <1>2, <1>3, <1>4
\* Every step of the housekeeping keeps the invariant.
LEMMA WashIInv ==
  ASSUME IInv, Tick \/ Wash \/ Offer \/ Store \/ \E o \in wash.toRemove : WashOut(o)
  PROVE  IInv'
  <1>0. Len(obj) \in Nat /\ obj \in Seq(Object)
    BY SMTT(60) DEF IInv, Typed
  <1>1. ASSUME Tick PROVE IInv'
    <2>1. MapInv'
      BY <1>0, <1>1, KeepMap DEF IInv, Tick, Grown
    <2>2. wash \in Washing /\ head \in Nat /\ verdict \in Answers
      BY DEF IInv, Typed
    <2>3. wash' \in Washing /\ wash'.toRemove = wash.toRemove
      <3>1. CASE wash' = [wash EXCEPT !.head = head, !.verdict = verdict, !.phase = "washing"]
        BY <2>2, <3>1, ZenonT(60) DEF Washing
      <3>2. CASE wash' = [wash EXCEPT !.head = head]
        BY <2>2, <3>2 DEF Washing
      <3>3. QED
        BY <1>1, <3>1, <3>2 DEF Tick
    <2>4. UNCHANGED <<obj, pc, mine, executable, verdict, head>>
      BY <1>1, ZenonT(60) DEF Tick, best, call
    <2>5. QED
      BY <2>1, <2>3, <2>4 DEF IInv, Typed, Held
  <1>2. ASSUME Wash PROVE IInv'
    <2>0. UNCHANGED <<obj, map, pc, mine, executable, verdict, head>>
      BY <1>2, Zenon DEF Wash, best, call
    <2>1. MapInv'
      BY <1>0, <2>0, KeepMap, SMTT(60) DEF IInv, Grown
    <2> DEFINE all == { mapByHash[t] : t \in Pooled }
               of(v) == { o \in all : wash.verdict[obj[o].tx] = v }
               local == { o \in all : obj[o].local }
               out == { o \in all : Origin[obj[o].tx] \in blocked }
               gone(expired) == out \cup expired \cup of("bad")
               runs(expired) == of("executable") \ gone(expired)
               rest(expired) == of("pending") \ gone(expired)
    <2>2. all \subseteq 1..Len(obj)
      BY DEF IInv, MapInv, MapTyped, Pooled
    <2>3. wash \in Washing
      BY DEF IInv, Typed
    <2>4. ASSUME NEW expired \in SUBSET (all \ local),
                 NEW keep \in Cut(runs(expired) \ local),
                 NEW others \in Rest(rest(expired) \ local, keep),
                 wash' = [wash EXCEPT !.phase = "offering", !.all = all,
                            !.offer = keep \cup (runs(expired) \cap local),
                            !.toRemove = all \ (keep \cup others \cup ((runs(expired) \cup rest(expired)) \cap local))]
          PROVE  wash' \in Washing /\ wash'.toRemove \subseteq all
      <3>1. keep \subseteq all
        BY Zenon DEF Cut
      <3>2. keep \cup (runs(expired) \cap local) \subseteq all
        BY <3>1, ZenonT(60)
      <3> HIDE DEF all, of, local, out, gone, runs, rest
      <3>3. QED
        <4> DEFINE offer == keep \cup (runs(expired) \cap local)
                   left == keep \cup others \cup ((runs(expired) \cup rest(expired)) \cap local)
        <4>1. wash' = [wash EXCEPT !.phase = "offering", !.all = all, !.offer = offer, !.toRemove = all \ left]
              /\ offer \subseteq all
          BY <2>4, <3>2, SMTT(60)
        <4> HIDE DEF offer, left
        <4>2. all \subseteq Nat
          BY <1>0, <2>2
        <4>3. all \in NatSets /\ offer \in NatSets /\ all \ left \in NatSets
          BY <4>1, <4>2, ZenonT(60) DEF NatSets
        <4>4. QED
          BY <2>3, <4>1, <4>3, ZenonT(60) DEF Washing
    <2>5. ASSUME NEW cut \in SUBSET all,
                 wash' = [wash EXCEPT !.phase = "removing", !.all = all, !.toRemove = cut, !.failed = TRUE]
          PROVE  wash' \in Washing /\ wash'.toRemove \subseteq all
      <3> HIDE DEF all
      <3>1. all \in NatSets /\ cut \in NatSets
        BY <1>0, <2>2 DEF NatSets
      <3>2. QED
        BY <2>3, <2>5, <3>1, ZenonT(60) DEF Washing
    <2>6. wash' \in Washing /\ wash'.toRemove \subseteq all
      BY <1>2, <2>4, <2>5, Zenon DEF Wash
    <2>7. QED
      BY <2>0, <2>1, <2>2, <2>6 DEF IInv, Typed, Held
  <1>3. ASSUME Offer PROVE IInv'
    <2> DEFINE flag(o) == obj[o].executable \/ o \in { p \in wash.offer : ~obj[p].executable \/ obj[p].local }
    <2>1. obj' = [o \in 1..Len(obj) |-> [obj[o] EXCEPT !.executable = flag(o)]]
      BY <1>0, <1>3 DEF Offer
    <2>2. \A o \in 1..Len(obj) : obj[o] \in Object
      BY <1>0, SMTT(60)
    <2>2a. \A o \in 1..Len(obj) : obj[o].executable \in BOOLEAN
      BY <2>2 DEF Object
    <2>2b. \A o \in 1..Len(obj) : flag(o) \in BOOLEAN
      BY <2>2a, Zenon
    <2> HIDE DEF flag
    <2>3. \A o \in 1..Len(obj) : obj'[o] \in Object /\ obj'[o].tx = obj[o].tx
      BY <2>1, <2>2, <2>2b, SMTT(60) DEF Object
    <2>4. obj' \in Seq(Object) /\ Len(obj') = Len(obj)
      <3>1. obj' \in [1..Len(obj) -> Object]
        BY <2>1, <2>3, Zenon
      <3>2. QED
        BY <1>0, <3>1
    <2>5. MapInv'
      BY <1>0, <1>3, <2>3, <2>4, KeepMap, SMTT(60) DEF IInv, Offer, Grown
    <2>6. Typed' /\ Held'
      <3>1. UNCHANGED <<pc, mine, executable, verdict, head>>
        BY <1>3, ZenonT(60) DEF Offer, best, call
      <3>2. wash' \in Washing /\ wash'.toRemove = wash.toRemove
        <4>1. wash' = [wash EXCEPT !.phase = "removing"]
          BY <1>3, ZenonT(60) DEF Offer
        <4>2. wash \in Washing
          BY ZenonT(60) DEF IInv, Typed
        <4>3. QED
          BY <4>1, <4>2, ZenonT(60) DEF Washing
      <3>3. QED
        BY <2>4, <3>1, <3>2, ZenonT(60) DEF IInv, Typed, Held
    <2>7. QED
      BY <2>5, <2>6 DEF IInv
  <1>4. ASSUME Store PROVE IInv'
    <2>1. MapInv'
      BY <1>0, <1>4, KeepMap DEF IInv, Store, Grown
    <2>2. Typed' /\ Held'
      BY <1>4, Zenon DEF IInv, Typed, Held, Washing, Answers, NatSets, Store, idleWash, best, call
    <2>3. QED
      BY <2>1, <2>2 DEF IInv
  <1>5. ASSUME NEW o \in wash.toRemove, WashOut(o) PROVE IInv'
    <2>1. Typed' /\ Held'
      BY <1>5, ZenonT(60) DEF IInv, Typed, Held, Washing, NatSets, WashOut, best, call
    <2>2. CASE obj[o].tx \in Pooled
      BY <1>5, <2>1, <2>2, RemoveMap DEF IInv, WashOut
    <2>3. CASE obj[o].tx \notin Pooled
      BY <1>0, <1>5, <2>1, <2>3, KeepMap, SMTT(60) DEF IInv, WashOut, Grown
    <2>4. QED
      BY <2>2, <2>3
  <1>6. QED
    BY <1>1, <1>2, <1>3, <1>4, <1>5, SMTT(60)
\* Every step keeps the invariant.
LEMMA StepIInv == IInv /\ [Next]_vars => IInv'
  <1> SUFFICES ASSUME IInv, [Next]_vars PROVE IInv'
    OBVIOUS
  <1>0. Len(obj) \in Nat /\ obj \in Seq(Object)
    BY DEF IInv, Typed
  <1>1. ASSUME NEW c \in Callers,
               \/ \E t \in Txs, method \in Methods : AddCheck(c, t, method)
               \/ AddToMap(c) \/ AddFlag(c) \/ AddCount(c)
        PROVE  IInv'
    BY <1>1, CallerIInv
  <1>2. ASSUME NEW t \in Txs, Remove(t) PROVE IInv'
    <2>1. MapInv'
      BY <1>2, RemoveMap, SMTT(60) DEF IInv, Remove
    <2>2. Typed' /\ Held'
      BY <1>2 DEF IInv, Typed, Held, Remove, best, call
    <2>3. QED
      BY <2>1, <2>2 DEF IInv
  <1>3. ASSUME NEW n \in FillLens, NEW txs \in [1..n -> Txs],
               \A i, j \in 1..n : txs[i] = txs[j] => i = j, Fill(txs)
        PROVE  IInv'
    BY <1>3, FillMap, ZenonT(60)
  <1>4. ASSUME NewHead \/ Stall \/ (\E list \in SUBSET Origins : Fetch(list)) \/ UNCHANGED vars
        PROVE  IInv'
    <2>1. UNCHANGED <<obj, map, pc, mine, executable, wash>> /\ verdict' \in Answers /\ head' \in Nat
      <3>1. CASE NewHead
        BY <3>1, TxPoolAssumption, SMTT(60) DEF IInv, Typed, Answers, NewHead, call
      <3>2. CASE Stall \/ \E list \in SUBSET Origins : Fetch(list)
        BY <3>2, SMTT(60) DEF IInv, Typed, Stall, Fetch, best, call
      <3>3. CASE UNCHANGED vars
        BY <3>3 DEF IInv, Typed, vars, best, call
      <3>4. QED
        BY <1>4, <3>1, <3>2, <3>3, SMTT(60)
    <2>2. MapInv'
      BY <1>0, <2>1, KeepMap DEF IInv, Grown
    <2>3. QED
      BY <2>1, <2>2, SMTT(60) DEF IInv, Typed, Held
  <1>5. ASSUME Tick \/ Wash \/ Offer \/ Store \/ \E o \in wash.toRemove : WashOut(o)
        PROVE  IInv'
    BY <1>5, WashIInv
  <1>6. QED
    BY <1>1, <1>2, <1>3, <1>4, <1>5, SMTT(60) DEF Next

\* The quota of an account is the number of its pooled transactions.
THEOREM QuotaStaysExact == Spec => []QuotaExact
  <1>1. IInv => QuotaExact
    BY DEF IInv, MapInv
  <1>2. QED
    BY InitIInv, StepIInv, <1>1, PTL DEF Spec

\* Get never returns an object that has left the pool.
THEOREM IdIndexStaysSound == Spec => []IdIndexSound
  <1>1. IInv => IdIndexSound
    BY SMTT(60) DEF IInv, MapInv
  <1>2. QED
    BY InitIInv, StepIInv, <1>1, PTL DEF Spec

-----------------------------------------------------------------------------
(* What a wash leaves, and what is announced. *)

Sized ==
  /\ fills \in Nat
  /\ executables \subseteq 1..Len(obj) /\ announced \subseteq 1..Len(obj)
  /\ wash.all \subseteq 1..Len(obj) /\ wash.offer \subseteq 1..Len(obj)

\* An object a caller has checked and not yet added was never in the map, and is its own.
Unpooled ==
  \A c \in Callers : pc[c] = "checked" =>
    /\ mine[c] \notin wash.all
    /\ \A t \in Txs : mapByHash[t] # mine[c]
    /\ \A d \in Callers : pc[d] = "checked" /\ mine[d] = mine[c] => d = c

\* The objects counted against the limit that are in the map and not on the list.
Over ==
  { o \in wash.all : /\ o \notin wash.toRemove
                     /\ wash.failed \/ ~obj[o].local
                     /\ mapByHash[obj[o].tx] = o }

Bounded ==
  /\ wash.phase \in {"idle", "washing"} => ~wash.failed
  /\ wash.phase \in {"offering", "removing"} => Cardinality(Over) <= Limit

\* An object whose flag is set was announced, and so is all that a wash offers once
\* it is through with announcing.
Told ==
  /\ \A o \in 1..Len(obj) : obj[o].executable => o \in announced
  /\ executables \subseteq announced
  /\ wash.phase = "removing" /\ ~wash.failed => wash.offer \subseteq announced

JInv == Sized /\ Unpooled /\ Bounded /\ Told

\* Objects only come, and keep their transaction and whether they are local.
Kept ==
  /\ Len(obj') \in Nat /\ Len(obj) <= Len(obj')
  /\ \A o \in 1..Len(obj) : obj'[o].tx = obj[o].tx /\ obj'[o].local = obj[o].local

\* What the invariant says of objects, callers and the wash.
LEMMA Facts ==
  ASSUME IInv
  PROVE  /\ Len(obj) \in Nat /\ obj \in Seq(Object)
         /\ \A o \in 1..Len(obj) : obj[o] \in Object /\ obj[o].tx \in Txs /\ obj[o].executable \in BOOLEAN
         /\ mapByHash \in [Txs -> 0..Len(obj)]
         /\ pc \in [Callers -> {"idle", "checked", "added", "flagged"}] /\ mine \in [Callers -> Nat]
         /\ \A c \in Callers : pc[c] # "idle" => mine[c] \in 1..Len(obj)
         /\ wash \in Washing /\ wash.toRemove \subseteq 1..Len(obj)
  <1>1. /\ Len(obj) \in Nat /\ obj \in Seq(Object) /\ mapByHash \in [Txs -> 0..Len(obj)]
        /\ pc \in [Callers -> {"idle", "checked", "added", "flagged"}] /\ mine \in [Callers -> Nat]
        /\ \A c \in Callers : pc[c] # "idle" => mine[c] \in 1..Len(obj)
        /\ wash \in Washing /\ wash.toRemove \subseteq 1..Len(obj)
    BY Zenon DEF IInv, Typed, Held, MapInv, MapTyped
  <1>2. ASSUME NEW o \in 1..Len(obj)
        PROVE  obj[o] \in Object /\ obj[o].tx \in Txs /\ obj[o].executable \in BOOLEAN
    <2>1. obj[o] \in Object
      BY <1>1, ObjectAt, Zenon
    <2>2. QED
      BY <2>1 DEF Object
  <1>3. QED
    BY <1>1, <1>2

\* Objects that are not touched are kept.
LEMMA ObjKept ==
  ASSUME IInv, UNCHANGED obj
  PROVE  Kept
  <1>1. Len(obj) \in Nat
    BY Facts
  <1>2. Len(obj) <= Len(obj)
    BY <1>1
  <1>3. QED
    BY <1>1, <1>2, Zenon DEF Kept

\* References to objects stay valid.
LEMMA RangeGrows ==
  ASSUME Kept, Len(obj) \in Nat
  PROVE  1..Len(obj) \subseteq 1..Len(obj')
  BY DEF Kept

\* What the wash leaves is within the limit as long as no entry of its snapshot comes
\* back.
LEMMA LimitKept ==
  ASSUME IInv, Sized, Bounded, Over' \subseteq Over, wash'.failed = wash.failed,
         wash'.phase \in {"idle", "washing"} => wash.phase \in {"idle", "washing"},
         wash'.phase \in {"offering", "removing"} => wash.phase \in {"offering", "removing"}
  PROVE  Bounded'
  <1>1. IsFiniteSet(1..Len(obj))
    BY Facts, FS_Interval
  <1>2. Over \subseteq 1..Len(obj)
    BY Zenon DEF Over, Sized
  <1>3. IsFiniteSet(Over)
    BY <1>1, <1>2, FS_Subset
  <1>4. Cardinality(Over') <= Cardinality(Over) /\ Cardinality(Over) \in Nat /\ Cardinality(Over') \in Nat
    <2>1. IsFiniteSet(Over') /\ Cardinality(Over') <= Cardinality(Over)
      BY <1>3, FS_Subset, Zenon
    <2>2. QED
      BY <1>3, <2>1, FS_CardinalityType, Zenon
  <1>5. Cardinality(Over) <= Limit => Cardinality(Over') <= Limit
    BY <1>4, TxPoolAssumption
  <1>6. QED
    BY <1>5, Zenon DEF Bounded

\* Entries of the snapshot only leave the pool during a wash.
LEMMA OverShrinks ==
  ASSUME IInv, Sized, Kept, wash'.all = wash.all, wash'.failed = wash.failed,
         \A o \in wash.all : mapByHash'[obj[o].tx] = o /\ o \notin wash'.toRemove =>
                               mapByHash[obj[o].tx] = o /\ o \notin wash.toRemove
  PROVE  Over' \subseteq Over
  <1> SUFFICES ASSUME NEW o \in Over' PROVE o \in Over
    OBVIOUS
  <1>1. o \in wash.all /\ o \notin wash'.toRemove /\ (wash.failed \/ ~obj'[o].local) /\ mapByHash'[obj'[o].tx] = o
    BY Zenon DEF Over
  <1>2. obj'[o].tx = obj[o].tx /\ obj'[o].local = obj[o].local
    BY <1>1, Zenon DEF Kept, Sized
  <1>3. QED
    BY <1>1, <1>2, Zenon DEF Over

\* A step that leaves callers and the wash alone, and takes objects out of the map
\* or puts new ones in.
LEMMA StillJInv ==
  ASSUME IInv, JInv, Kept, fills' \in Nat, UNCHANGED <<pc, mine, wash, executables, announced>>,
         \A t \in Txs : mapByHash'[t] = mapByHash[t] \/ mapByHash'[t] = 0 \/ mapByHash'[t] > Len(obj),
         \A o \in 1..Len(obj') : obj'[o].executable => o \in 1..Len(obj) /\ obj[o].executable
  PROVE  JInv'
  <1>0. Len(obj) \in Nat /\ 1..Len(obj) \subseteq 1..Len(obj')
    BY Facts, RangeGrows
  <1>1. Sized'
    BY <1>0, Zenon DEF JInv, Sized
  <1>2. ASSUME NEW t \in Txs, mapByHash'[t] \in 1..Len(obj) PROVE mapByHash[t] = mapByHash'[t]
    BY <1>0, <1>2
  <1>3. Unpooled'
    <2>1. \A c \in Callers : pc[c] = "checked" => mine[c] \in 1..Len(obj)
      BY Facts
    <2>2. QED
      BY <1>2, <2>1, Zenon DEF JInv, Unpooled
  <1>4. Bounded'
    <2>1. \A o \in wash.all : mapByHash'[obj[o].tx] = o => mapByHash[obj[o].tx] = o
      <3> TAKE o \in wash.all
      <3>1. o \in 1..Len(obj)
        BY Zenon DEF JInv, Sized
      <3>2. obj[o].tx \in Txs
        BY <3>1, Facts
      <3>3. QED
        BY <1>2, <3>1, <3>2, Zenon
    <2>2. Over' \subseteq Over
      BY <2>1, OverShrinks, Zenon DEF JInv
    <2>3. QED
      BY <2>2, LimitKept, Zenon DEF JInv
  <1>5. Told'
    BY Zenon DEF JInv, Told
  <1>6. QED
    BY <1>1, <1>3, <1>4, <1>5, Zenon DEF JInv

\* The check of a caller keeps the wash's invariant.
LEMMA AddCheckJInv ==
  ASSUME IInv, JInv, NEW c \in Callers, NEW t \in Txs, NEW method \in Methods, AddCheck(c, t, method)
  PROVE  JInv'
  <1> DEFINE new == [tx |-> t, local |-> method = "AddLocal", executable |-> FALSE]
  <1>0. /\ obj' = Append(obj, new) /\ UNCHANGED <<mapByHash, wash, executables, announced, fills>>
        /\ pc' = [pc EXCEPT ![c] = "checked"] /\ mine' = [mine EXCEPT ![c] = Len(obj')]
    BY Zenon DEF AddCheck, map, used
  <1>1. Len(obj) \in Nat /\ obj \in Seq(Object)
    BY Facts, SMTT(60)
  <1>2. Kept /\ Len(obj') = Len(obj) + 1 /\ ~obj'[Len(obj) + 1].executable
        /\ \A o \in 1..Len(obj) : obj'[o] = obj[o]
    <2>1. ~new.executable
      OBVIOUS
    <2> HIDE DEF new
    <2>2. QED
      BY <1>0, <1>1, <2>1 DEF Kept
  <1>3. 1..Len(obj) \subseteq 1..Len(obj') /\ Len(obj') \notin 1..Len(obj)
        /\ \A o \in 1..Len(obj') : o \in 1..Len(obj) \/ o = Len(obj) + 1
    BY <1>1, <1>2
  <1>4. Sized'
    BY <1>0, <1>3, Zenon DEF JInv, Sized
  <1>5. Unpooled'
    <2>1. \A d \in Callers : d # c => pc'[d] = pc[d] /\ mine'[d] = mine[d]
      BY <1>0, Facts, SMTT(60)
    <2>2. mine'[c] = Len(obj')
      BY <1>0, Facts, SMTT(60)
    <2>3. \A u \in Txs : mapByHash[u] # Len(obj')
      BY <1>1, <1>2, Facts
    <2>4. Len(obj') \notin wash.all
      BY <1>3, Zenon DEF JInv, Sized
    <2>5. \A d \in Callers : pc[d] = "checked" => mine[d] # Len(obj')
      BY <1>3, Facts, SMTT(60)
    <2>6. ASSUME NEW d \in Callers, pc'[d] = "checked"
          PROVE  /\ mine'[d] \notin wash'.all
                 /\ \A u \in Txs : mapByHash'[u] # mine'[d]
                 /\ \A e \in Callers : pc'[e] = "checked" /\ mine'[e] = mine'[d] => e = d
      <3>1. CASE d = c
        BY <1>0, <2>1, <2>2, <2>3, <2>4, <2>5, <3>1, Zenon
      <3>2. CASE d # c
        <4>1. pc[d] = "checked" /\ mine'[d] = mine[d] /\ mine[d] # Len(obj')
          BY <2>1, <2>5, <2>6, <3>2, Zenon
        <4>2. /\ mine[d] \notin wash.all
              /\ \A u \in Txs : mapByHash[u] # mine[d]
              /\ \A e \in Callers : pc[e] = "checked" /\ mine[e] = mine[d] => e = d
          BY <4>1, Zenon DEF JInv, Unpooled
        <4>3. wash' = wash /\ mapByHash' = mapByHash
          BY <1>0, Zenon
        <4>4. ASSUME NEW e \in Callers, pc'[e] = "checked", mine'[e] = mine'[d] PROVE e = d
          <5>1. e # c
            BY <2>2, <4>1, <4>4, Zenon
          <5>2. QED
            BY <2>1, <4>1, <4>2, <4>4, <5>1, Zenon
        <4>5. QED
          BY <4>1, <4>2, <4>3, <4>4, Zenon
      <3>3. QED
        BY <3>1, <3>2
    <2>7. QED
      BY <2>6, Zenon DEF Unpooled
  <1>6. Bounded'
    <2>1. Over' \subseteq Over
      BY <1>0, <1>2, OverShrinks, Zenon DEF JInv
    <2>2. QED
      BY <1>0, <2>1, LimitKept, Zenon DEF JInv
  <1>7. Told'
    BY <1>0, <1>2, <1>3, Zenon DEF JInv, Told
  <1>8. QED
    BY <1>4, <1>5, <1>6, <1>7, Zenon DEF JInv

\* A caller goes on without its checked object: the others keep theirs.
LEMMA UnpooledKept ==
  ASSUME IInv, Unpooled, NEW c \in Callers, NEW p, p # "checked", pc' = [pc EXCEPT ![c] = p],
         \A d \in Callers : d # c => mine'[d] = mine[d],
         wash'.all = wash.all,
         \A d \in Callers : d # c /\ pc[d] = "checked" => \A t \in Txs : mapByHash'[t] # mine[d]
  PROVE  Unpooled'
  <1>1. \A d \in Callers : pc'[d] = "checked" => d # c /\ pc[d] = "checked" /\ mine'[d] = mine[d]
    BY Facts
  <1>2. ASSUME NEW d \in Callers, pc'[d] = "checked"
        PROVE  /\ mine'[d] \notin wash'.all
               /\ \A u \in Txs : mapByHash'[u] # mine'[d]
               /\ \A e \in Callers : pc'[e] = "checked" /\ mine'[e] = mine'[d] => e = d
    BY <1>1, <1>2, Zenon DEF Unpooled
  <1>3. QED
    BY <1>2, Zenon DEF Unpooled

\* Entering a transaction keeps it: the transaction is not in the snapshot.
LEMMA AddToMapJInv ==
  ASSUME IInv, JInv, NEW c \in Callers, AddToMap(c)
  PROVE  JInv'
  <1>0. /\ UNCHANGED <<obj, wash, executables, announced, fills>> /\ pc[c] = "checked"
        /\ \E p \in {"added", "idle"} : pc' = [pc EXCEPT ![c] = p]
        /\ mine' = mine \/ mine' = [mine EXCEPT ![c] = 0]
        /\ mapByHash' = mapByHash \/ mapByHash' = [mapByHash EXCEPT ![obj[mine[c]].tx] = mine[c]]
    BY Zenon DEF AddToMap, map, used, InsertObj
  <1>1. Kept
    BY <1>0, ObjKept, Zenon
  <1>2. \A t \in Txs : mapByHash'[t] = mapByHash[t] \/ mapByHash'[t] = mine[c]
    BY <1>0, Facts
  <1>3. Sized'
    BY <1>0, Zenon DEF JInv, Sized
  <1>4. Unpooled'
    <2>1. \A d \in Callers : d # c => mine'[d] = mine[d]
      BY <1>0, Facts
    <2>2. ASSUME NEW d \in Callers, d # c, pc[d] = "checked", NEW t \in Txs PROVE mapByHash'[t] # mine[d]
      BY <1>0, <1>2, <2>2, Zenon DEF JInv, Unpooled
    <2>3. PICK p \in {"added", "idle"} : pc' = [pc EXCEPT ![c] = p]
      BY <1>0, Zenon
    <2>4. p # "checked" /\ wash'.all = wash.all /\ Unpooled
      BY <1>0 DEF JInv
    <2>5. QED
      BY <2>1, <2>2, <2>3, <2>4, UnpooledKept, ZenonT(60)
  <1>5. Bounded'
    <2>1. mine[c] \notin wash.all
      BY <1>0, Zenon DEF JInv, Unpooled
    <2>2. \A o \in wash.all : mapByHash'[obj[o].tx] = o => mapByHash[obj[o].tx] = o
      <3> TAKE o \in wash.all
      <3>1. o \in 1..Len(obj)
        BY Zenon DEF JInv, Sized
      <3>2. obj[o].tx \in Txs
        BY <3>1, Facts
      <3>3. QED
        BY <1>2, <2>1, <3>2, Zenon
    <2>3. Over' \subseteq Over
      BY <1>0, <1>1, <2>2, OverShrinks, Zenon DEF JInv
    <2>4. QED
      BY <1>0, <2>3, LimitKept, Zenon DEF JInv
  <1>6. Told'
    BY <1>0, Zenon DEF JInv, Told
  <1>7. QED
    BY <1>3, <1>4, <1>5, <1>6, Zenon DEF JInv

\* Setting the flag keeps it: the transaction is announced in the same step.
LEMMA AddFlagJInv ==
  ASSUME IInv, JInv, NEW c \in Callers, AddFlag(c)
  PROVE  JInv'
  <1>0. /\ UNCHANGED <<mapByHash, wash, executables, fills, mine>> /\ pc[c] = "added"
        /\ pc' = [pc EXCEPT ![c] = "flagged"]
        /\ announced \subseteq announced' /\ announced' \subseteq announced \cup {mine[c]}
    BY Zenon DEF AddFlag, map, used
  <1>1. Len(obj) \in Nat /\ obj \in Seq(Object) /\ mine[c] \in 1..Len(obj)
    BY <1>0, Facts, SMTT(60)
  <1>2. /\ Kept /\ Len(obj') = Len(obj)
        /\ \A o \in 1..Len(obj) : obj'[o].executable => o \in announced'
    <2>1. CASE onHead[c]
      <3>1. obj' = [obj EXCEPT ![mine[c]] = [obj[mine[c]] EXCEPT !.executable = executable[c]]]
        BY <2>1 DEF AddFlag
      <3>2. executable[c] => mine[c] \in announced'
        BY <2>1, Zenon DEF AddFlag
      <3>3. obj[mine[c]] \in Object
        BY <1>1, Facts
      <3>4. Len(obj') = Len(obj) /\ \A o \in 1..Len(obj) : o # mine[c] => obj'[o] = obj[o]
        BY <1>1, <3>1
      <3>5. /\ obj'[mine[c]].tx = obj[mine[c]].tx /\ obj'[mine[c]].local = obj[mine[c]].local
            /\ obj'[mine[c]].executable = executable[c]
        BY <1>1, <3>1, <3>3, SMTT(60) DEF Object
      <3>6. Len(obj) <= Len(obj')
        BY <1>1, <3>4
      <3>7. Kept
        BY <1>1, <3>4, <3>5, <3>6, Zenon DEF Kept
      <3>8. \A o \in 1..Len(obj) : obj'[o].executable => o \in announced'
        BY <1>0, <3>2, <3>4, <3>5, Zenon DEF JInv, Told
      <3>9. QED
        BY <3>4, <3>7, <3>8
    <2>2. CASE ~onHead[c]
      <3>1. UNCHANGED <<obj, announced>>
        BY <2>2, Zenon DEF AddFlag
      <3>2. QED
        BY <3>1, ObjKept, Zenon DEF JInv, Told
    <2>3. QED
      BY <2>1, <2>2, SMTT(60)
  <1>3. Sized'
    BY <1>0, <1>1, <1>2, Zenon DEF JInv, Sized
  <1>4. Unpooled'
    <2>1. \A d \in Callers : pc[d] = "checked" => \A t \in Txs : mapByHash'[t] # mine[d]
      BY <1>0, Zenon DEF JInv, Unpooled
    <2>2. "flagged" # "checked" /\ wash'.all = wash.all /\ Unpooled /\ mine' = mine
      BY <1>0 DEF JInv
    <2>3. QED
      BY <1>0, <2>1, <2>2, UnpooledKept, ZenonT(60)
  <1>5. Bounded'
    <2>1. Over' \subseteq Over
      BY <1>0, <1>2, OverShrinks, Zenon DEF JInv
    <2>2. QED
      BY <1>0, <2>1, LimitKept, Zenon DEF JInv
  <1>6. Told'
    BY <1>0, <1>2, Zenon DEF JInv, Told
  <1>7. QED
    BY <1>3, <1>4, <1>5, <1>6, Zenon DEF JInv

\* Counting an added transaction keeps it.
LEMMA AddCountJInv ==
  ASSUME IInv, JInv, NEW c \in Callers, AddCount(c)
  PROVE  JInv'
  <1>0. /\ UNCHANGED <<obj, mapByHash, wash, executables, announced, fills>>
        /\ pc' = [pc EXCEPT ![c] = "idle"] /\ mine' = [mine EXCEPT ![c] = 0]
    BY Zenon DEF AddCount, map, used
  <1>1. Sized' /\ Told'
    BY <1>0, Zenon DEF JInv, Sized, Told
  <1>2. Unpooled'
    <2>1. \A d \in Callers : pc[d] = "checked" => \A t \in Txs : mapByHash'[t] # mine[d]
      BY <1>0, Zenon DEF JInv, Unpooled
    <2>2. "idle" # "checked" /\ wash'.all = wash.all /\ Unpooled
      BY <1>0, SMTT(60) DEF JInv
    <2>3. \A d \in Callers : d # c => mine'[d] = mine[d]
      BY <1>0, Facts
    <2>4. QED
      BY <1>0, <2>1, <2>2, <2>3, UnpooledKept, ZenonT(60)
  <1>3. Bounded'
    <2>1. Over' = Over
      BY <1>0, Zenon DEF Over
    <2>2. QED
      BY <1>0, <2>1, LimitKept, Zenon DEF JInv
  <1>4. QED
    BY <1>1, <1>2, <1>3, Zenon DEF JInv

\* Callers do not see a wash that looks at no object but those in the map.
LEMMA UnpooledAside ==
  ASSUME Unpooled, UNCHANGED <<pc, mine>>,
         \A o \in wash'.all : o \in wash.all \/ \E t \in Txs : o = mapByHash[t],
         \A t \in Txs : \A c \in Callers : pc[c] = "checked" /\ mapByHash'[t] = mine[c] => mapByHash[t] = mine[c]
  PROVE  Unpooled'
  BY Zenon DEF Unpooled

\* A tick that starts a wash keeps it.
LEMMA TickJInv ==
  ASSUME IInv, JInv, Tick
  PROVE  JInv'
  <1>0. UNCHANGED <<obj, mapByHash, executables, announced, fills, pc, mine>> /\ wash.phase = "idle"
    BY Zenon DEF Tick, map, used, call
  <1>1. /\ wash'.all = wash.all /\ wash'.offer = wash.offer /\ wash'.failed = wash.failed
        /\ wash'.phase \in {"idle", "washing"}
    <2>1. wash \in Washing
      BY Facts
    <2>2. \/ wash' = [wash EXCEPT !.head = head, !.verdict = verdict, !.phase = "washing"]
          \/ wash' = [wash EXCEPT !.head = head]
      BY Zenon DEF Tick
    <2>3. CASE wash' = [wash EXCEPT !.head = head, !.verdict = verdict, !.phase = "washing"]
      BY <2>1, <2>3 DEF Washing
    <2>4. CASE wash' = [wash EXCEPT !.head = head]
      BY <1>0, <2>1, <2>4 DEF Washing
    <2>5. QED
      BY <2>2, <2>3, <2>4, SMTT(60)
  <1>2. Sized'
    BY <1>0, <1>1, Zenon DEF JInv, Sized
  <1>3. Unpooled'
    BY <1>0, <1>1, UnpooledAside, Zenon DEF JInv
  <1>4. Bounded'
    <2>1. ~wash.failed
      BY <1>0 DEF JInv, Bounded
    <2>2. wash'.phase \notin {"offering", "removing"}
      BY <1>1
    <2>3. QED
      BY <1>1, <2>1, <2>2, Zenon DEF Bounded
  <1>5. Told'
    <2>1. wash'.phase # "removing"
      BY <1>1
    <2>2. QED
      BY <1>0, <2>1, Zenon DEF JInv, Told
  <1>6. QED
    BY <1>2, <1>3, <1>4, <1>5, Zenon DEF JInv

\* Arithmetic of the number of transactions a wash keeps.
LEMMA LeastBounds ==
  ASSUME NEW m \in Nat, NEW n \in Nat
  PROVE  least(m, n) <= n /\ least(m, n) \in Nat
  BY SMTT(60) DEF least

\* The executables and the others a wash keeps are no more than Limit together.
LEMMA KeptWithinLimit ==
  ASSUME NEW A, IsFiniteSet(A), NEW B, IsFiniteSet(B), NEW keep \in Cut(A), NEW others \in Rest(B, keep)
  PROVE  IsFiniteSet(keep \cup others) /\ Cardinality(keep \cup others) <= Limit
  <1>1. Limit \in Nat /\ Cardinality(A) \in Nat /\ Cardinality(B) \in Nat
    BY TxPoolAssumption, FS_CardinalityType
  <1>2. keep \subseteq A /\ Cardinality(keep) = least(Cardinality(A), Limit)
    BY Zenon DEF Cut
  <1>3. others \subseteq B /\ Cardinality(others) = least(Cardinality(B), Limit - Cardinality(keep))
    BY Zenon DEF Rest
  <1>4. IsFiniteSet(keep) /\ IsFiniteSet(others)
    BY <1>2, <1>3, FS_Subset, SMTT(60)
  <1>5. Cardinality(keep) \in Nat /\ Cardinality(keep) <= Limit
    BY <1>1, <1>2, LeastBounds, SMTT(60)
  <1>6. Limit - Cardinality(keep) \in Nat
    BY <1>1, <1>5, SMTT(60)
  <1>7. Cardinality(others) \in Nat /\ Cardinality(others) <= Limit - Cardinality(keep)
    BY <1>1, <1>3, <1>6, LeastBounds, SMTT(60)
  <1>8. IsFiniteSet(keep \cup others)
        /\ Cardinality(keep \cup others) = Cardinality(keep) + Cardinality(others) - Cardinality(keep \cap others)
    BY <1>4, FS_Union, SMTT(60)
  <1>9. Cardinality(keep \cap others) \in Nat
    BY <1>4, FS_Intersection, FS_CardinalityType, Zenon
  <1>10. QED
    BY <1>1, <1>5, <1>7, <1>8, <1>9, SMTT(60)

\* Sorting the snapshot into what stays, what is offered and what goes keeps it.
LEMMA WashJInv ==
  ASSUME IInv, JInv, Wash
  PROVE  JInv'
  <1> DEFINE all == { mapByHash[t] : t \in Pooled }
             of(v) == { o \in all : wash.verdict[obj[o].tx] = v }
             local == { o \in all : obj[o].local }
             out == { o \in all : Origin[obj[o].tx] \in blocked }
             gone(expired) == out \cup expired \cup of("bad")
             runs(expired) == of("executable") \ gone(expired)
             rest(expired) == of("pending") \ gone(expired)
  <1>0. UNCHANGED <<obj, mapByHash, executables, announced, fills, pc, mine>> /\ wash.phase = "washing"
    BY Zenon DEF Wash, map, call
  <1>1. wash \in Washing /\ ~wash.failed
    BY <1>0, Facts DEF JInv, Bounded
  <1>2. all \subseteq 1..Len(obj) /\ IsFiniteSet(all)
    <2>1. all \subseteq 1..Len(obj)
      BY Facts DEF Pooled
    <2>2. IsFiniteSet(1..Len(obj))
      BY Facts, FS_Interval
    <2> HIDE DEF all
    <2>3. QED
      BY <2>1, <2>2, FS_Subset, ZenonT(60)
  <1>3. \A o \in all : \E t \in Txs : o = mapByHash[t]
    BY DEF Pooled
  <1> DEFINE Good == /\ wash'.all = all /\ wash'.offer \subseteq 1..Len(obj)
                     /\ wash'.phase \in {"offering", "removing"}
                     /\ wash'.phase = "removing" => wash'.failed
                     /\ Cardinality(Over') <= Limit
  <1>4. ASSUME NEW expired \in SUBSET (all \ local),
               NEW keep \in Cut(runs(expired) \ local),
               NEW others \in Rest(rest(expired) \ local, keep),
               wash' = [wash EXCEPT !.phase = "offering", !.all = all,
                          !.offer = keep \cup (runs(expired) \cap local),
                          !.toRemove = all \ (keep \cup others \cup ((runs(expired) \cup rest(expired)) \cap local))]
        PROVE  Good
    <2> DEFINE A == runs(expired) \ local
               B == rest(expired) \ local
               L == (runs(expired) \cup rest(expired)) \cap local
               offer == keep \cup (runs(expired) \cap local)
    <2>1. A \subseteq all /\ B \subseteq all /\ L \subseteq local /\ runs(expired) \subseteq all
      BY Zenon
    <2>2. \A o \in L : obj[o].local
      BY Zenon
    <2>3. keep \in Cut(A) /\ others \in Rest(B, keep)
      BY Zenon
    <2>4. wash' = [wash EXCEPT !.phase = "offering", !.all = all, !.offer = offer, !.toRemove = all \ (keep \cup others \cup L)]
      BY Zenon, <1>4
    <2>5. keep \subseteq A
      BY Zenon DEF Cut
    <2>6. offer \subseteq 1..Len(obj)
      BY <1>2, <2>1, <2>5, Zenon
    <2> HIDE DEF all, of, local, out, gone, runs, rest, A, B, L, offer
    <2>7. /\ wash'.all = all /\ wash'.offer = offer /\ wash'.phase = "offering"
          /\ wash'.failed = wash.failed /\ wash'.toRemove = all \ (keep \cup others \cup L)
      BY <1>1, <2>4, SMTT(60) DEF Washing
    <2>8. Over' \subseteq keep \cup others
      <3> SUFFICES ASSUME NEW o \in Over' PROVE o \in keep \cup others
        OBVIOUS
      <3>1. o \in all /\ o \notin all \ (keep \cup others \cup L) /\ ~obj[o].local
        BY <1>0, <1>1, <2>7, Zenon DEF Over
      <3>2. QED
        BY <2>2, <3>1, SMTT(60)
    <2>9. IsFiniteSet(A) /\ IsFiniteSet(B)
      BY <1>2, <2>1, FS_Subset, ZenonT(60)
    <2>10. IsFiniteSet(keep \cup others) /\ Cardinality(keep \cup others) <= Limit
      BY <2>3, <2>9, KeptWithinLimit
    <2>11. Cardinality(Over') <= Limit
      <3>1. IsFiniteSet(Over') /\ Cardinality(Over') <= Cardinality(keep \cup others)
        BY <2>8, <2>10, FS_Subset, Zenon
      <3>2. Cardinality(Over') \in Nat /\ Cardinality(keep \cup others) \in Nat
        BY <2>10, <3>1, FS_CardinalityType, Zenon
      <3>3. QED
        BY <2>10, <3>1, <3>2, TxPoolAssumption, SMTT(60)
    <2>12. QED
      BY <2>6, <2>7, <2>11
  <1>5. ASSUME NEW cut \in SUBSET all, Cardinality(all \ cut) = least(Cardinality(all), Limit),
               wash' = [wash EXCEPT !.phase = "removing", !.all = all, !.toRemove = cut, !.failed = TRUE]
        PROVE  Good
    <2> HIDE DEF all
    <2>1. /\ wash'.all = all /\ wash'.offer = wash.offer /\ wash'.phase = "removing"
          /\ wash'.failed /\ wash'.toRemove = cut
      BY <1>1, <1>5, SMTT(60) DEF Washing
    <2>2. wash.offer \subseteq 1..Len(obj)
      BY DEF JInv, Sized
    <2>3. Over' \subseteq all \ cut
      BY <2>1, Zenon DEF Over
    <2>4. IsFiniteSet(all \ cut)
      BY <1>2, FS_Subset, SMTT(60)
    <2>5. Cardinality(Over') <= Limit
      <3>1. IsFiniteSet(Over') /\ Cardinality(Over') <= Cardinality(all \ cut)
        BY <2>3, <2>4, FS_Subset, Zenon
      <3>2. Cardinality(Over') \in Nat /\ Cardinality(all \ cut) \in Nat /\ Cardinality(all) \in Nat
        BY <1>2, <2>4, <3>1, FS_CardinalityType, Zenon
      <3>3. Limit \in Nat /\ Cardinality(all \ cut) <= Limit
        BY <1>5, <3>2, LeastBounds, TxPoolAssumption, SMTT(60)
      <3>4. QED
        BY <3>1, <3>2, <3>3, SMTT(60)
    <2>6. QED
      BY <2>1, <2>2, <2>5, SMTT(60)
  <1>6. Good
    BY <1>4, <1>5, Zenon DEF Wash
  <1> HIDE DEF all
  <1>7. Sized'
    BY <1>0, <1>2, <1>6, Zenon DEF JInv, Sized
  <1>8. Unpooled'
    <2>1. \A o \in wash'.all : o \in wash.all \/ \E t \in Txs : o = mapByHash[t]
      BY <1>3, <1>6, Zenon
    <2>2. QED
      BY <1>0, <2>1, UnpooledAside, Zenon DEF JInv
  <1>9. Bounded'
    <2>1. wash'.phase \notin {"idle", "washing"}
      BY <1>6
    <2>2. QED
      BY <1>6, <2>1, Zenon DEF Bounded
  <1>10. Told'
    BY <1>0, <1>6, Zenon DEF JInv, Told
  <1>11. QED
    BY <1>7, <1>8, <1>9, <1>10, Zenon DEF JInv

\* Announcing and offering keep it.
LEMMA OfferJInv ==
  ASSUME IInv, JInv, Offer
  PROVE  JInv'
  <1> DEFINE toBroadcast == { o \in wash.offer : ~obj[o].executable \/ obj[o].local }
             flag(o) == obj[o].executable \/ o \in toBroadcast
  <1>0. /\ UNCHANGED <<mapByHash, executables, fills, pc, mine>> /\ wash.phase = "offering"
        /\ wash' = [wash EXCEPT !.phase = "removing"] /\ announced' = announced \cup toBroadcast
    BY Zenon DEF Offer, map, call, used
  <1>1. Len(obj) \in Nat /\ obj \in Seq(Object) /\ wash \in Washing
    BY Facts, SMTT(60)
  <1>2. /\ wash'.all = wash.all /\ wash'.offer = wash.offer /\ wash'.failed = wash.failed
        /\ wash'.phase = "removing" /\ wash'.toRemove = wash.toRemove
    BY <1>0, <1>1, SMTT(60) DEF Washing
  <1>3. /\ Kept /\ Len(obj') = Len(obj)
        /\ \A o \in 1..Len(obj) : obj'[o].executable => flag(o)
    <2>1. obj' = [o \in 1..Len(obj) |-> [obj[o] EXCEPT !.executable = flag(o)]]
      BY <1>1, SMTT(60) DEF Offer
    <2>2. \A o \in 1..Len(obj) : obj[o] \in Object
      BY Facts
    <2> HIDE DEF flag
    <2>3. \A o \in 1..Len(obj) : obj'[o].tx = obj[o].tx /\ obj'[o].local = obj[o].local /\ obj'[o].executable = flag(o)
      BY <2>1, <2>2 DEF Object
    <2>4. Len(obj') = Len(obj)
      BY <1>1, <2>1, SMTT(60)
    <2>5. Len(obj) <= Len(obj')
      BY <1>1, <2>4, SMTT(60)
    <2>6. QED
      BY <1>1, <2>3, <2>4, <2>5, Zenon DEF Kept
  <1>4. Sized'
    BY <1>0, <1>2, <1>3, Zenon DEF JInv, Sized
  <1>5. Unpooled'
    BY <1>0, <1>2, UnpooledAside, Zenon DEF JInv
  <1>6. Bounded'
    <2>1. Over' \subseteq Over
      BY <1>0, <1>2, <1>3, OverShrinks, Zenon DEF JInv
    <2>2. wash'.phase \notin {"idle", "washing"} /\ wash.phase \in {"offering", "removing"}
      BY <1>0, <1>2
    <2>3. QED
      BY <1>2, <2>1, <2>2, LimitKept, Zenon DEF JInv
  <1>7. Told'
    <2>1. \A o \in 1..Len(obj) : obj[o].executable => o \in announced
      BY Zenon DEF JInv, Told
    <2>2. \A o \in 1..Len(obj) : obj'[o].executable => o \in announced'
      BY <1>0, <1>3, <2>1, Zenon
    <2>3. wash.offer \subseteq announced'
      BY <1>0, <2>1, Zenon DEF JInv, Sized
    <2>4. executables \subseteq announced'
      BY <1>0, Zenon DEF JInv, Told
    <2>5. QED
      BY <1>0, <1>2, <1>3, <2>2, <2>3, <2>4, Zenon DEF Told
  <1>8. QED
    BY <1>4, <1>5, <1>6, <1>7, Zenon DEF JInv

\* Removing one entry keeps it.
LEMMA WashOutJInv ==
  ASSUME IInv, JInv, NEW o \in wash.toRemove, WashOut(o)
  PROVE  JInv'
  <1>0. /\ UNCHANGED <<obj, executables, announced, fills, pc, mine>> /\ wash.phase = "removing"
        /\ wash' = [wash EXCEPT !.toRemove = @ \ {o}]
        /\ IF obj[o].tx \in Pooled THEN mapByHash' = [mapByHash EXCEPT ![obj[o].tx] = 0] ELSE mapByHash' = mapByHash
    BY Zenon DEF WashOut, call, used, map, RemoveByHash
  <1>1. wash \in Washing /\ mapByHash \in [Txs -> 0..Len(obj)] /\ o \in 1..Len(obj) /\ Len(obj) \in Nat
        /\ obj[o].tx \in Txs
    BY Facts
  <1>2. /\ wash'.all = wash.all /\ wash'.offer = wash.offer /\ wash'.failed = wash.failed
        /\ wash'.phase = "removing" /\ wash'.toRemove = wash.toRemove \ {o}
    BY <1>0, <1>1 DEF Washing
  <1>3. mapByHash'[obj[o].tx] = 0 /\ \A t \in Txs : mapByHash'[t] = mapByHash[t] \/ mapByHash'[t] = 0
    BY <1>0, <1>1 DEF Pooled
  <1>4. Sized' /\ Told'
    BY <1>0, <1>2, Zenon DEF JInv, Sized, Told
  <1>5. Unpooled'
    <2>1. \A c \in Callers : pc[c] = "checked" => mine[c] # 0
      BY Facts
    <2>2. QED
      BY <1>0, <1>2, <1>3, <2>1, UnpooledAside, Zenon DEF JInv
  <1>6. Bounded'
    <2>0. o # 0 /\ 0 \notin 1..Len(obj)
      BY <1>1
    <2>1. \A p \in wash.all : mapByHash'[obj[p].tx] = p /\ p \notin wash'.toRemove =>
                               mapByHash[obj[p].tx] = p /\ p \notin wash.toRemove
      <3> SUFFICES ASSUME NEW p \in wash.all, mapByHash'[obj[p].tx] = p, p \notin wash'.toRemove
                   PROVE  mapByHash[obj[p].tx] = p /\ p \notin wash.toRemove
        OBVIOUS
      <3>1. p \in 1..Len(obj)
        BY Zenon DEF JInv, Sized
      <3>2. obj[p].tx \in Txs /\ p # 0
        BY <2>0, <3>1, Facts
      <3>3. p # o
        BY <1>3, <2>0, Zenon
      <3>4. QED
        BY <1>2, <1>3, <3>2, <3>3, Zenon
    <2>2. Kept
      BY <1>0, ObjKept, Zenon
    <2>3. Over' \subseteq Over
      BY <1>2, <2>1, <2>2, OverShrinks, Zenon DEF JInv
    <2>4. wash'.phase \notin {"idle", "washing"} /\ wash.phase \in {"offering", "removing"}
      BY <1>0, <1>2
    <2>5. QED
      BY <1>2, <2>3, <2>4, LimitKept, Zenon DEF JInv
  <1>7. QED
    BY <1>4, <1>5, <1>6, Zenon DEF JInv

\* Storing the executables ends the wash within the limit.
LEMMA StoreJInv ==
  ASSUME IInv, JInv, Store
  PROVE  JInv'
  <1>0. /\ UNCHANGED <<obj, mapByHash, announced, fills, pc, mine>> /\ wash.phase = "removing"
        /\ executables' = (IF wash.failed THEN executables ELSE wash.offer)
        /\ wash' = [idleWash EXCEPT !.head = wash.head]
    BY Zenon DEF Store, call, used, map
  <1>1. wash'.all = {} /\ wash'.offer = {} /\ ~wash'.failed /\ wash'.phase = "idle"
    BY <1>0 DEF idleWash
  <1>2. executables' \subseteq announced
    BY <1>0, Zenon DEF JInv, Told
  <1>3. Sized'
    BY <1>0, <1>1, <1>2, Zenon DEF JInv, Sized
  <1>4. Unpooled'
    BY <1>0, <1>1, UnpooledAside, Zenon DEF JInv
  <1>5. Bounded' /\ Told'
    <2>1. wash'.phase \notin {"offering", "removing"} /\ wash'.phase # "removing"
      BY <1>1
    <2>2. Bounded'
      BY <1>1, <2>1, Zenon DEF Bounded
    <2>3. Told'
      BY <1>0, <1>2, <2>1, Zenon DEF JInv, Told
    <2>4. QED
      BY <2>2, <2>3, SMTT(60)
  <1>6. QED
    BY <1>3, <1>4, <1>5, Zenon DEF JInv

\* Remove of a transaction keeps it, even one the wash holds.
LEMMA RemoveJInv ==
  ASSUME IInv, JInv, NEW t \in Txs, Remove(t)
  PROVE  JInv'
  <1>0. /\ UNCHANGED <<obj, executables, announced, fills, pc, mine, wash>>
        /\ mapByHash' = [mapByHash EXCEPT ![t] = 0]
    BY Zenon DEF Remove, call, used, RemoveByHash
  <1>1. \A u \in Txs : mapByHash'[u] = mapByHash[u] \/ mapByHash'[u] = 0
    BY <1>0, Facts
  <1>2. Kept /\ fills' \in Nat
    BY <1>0, ObjKept, Zenon DEF JInv, Sized
  <1>3. QED
    BY <1>0, <1>1, <1>2, StillJInv, Zenon

\* Fill keeps it and is counted.
LEMMA FillJInv ==
  ASSUME IInv, JInv, NEW n \in FillLens, NEW txs \in [1..n -> Txs], Fill(txs)
  PROVE  JInv' /\ fills' # fills
  <1> DEFINE added == [i \in 1..n |-> [tx |-> txs[i], local |-> FALSE, executable |-> FALSE]]
  <1>0. n \in Nat /\ DOMAIN txs = 1..n
    BY DEF FillLens
  <1>1. UNCHANGED <<executables, announced, pc, mine, wash>> /\ fills' = fills + 1
    BY Zenon DEF Fill, call
  <1>2. fills' \in Nat /\ fills' # fills
    BY <1>1, SMTT(60) DEF JInv, Sized
  <1>3. obj' = obj \o added
    BY <1>0, SMTT(60) DEF Fill
  <1>4. Len(obj) \in Nat /\ obj \in Seq(Object)
    BY Facts, SMTT(60)
  <1>5. added \in Seq(Object) /\ Len(added) = n
    <2>1. \A i \in 1..n : added[i] \in Object
      BY SMTT(60) DEF Object
    <2>2. added \in [1..n -> Object]
      BY <2>1, SMTT(60)
    <2>3. QED
      BY <1>0, <2>2, SMTT(60)
  <1>6. \A i \in 1..n : ~added[i].executable
    OBVIOUS
  <1> HIDE DEF added
  <1>7. Len(obj') = Len(obj) + n /\ \A o \in 1..Len(obj) : obj'[o] = obj[o]
    BY <1>3, <1>4, <1>5, ObjectsJoined, Zenon
  <1>8. \A i \in 1..n : obj'[Len(obj) + i] = added[i]
    BY <1>0, <1>3, <1>4, <1>5, SMTT(60)
  <1>9. Kept
    <2>1. Len(obj') \in Nat /\ Len(obj) <= Len(obj')
      BY <1>0, <1>4, <1>7, SMTT(60)
    <2>2. QED
      BY <1>7, <2>1, Zenon DEF Kept
  <1>10. \A o \in 1..Len(obj') : obj'[o].executable => o \in 1..Len(obj) /\ obj[o].executable
    <2> TAKE o \in 1..Len(obj')
    <2>1. CASE o \in 1..Len(obj)
      BY <1>7, <2>1, Zenon
    <2>2. CASE o \notin 1..Len(obj)
      <3>1. o - Len(obj) \in 1..n /\ Len(obj) + (o - Len(obj)) = o
        BY <1>0, <1>4, <1>7, <2>2, SMTT(60)
      <3>2. QED
        BY <1>6, <1>8, <3>1, Zenon
    <2>3. QED
      BY <2>1, <2>2, SMTT(60)
  <1>11. ASSUME NEW t \in Txs PROVE mapByHash'[t] = mapByHash[t] \/ mapByHash'[t] > Len(obj)
    <2>1. mapByHash'[t] = IF t \in Fresh(txs) THEN Len(obj) + Position(txs, t) ELSE mapByHash[t]
      BY SMTT(60) DEF Fill
    <2>2. CASE t \in Fresh(txs)
      <3>1. \E i \in New(txs) : txs[i] = t
        BY <2>2 DEF Fresh
      <3>2. Position(txs, t) \in New(txs)
        BY <3>1, SMTT(60) DEF Position
      <3>3. Position(txs, t) \in 1..n
        BY <1>0, <3>2 DEF New
      <3>4. QED
        BY <1>0, <1>4, <2>1, <2>2, <3>3, SMTT(60)
    <2>3. QED
      BY <2>1, <2>2, SMTT(60)
  <1>12. JInv'
    BY <1>1, <1>2, <1>9, <1>10, <1>11, StillJInv, Zenon
  <1>13. QED
    BY <1>2, <1>12

\* An idle housekeeping satisfies it.
LEMMA InitJInv == Init => JInv
  <1> SUFFICES ASSUME Init PROVE JInv
    OBVIOUS
  <1>1. obj = <<>> /\ Len(obj) = 0 /\ 1..Len(obj) = {}
    BY SMTT(60) DEF Init
  <1>2. /\ wash.all = {} /\ wash.offer = {} /\ wash.phase = "idle" /\ ~wash.failed
        /\ wash.phase \notin {"offering", "removing"} /\ wash.phase # "removing"
    BY SMTT(60) DEF Init, idleWash
  <1>3. executables = {} /\ announced = {} /\ fills \in Nat /\ \A c \in Callers : pc[c] # "checked"
    BY DEF Init
  <1>4. QED
    BY <1>1, <1>2, <1>3, ZenonT(60) DEF JInv, Sized, Unpooled, Bounded, Told

\* Every step keeps it.
LEMMA StepJInv == IInv /\ JInv /\ [Next]_vars => JInv'
  <1> SUFFICES ASSUME IInv, JInv, [Next]_vars PROVE JInv'
    OBVIOUS
  <1>1. ASSUME NEW c \in Callers, NEW t \in Txs, NEW method \in Methods, AddCheck(c, t, method) PROVE JInv'
    BY <1>1, AddCheckJInv, SMTT(60)
  <1>2. ASSUME NEW c \in Callers, AddToMap(c) \/ AddFlag(c) \/ AddCount(c) PROVE JInv'
    BY <1>2, AddToMapJInv, AddFlagJInv, AddCountJInv, SMTT(60)
  <1>3. ASSUME NEW t \in Txs, Remove(t) PROVE JInv'
    BY <1>3, RemoveJInv, SMTT(60)
  <1>4. ASSUME NEW n \in FillLens, NEW txs \in [1..n -> Txs], Fill(txs) PROVE JInv'
    BY <1>4, FillJInv
  <1>5. ASSUME UNCHANGED <<obj, mapByHash, executables, announced, pc, mine, wash, fills>> PROVE JInv'
    <2>1. Kept /\ fills' \in Nat
      BY <1>5, ObjKept, Zenon DEF JInv, Sized
    <2>2. QED
      BY <1>5, <2>1, StillJInv, Zenon
  <1>6. ASSUME NewHead \/ Stall \/ \E list \in SUBSET Origins : Fetch(list) PROVE JInv'
    BY <1>5, <1>6, Zenon DEF NewHead, Stall, Fetch, map, call, used
  <1>7. CASE UNCHANGED vars
    BY <1>5, <1>7, Zenon DEF vars, map, call, used
  <1>8. ASSUME Tick \/ Wash \/ Offer \/ Store PROVE JInv'
    BY <1>8, TickJInv, WashJInv, OfferJInv, StoreJInv, SMTT(60)
  <1>9. ASSUME NEW o \in wash.toRemove, WashOut(o) PROVE JInv'
    BY <1>9, WashOutJInv
  <1>10. QED
    BY <1>1, <1>2, <1>3, <1>4, <1>6, <1>7, <1>8, <1>9, ZenonT(60) DEF Next

\* When a wash is through, the objects it looked at that are left and count against
\* the limit are no more than Limit, whatever callers and the packer did meanwhile.
THEOREM WashStaysWithinLimit == Spec => []WashKeepsLimit
  <1>1. ASSUME IInv, JInv PROVE WashKeepsLimit
    <2>1. TypeOK
      <3>1. DOMAIN obj = 1..Len(obj)
        BY <1>1, Facts
      <3>2. \A o \in DOMAIN obj : obj[o] \in [tx : Txs, local : BOOLEAN, executable : BOOLEAN]
        BY <1>1, <3>1, Facts, Zenon DEF Object
      <3>3. executables \cup announced \subseteq DOMAIN obj
        BY <1>1, <3>1, Zenon DEF JInv, Sized
      <3>4. wash.all \cup wash.toRemove \cup wash.offer \subseteq DOMAIN obj
        <4>1. wash.toRemove \subseteq 1..Len(obj)
          BY <1>1, Facts, Zenon
        <4>2. QED
          BY <1>1, <3>1, <4>1, Zenon DEF JInv, Sized
      <3>5. QED
        BY <1>1, <3>2, <3>3, <3>4, Zenon DEF TypeOK, IInv, MapInv, MapTyped
    <2>2. ASSUME wash.phase = "removing", wash.toRemove = {}
          PROVE  Cardinality({ o \in { p \in wash.all : mapByHash[obj[p].tx] = p } : wash.failed \/ ~obj[o].local }) <= Limit
      <3>1. { o \in { p \in wash.all : mapByHash[obj[p].tx] = p } : wash.failed \/ ~obj[o].local } = Over
        BY <2>2, Zenon DEF Over
      <3>2. wash.phase \in {"offering", "removing"}
        BY <2>2
      <3>3. QED
        BY <1>1, <3>1, <3>2, Zenon DEF JInv, Bounded
    <2>3. QED
      BY <2>1, <2>2, Zenon DEF WashKeepsLimit
  <1>2. QED
    BY InitIInv, StepIInv, InitJInv, StepJInv, <1>1, PTL DEF Spec

\* Whatever the packer is offered was announced, though add and the wash both write
\* the flag that keeps a transaction from being announced twice.
THEOREM OfferedStaysAnnounced == Spec => []OfferedIsAnnounced
  <1>1. JInv => OfferedIsAnnounced
    BY DEF JInv, Told, OfferedIsAnnounced
  <1>2. QED
    BY InitIInv, StepIInv, InitJInv, StepJInv, <1>1, PTL DEF Spec

-----------------------------------------------------------------------------
(* The limit per account. *)

\* No step but Fill takes an account that is over its limit further above it.
LEMMA StepAccount ==
  ASSUME IInv, IInv', JInv, [Next]_vars, fills' = fills, NEW a \in Origins, InPool(a)' > LimitPerAccount
  PROVE  InPool(a)' <= InPool(a)
  <1>0. /\ InPool(a) = quota[a] /\ InPool(a)' = quota'[a]
        /\ quota \in [Origins -> Nat] /\ quota' \in [Origins -> Nat]
    BY Zenon DEF IInv, MapInv, MapTyped, QuotaExact
  <1> SUFFICES quota'[a] <= quota[a]
    BY <1>0, Zenon
  <1>1. ASSUME UNCHANGED quota PROVE quota'[a] <= quota[a]
    BY <1>0, <1>1, SMTT(60)
  <1>2. ASSUME NEW t \in Txs, RemoveByHash(t) PROVE quota'[a] <= quota[a]
    <2>1. quota' = [quota EXCEPT ![Origin[t]] = IF @ > 1 THEN @ - 1 ELSE 0] /\ Origin[t] \in Origins
      BY <1>2, TxPoolAssumption, Zenon DEF RemoveByHash
    <2>2. QED
      BY <1>0, <2>1
  <1>3. ASSUME NEW c \in Callers, AddToMap(c) PROVE quota'[a] <= quota[a]
    <2> DEFINE t == obj[mine[c]].tx
    <2>1. CASE UNCHANGED map
      BY <1>1, <2>1, Zenon DEF map
    <2>2. CASE quota[Origin[t]] < LimitPerAccount /\ InsertObj(mine[c], t)
      <3>1. quota' = [quota EXCEPT ![Origin[t]] = @ + 1]
        BY <2>2, Zenon DEF InsertObj
      <3> HIDE DEF t
      <3>2. a # Origin[t]
        <4>1. SUFFICES ASSUME a = Origin[t] PROVE FALSE
          OBVIOUS
        <4>2. quota'[a] = quota[a] + 1
          BY <1>0, <3>1, <4>1
        <4>3. quota[a] < LimitPerAccount /\ quota'[a] > LimitPerAccount
          BY <1>0, <2>2, <4>1, Zenon
        <4>4. QED
          BY <1>0, <4>2, <4>3, TxPoolAssumption, SMTT(60)
      <3>3. QED
        BY <1>0, <3>1, <3>2
    <2>3. QED
      BY <1>3, <2>1, <2>2, ZenonT(60) DEF AddToMap
  <1>4. ASSUME NEW t \in Txs, Remove(t) PROVE quota'[a] <= quota[a]
    BY <1>2, <1>4, Zenon DEF Remove
  <1>5. ASSUME NEW o \in wash.toRemove, WashOut(o) PROVE quota'[a] <= quota[a]
    <2>1. CASE obj[o].tx \in Pooled
      <3>1. RemoveByHash(obj[o].tx) /\ obj[o].tx \in Txs
        BY <1>5, <2>1, Zenon DEF WashOut, Pooled
      <3>2. QED
        BY <1>2, <3>1, Zenon
    <2>2. CASE obj[o].tx \notin Pooled
      BY <1>1, <1>5, <2>2, Zenon DEF WashOut, map
    <2>3. QED
      BY <2>1, <2>2
  <1>6. ASSUME NEW n \in FillLens, NEW txs \in [1..n -> Txs], Fill(txs) PROVE FALSE
    BY <1>6, FillJInv, SMTT(60)
  <1>7. ASSUME NEW c \in Callers, (\E t \in Txs, method \in Methods : AddCheck(c, t, method)) \/ AddFlag(c) \/ AddCount(c)
        PROVE  quota'[a] <= quota[a]
    <2>1. UNCHANGED quota
      BY <1>7, ZenonT(60) DEF AddCheck, AddFlag, AddCount, map
    <2>2. QED
      BY <1>1, <2>1
  <1>8. ASSUME NewHead \/ Stall \/ (\E list \in SUBSET Origins : Fetch(list)) \/ Tick \/ Wash \/ Offer \/ Store
        PROVE  quota'[a] <= quota[a]
    <2>1. UNCHANGED quota
      BY <1>8, ZenonT(60) DEF NewHead, Stall, Fetch, Tick, Wash, Offer, Store, map
    <2>2. QED
      BY <1>1, <2>1
  <1>9. CASE UNCHANGED vars
    BY <1>1, <1>9, Zenon DEF vars, map
  <1>10. QED
    BY <1>3, <1>4, <1>5, <1>6, <1>7, <1>8, <1>9, ZenonT(60) DEF Next

\* No step but Fill takes an account above LimitPerAccount: callers that checked it
\* at the same time do not add past it together.
THEOREM AccountStaysLimited == Spec => AccountLimited
  <1>1. IInv /\ IInv' /\ JInv /\ [Next]_vars =>
          [fills' = fills => \A a \in Origins : InPool(a)' > LimitPerAccount => InPool(a)' <= InPool(a)]_vars
    BY StepAccount, Zenon
  <1>2. QED
    BY InitIInv, StepIInv, InitJInv, StepJInv, <1>1, PTL DEF Spec, AccountLimited
=============================================================================
