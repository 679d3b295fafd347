-------------------------- MODULE StackedMapProofs --------------------------
(***************************************************************************)
(* The map with save points, and the two walks over its levels.            *)
(*                                                                         *)
(* stackedmap keeps its revision index exact under every operation, so     *)
(* that Get answers what a walk down the levels would find, and Pop brings *)
(* back the map there was before the Push.                                 *)
(***************************************************************************)
EXTENDS StateDB, TLAPS

LOCAL INSTANCE WellFoundedInduction

\* A new level holds no key.
LEMMA NewLevelTyped ==
  ASSUME NEW Key, NEW Value
  PROVE  newLevel \in Level(Key, Value) /\ DOMAIN newLevel.kvs = {}
  <1>1. EmptyMap \in [{} -> Value] /\ DOMAIN EmptyMap = {}
    BY DEF EmptyMap
  <1>2. EmptyMap \in UNION {[D -> Value] : D \in SUBSET Key}
    BY <1>1
  <1>3. << >> \in Seq(Key \X Value)
    OBVIOUS
  <1> QED
    BY <1>1, <1>2, <1>3, Zenon DEF newLevel, Level

\* The parts of a well-typed map.
LEMMA Parts ==
  ASSUME NEW Key, NEW Value, NEW sm \in StackedMaps(Key, Value)
  PROVE  /\ sm.mapStack \in Seq(Level(Key, Value))
         /\ Len(sm.mapStack) \in Nat
         /\ DOMAIN sm.mapStack = 1..Len(sm.mapStack)
         /\ \A r \in 1..Len(sm.mapStack) :
              /\ sm.mapStack[r] \in Level(Key, Value)
              /\ DOMAIN sm.mapStack[r].kvs \subseteq Key
              /\ sm.mapStack[r].kvs \in [DOMAIN sm.mapStack[r].kvs -> Value]
         /\ DOMAIN sm.keyRevisionMap \subseteq Key
         /\ sm.keyRevisionMap \in [DOMAIN sm.keyRevisionMap -> Seq(Nat)]
         /\ \A k \in DOMAIN sm.keyRevisionMap :
              sm.keyRevisionMap[k] \in Seq(Nat) /\ Len(sm.keyRevisionMap[k]) \in Nat
  <1>1. sm.mapStack \in Seq(Level(Key, Value)) /\ Len(sm.mapStack) \in Nat
        /\ DOMAIN sm.mapStack = 1..Len(sm.mapStack)
    BY DEF StackedMaps
  <1>2. ASSUME NEW r \in 1..Len(sm.mapStack)
        PROVE  /\ sm.mapStack[r] \in Level(Key, Value)
               /\ DOMAIN sm.mapStack[r].kvs \subseteq Key
               /\ sm.mapStack[r].kvs \in [DOMAIN sm.mapStack[r].kvs -> Value]
    <2>1. sm.mapStack[r] \in Level(Key, Value)
      BY <1>1
    <2>2. PICK D \in SUBSET Key : sm.mapStack[r].kvs \in [D -> Value]
      BY <2>1, Zenon DEF Level
    <2> QED
      BY <2>1, <2>2
  <1>3. PICK D \in SUBSET Key : sm.keyRevisionMap \in [D -> Seq(Nat)]
    BY DEF StackedMaps
  <1> QED
    BY <1>1, <1>2, <1>3

-----------------------------------------------------------------------------
\* The list of one level.
LEMMA ListsOne ==
  ASSUME NEW t \in Nat
  PROVE  Lists(<<t>>, {t})
  BY DEF Lists

\* The last of the list is the largest.
LEMMA ListsTop ==
  ASSUME NEW s \in Seq(Nat), NEW L, Lists(s, L)
  PROVE  Top(s) \in L /\ Top(s) \in Nat /\ \A r \in L : r <= Top(s)
  <1>1. Len(s) \in Nat /\ Len(s) > 0 /\ Len(s) \in 1..Len(s)
    BY DEF Lists
  <1>2. Top(s) \in L /\ Top(s) \in Nat
    BY <1>1 DEF Lists, Top
  <1>3. ASSUME NEW r \in L PROVE r <= Top(s)
    <2>1. PICK i \in 1..Len(s) : s[i] = r
      BY DEF Lists
    <2>2. i < Len(s) => s[i] < s[Len(s)]
      BY <1>1 DEF Lists
    <2>3. s[i] \in Nat /\ s[Len(s)] \in Nat /\ (i = Len(s) \/ i < Len(s))
      BY <1>1
    <2> QED
      BY <2>1, <2>2, <2>3 DEF Top
  <1> QED
    BY <1>2, <1>3

\* A level above all in the list is added at its end.
LEMMA ListsAppend ==
  ASSUME NEW s \in Seq(Nat), NEW L, NEW t \in Nat, Lists(s, L),
         L \subseteq 0..t, Top(s) # t
  PROVE  Lists(Append(s, t), L \cup {t})
  <1> DEFINE u == Append(s, t)
             m == Len(s)
  <1>1. m \in Nat /\ m > 0
    BY DEF Lists
  <1>2. Len(u) = m + 1 /\ u[m + 1] = t /\ \A i \in 1..m : u[i] = s[i]
    BY <1>1
  <1>3. \A i \in 1..m : s[i] \in Nat /\ s[i] < t
    <2>1. Top(s) \in L /\ Top(s) \in Nat /\ \A r \in L : r <= Top(s)
      BY ListsTop
    <2>2. Top(s) < t
      BY <2>1
    <2>3. \A i \in 1..m : s[i] \in L /\ s[i] \in Nat
      BY DEF Lists
    <2> QED
      BY <2>1, <2>2, <2>3
  <1> HIDE DEF u, m
  <1>4. \A i \in 1..Len(u) : u[i] \in L \cup {t}
    BY <1>1, <1>2 DEF Lists, m
  <1>5. ASSUME NEW r \in L \cup {t} PROVE \E i \in 1..Len(u) : u[i] = r
    <2>1. CASE r = t
      BY <2>1, <1>1, <1>2
    <2>2. CASE r # t
      <3>1. PICK i \in 1..m : s[i] = r
        BY <2>2 DEF Lists, m
      <3> QED
        BY <3>1, <1>1, <1>2
    <2> QED
      BY <2>1, <2>2
  <1>6. ASSUME NEW i \in 1..Len(u), NEW j \in 1..Len(u), i < j PROVE u[i] < u[j]
    <2>1. CASE j = m + 1
      BY <2>1, <1>1, <1>2, <1>3, <1>6
    <2>2. CASE j # m + 1
      <3>1. i \in 1..m /\ j \in 1..m
        BY <2>2, <1>1, <1>2, <1>6
      <3> QED
        BY <3>1, <1>2, <1>6 DEF Lists, m
    <2> QED
      BY <2>1, <2>2
  <1> QED
    BY <1>1, <1>2, <1>4, <1>5, <1>6, SMTT(60) DEF Lists, u

\* Without its last, the list lists the others.
LEMMA ListsPopped ==
  ASSUME NEW s \in Seq(Nat), NEW L, Lists(s, L)
  PROVE  /\ Len(s) = 1 => L = {Top(s)}
         /\ Len(s) > 1 => Lists(Popped(s), L \ {Top(s)}) /\ Popped(s) \in Seq(Nat)
  <1> DEFINE u == Popped(s)
             m == Len(s)
  <1>1. m \in Nat /\ m > 0
    BY DEF Lists
  <1>2. ASSUME m = 1 PROVE L = {Top(s)}
    BY <1>2 DEF Lists, Top
  <1>3. ASSUME m > 1 PROVE Lists(u, L \ {Top(s)}) /\ u \in Seq(Nat)
    <2>1. u \in Seq(Nat) /\ Len(u) = m - 1 /\ \A i \in 1..(m - 1) : u[i] = s[i]
      BY <1>1, <1>3 DEF Popped
    <2>2. \A i \in 1..(m - 1) : s[i] \in L /\ s[i] < s[m] /\ s[i] \in Nat /\ s[m] \in Nat
      BY <1>1, <1>3, SMTT(60) DEF Lists
    <2> HIDE DEF u
    <2>3. \A i \in 1..Len(u) : u[i] \in L \ {Top(s)}
      BY <1>1, <2>1, <2>2, SMTT(60) DEF Top
    <2>4. ASSUME NEW r \in L \ {Top(s)} PROVE \E i \in 1..Len(u) : u[i] = r
      <3>1. PICK i \in 1..m : s[i] = r
        BY DEF Lists
      <3>2. i # m
        BY <3>1 DEF Top
      <3>3. i \in 1..(m - 1)
        BY <1>1, <3>2
      <3>4. i \in 1..Len(u) /\ u[i] = r
        BY <2>1, <3>1, <3>3
      <3> QED
        BY <3>4
    <2>5. ASSUME NEW i \in 1..Len(u), NEW j \in 1..Len(u), i < j PROVE u[i] < u[j]
      <3>1. /\ i \in 1..(m - 1) /\ j \in 1..(m - 1)
            /\ i \in 1..m /\ j \in 1..m
        BY <1>1, <2>1, SMTT(60)
      <3>2. s[i] < s[j]
        BY <3>1, <2>5 DEF Lists
      <3> QED
        BY <2>1, <3>1, <3>2
    <2> QED
      BY <1>1, <1>3, <2>1, <2>3, <2>4, <2>5 DEF Lists
  <1> QED
    BY <1>2, <1>3

-----------------------------------------------------------------------------
\* A new map is indexed (New).
THEOREM NewIndexed == Indexed(New)
  <1>1. New.mapStack = <<newLevel>> /\ New.keyRevisionMap = EmptyMap
    BY DEF New
  <1>2. Depth(New) = 1 /\ New.mapStack[1] = newLevel
    BY <1>1 DEF Depth
  <1>3. DOMAIN newLevel.kvs = {} /\ DOMAIN EmptyMap = {}
    BY DEF newLevel, EmptyMap
  <1> QED
    BY <1>1, <1>2, <1>3 DEF Indexed

\* Push leaves the levels that hold a key as they are, and so the index exact.
THEOREM PushIndexed ==
  ASSUME NEW Key, NEW Value, NEW sm \in StackedMaps(Key, Value), Indexed(sm)
  PROVE  Push(sm) \in StackedMaps(Key, Value) /\ Indexed(Push(sm))
  <1> DEFINE pm == Push(sm)
             n  == Len(sm.mapStack)
  <1>1. /\ pm.mapStack = Append(sm.mapStack, newLevel)
        /\ pm.keyRevisionMap = sm.keyRevisionMap
    BY DEF Push, StackedMaps
  <1>2. pm \in StackedMaps(Key, Value)
    <2>1. Append(sm.mapStack, newLevel) \in Seq(Level(Key, Value))
      BY NewLevelTyped, Parts
    <2> QED
      BY <2>1, Zenon DEF Push, StackedMaps
  <1>3. DOMAIN newLevel.kvs = {}
    BY NewLevelTyped
  <1> HIDE DEF pm
  <1>4. /\ Depth(pm) = n + 1 /\ Depth(sm) = n /\ n \in Nat /\ n > 0
        /\ \A r \in 1..n : pm.mapStack[r] = sm.mapStack[r]
        /\ pm.mapStack[n + 1] = newLevel
    BY <1>1, Parts, NewLevelTyped DEF Depth, Indexed
  <1>5. ASSUME NEW k PROVE Levels(pm, k) = Levels(sm, k)
    <2>1. ASSUME NEW r \in 0..n PROVE r \in Levels(pm, k) <=> r \in Levels(sm, k)
      <3>1. CASE r = n
        BY <3>1, <1>3, <1>4 DEF Levels
      <3>2. CASE r # n
        BY <3>2, <1>4 DEF Levels
      <3> QED
        BY <3>1, <3>2
    <2>2. Levels(pm, k) \subseteq 0..n /\ Levels(sm, k) \subseteq 0..n
      BY <1>4 DEF Levels
    <2> QED
      BY <2>1, <2>2, Zenon
  <1>6. ASSUME NEW r \in 1..Depth(pm), NEW k \in DOMAIN pm.mapStack[r].kvs
        PROVE  k \in DOMAIN pm.keyRevisionMap
    <2>1. r # n + 1
      BY <1>3, <1>4
    <2>2. r \in 1..n /\ pm.mapStack[r] = sm.mapStack[r]
      BY <2>1, <1>4
    <2> QED
      BY <2>2, <1>1, <1>4 DEF Indexed
  <1>7. ASSUME NEW k \in DOMAIN pm.keyRevisionMap 
        PROVE  Lists(pm.keyRevisionMap[k], Levels(pm, k))
    BY <1>1, <1>5 DEF Indexed
  <1> QED
    BY <1>2, <1>4, <1>6, <1>7 DEF Indexed, pm

-----------------------------------------------------------------------------
\* Put adds the top level to the levels that hold the key, and the revision of that
\* level to the key's stack unless it is there already.
THEOREM PutIndexed ==
  ASSUME NEW Key, NEW Value, NEW sm \in StackedMaps(Key, Value), Indexed(sm),
         NEW key \in Key, NEW value \in Value
  PROVE  Put(sm, key, value) \in StackedMaps(Key, Value) /\ Indexed(Put(sm, key, value))
  <1> DEFINE pm   == Put(sm, key, value)
             n    == Len(sm.mapStack)
             revs == sm.keyRevisionMap
             kvs  == [k \in DOMAIN sm.mapStack[n].kvs \cup {key} |->
                        IF k = key THEN value ELSE sm.mapStack[n].kvs[k]]
             lvl  == [kvs |-> kvs, journal |-> Append(sm.mapStack[n].journal, <<key, value>>)]
             stack == IF key \notin DOMAIN revs THEN <<n - 1>>
                      ELSE IF Top(revs[key]) = n - 1 THEN revs[key]
                      ELSE Append(revs[key], n - 1)
  <1>1. n \in Nat /\ n > 0 /\ Depth(sm) = n
    BY Parts DEF Depth, Indexed
  <1>2. /\ pm.mapStack = [sm.mapStack EXCEPT ![n] = lvl]
        /\ pm.keyRevisionMap = [k \in DOMAIN revs \cup {key} |->
                                   IF k = key THEN stack ELSE revs[k]]
        /\ pm = [mapStack |-> pm.mapStack, keyRevisionMap |-> pm.keyRevisionMap]
    BY DEF Put, Top
  <1>3. lvl \in Level(Key, Value) /\ DOMAIN lvl.kvs = DOMAIN sm.mapStack[n].kvs \cup {key}
    <2>1. /\ sm.mapStack[n] \in Level(Key, Value)
          /\ DOMAIN sm.mapStack[n].kvs \subseteq Key
          /\ sm.mapStack[n].kvs \in [DOMAIN sm.mapStack[n].kvs -> Value]
      BY <1>1, Parts
    <2>2. /\ kvs \in [DOMAIN sm.mapStack[n].kvs \cup {key} -> Value]
          /\ DOMAIN sm.mapStack[n].kvs \cup {key} \in SUBSET Key
      BY <2>1
    <2>3. kvs \in UNION {[D -> Value] : D \in SUBSET Key}
      BY <2>2, Zenon
    <2>4. Append(sm.mapStack[n].journal, <<key, value>>) \in Seq(Key \X Value)
      BY <2>1 DEF Level
    <2> QED
      BY <2>2, <2>3, <2>4, Zenon DEF Level
  <1>4. stack \in Seq(Nat)
    BY <1>1, Parts
  <1>5. pm \in StackedMaps(Key, Value)
    <2> HIDE DEF lvl, stack
    <2>1. [sm.mapStack EXCEPT ![n] = lvl] \in Seq(Level(Key, Value))
      BY <1>1, <1>3, Parts
    <2>2. [k \in DOMAIN revs \cup {key} |-> IF k = key THEN stack ELSE revs[k]]
             \in [DOMAIN revs \cup {key} -> Seq(Nat)]
          /\ DOMAIN revs \cup {key} \in SUBSET Key
      BY <1>4, Parts
    <2>3. [k \in DOMAIN revs \cup {key} |-> IF k = key THEN stack ELSE revs[k]]
             \in UNION {[D -> Seq(Nat)] : D \in SUBSET Key}
      BY <2>2, Zenon
    <2> HIDE DEF pm
    <2> QED
      BY <1>2, <2>1, <2>3, ZenonT(60) DEF StackedMaps
  <1> HIDE DEF pm, lvl
  <1>6. /\ Depth(pm) = n
        /\ \A r \in 1..n : r # n => pm.mapStack[r] = sm.mapStack[r]
        /\ pm.mapStack[n] = lvl
    BY <1>1, <1>2, Parts DEF Depth
  <1>7. /\ \A k : k # key => Levels(pm, k) = Levels(sm, k)
        /\ Levels(pm, key) = Levels(sm, key) \cup {n - 1}
    <2>1. ASSUME NEW k, NEW r \in 0..(n - 1)
          PROVE  r \in Levels(pm, k) <=> (r \in Levels(sm, k) \/ (k = key /\ r = n - 1))
      <3>1. CASE r = n - 1
        BY <3>1, <1>1, <1>3, <1>6 DEF Levels
      <3>2. CASE r # n - 1
        <4>1. r + 1 \in 1..n /\ r + 1 # n
          BY <3>2, <1>1
        <4>2. pm.mapStack[r + 1] = sm.mapStack[r + 1]
          BY <4>1, <1>6
        <4> HIDE DEF n
        <4> QED
          BY <3>2, <4>2, <1>1, <1>6 DEF Levels
      <3> QED
        BY <3>1, <3>2
    <2>2. \A k : Levels(pm, k) \subseteq 0..(n - 1) /\ Levels(sm, k) \subseteq 0..(n - 1)
      BY <1>1, <1>6 DEF Levels
    <2>3. n - 1 \in 0..(n - 1)
      BY <1>1
    <2> HIDE DEF n
    <2>4. ASSUME NEW k, k # key PROVE Levels(pm, k) = Levels(sm, k)
      <3>1. \A r \in 0..(n - 1) : r \in Levels(pm, k) <=> r \in Levels(sm, k)
        BY <2>1, <2>4
      <3> QED
        BY <2>2, <3>1
    <2>5. Levels(pm, key) = Levels(sm, key) \cup {n - 1}
      <3>1. \A r \in 0..(n - 1) : r \in Levels(pm, key) <=> (r \in Levels(sm, key) \/ r = n - 1)
        BY <2>1
      <3> QED
        BY <2>2, <2>3, <3>1
    <2> QED
      BY <2>4, <2>5
  <1>8. ASSUME NEW r \in 1..Depth(pm), NEW k \in DOMAIN pm.mapStack[r].kvs
        PROVE  k \in DOMAIN pm.keyRevisionMap
    <2>1. k = key \/ k \in DOMAIN sm.mapStack[r].kvs
      BY <1>3, <1>6
    <2> QED
      BY <2>1, <1>1, <1>2, <1>6 DEF Indexed
  <1>9. ASSUME NEW k \in DOMAIN pm.keyRevisionMap
        PROVE  Lists(pm.keyRevisionMap[k], Levels(pm, k))
    <2>1. CASE k # key
      <3>1. k \in DOMAIN revs /\ pm.keyRevisionMap[k] = revs[k]
        BY <2>1, <1>2
      <3>2. Lists(revs[k], Levels(sm, k)) /\ Levels(pm, k) = Levels(sm, k)
        BY <2>1, <3>1, <1>7 DEF Indexed
      <3> QED
        BY <3>1, <3>2
    <2>2. CASE k = key
      <3>1. pm.keyRevisionMap[key] = stack
        BY <1>2
      <3>2. CASE key \notin DOMAIN revs
        <4>1. Levels(sm, key) = {}
          BY <3>2, <1>1 DEF Levels, Indexed
        <4>2. stack = <<n - 1>> /\ Lists(<<n - 1>>, {n - 1})
          BY <3>2, <1>1, ListsOne
        <4> QED
          BY <2>2, <3>1, <4>1, <4>2, <1>7, Zenon
      <3>3. CASE key \in DOMAIN revs /\ Top(revs[key]) = n - 1
        <4>1. stack = revs[key] /\ Lists(revs[key], Levels(sm, key)) /\ revs[key] \in Seq(Nat)
          BY <3>3, Parts DEF Indexed
        <4>2. n - 1 \in Levels(sm, key)
          BY <4>1, <3>3, ListsTop
        <4>3. Levels(pm, key) = Levels(sm, key)
          BY <4>2, <1>7
        <4> HIDE DEF stack
        <4> QED
          BY <2>2, <3>1, <4>1, <4>3
      <3>4. CASE key \in DOMAIN revs /\ Top(revs[key]) # n - 1
        <4>1. /\ stack = Append(revs[key], n - 1)
              /\ Lists(revs[key], Levels(sm, key)) /\ revs[key] \in Seq(Nat)
          BY <3>4, Parts DEF Indexed
        <4>2. n - 1 \in Nat /\ Levels(sm, key) \subseteq 0..(n - 1)
          BY <1>1 DEF Levels
        <4> HIDE DEF stack, revs, n
        <4>3. Lists(Append(revs[key], n - 1), Levels(sm, key) \cup {n - 1})
          BY <3>4, <4>1, <4>2, ListsAppend
        <4> QED
          BY <2>2, <3>1, <4>1, <4>3, <1>7
      <3> QED
        BY <3>2, <3>3, <3>4
    <2> QED
      BY <2>1, <2>2
  <1> QED
    BY <1>1, <1>5, <1>6, <1>8, <1>9 DEF Indexed, pm

-----------------------------------------------------------------------------
\* Pop takes the top level from the levels that hold a key, and its revision from the
\* stacks of exactly the keys it holds.
THEOREM PopIndexed ==
  ASSUME NEW Key, NEW Value, NEW sm \in StackedMaps(Key, Value), Indexed(sm), Depth(sm) > 1
  PROVE  Pop(sm) \in StackedMaps(Key, Value) /\ Indexed(Pop(sm))
  <1> DEFINE pm   == Pop(sm)
             n    == Len(sm.mapStack)
             revs == sm.keyRevisionMap
             gone == DOMAIN sm.mapStack[n].kvs
             kept == {k \in DOMAIN revs : k \in gone => Len(revs[k]) > 1}
             left == [k \in kept |-> IF k \in gone THEN Popped(revs[k]) ELSE revs[k]]
  <1>1. n \in Nat /\ n > 1 /\ Depth(sm) = n
    BY Parts DEF Depth
  <1>2. pm = [mapStack |-> Popped(sm.mapStack), keyRevisionMap |-> left]
    BY DEF Pop, Top
  <1>3. ASSUME NEW k \in DOMAIN revs
        PROVE  revs[k] \in Seq(Nat) /\ Lists(revs[k], Levels(sm, k))
    BY Parts DEF Indexed
  <1>4. \A k : k \in gone <=> n - 1 \in Levels(sm, k)
    BY <1>1 DEF Levels
  <1>5. gone \subseteq DOMAIN revs
    BY <1>1 DEF Indexed
  <1> HIDE DEF gone, revs, n
  <1>6. ASSUME NEW k \in DOMAIN revs, k \in gone PROVE Top(revs[k]) = n - 1
    <2>1. Top(revs[k]) \in Levels(sm, k) /\ Top(revs[k]) \in Nat
          /\ \A r \in Levels(sm, k) : r <= Top(revs[k])
      BY <1>3, ListsTop
    <2>2. n - 1 <= Top(revs[k]) /\ Top(revs[k]) \in 0..(n - 1)
      BY <2>1, <1>1, <1>4, <1>6 DEF Levels
    <2> QED
      BY <2>1, <2>2, <1>1
  <1>7. /\ pm.mapStack = Popped(sm.mapStack) /\ pm.keyRevisionMap = left
        /\ pm.mapStack \in Seq(Level(Key, Value))
        /\ Depth(pm) = n - 1
        /\ \A r \in 1..(n - 1) : pm.mapStack[r] = sm.mapStack[r]
    <2>1. /\ Popped(sm.mapStack) \in Seq(Level(Key, Value))
          /\ Len(Popped(sm.mapStack)) = n - 1
          /\ \A r \in 1..(n - 1) : Popped(sm.mapStack)[r] = sm.mapStack[r]
      BY <1>1, Parts DEF Popped, n
    <2> HIDE DEF left, pm
    <2> QED
      BY <1>2, <2>1 DEF Depth
  <1>8. pm \in StackedMaps(Key, Value)
    <2>1. left \in [kept -> Seq(Nat)]
      <3>1. ASSUME NEW k \in kept PROVE left[k] \in Seq(Nat)
        BY <1>3, ListsPopped, Zenon
      <3> QED
        BY <3>1, Zenon
    <2>2. kept \in SUBSET Key
      BY Parts DEF revs
    <2>3. left \in UNION {[D -> Seq(Nat)] : D \in SUBSET Key}
      BY <2>1, <2>2, Zenon
    <2> HIDE DEF left, pm
    <2> QED
      BY <1>2, <1>7, <2>3 DEF StackedMaps
  <1>9. \A k : Levels(pm, k) = Levels(sm, k) \ {n - 1}
    <2> HIDE DEF pm
    <2>1. ASSUME NEW k, NEW r \in 0..(n - 2) PROVE r \in Levels(pm, k) <=> r \in Levels(sm, k)
      <3>1. r + 1 \in 1..(n - 1) /\ r \in 0..(n - 1)
        BY <1>1
      <3> QED
        BY <3>1, <1>1, <1>7 DEF Levels
    <2>2. ASSUME NEW k
          PROVE  Levels(pm, k) \subseteq 0..(n - 2) /\ Levels(sm, k) \ {n - 1} \subseteq 0..(n - 2)
                 /\ n - 1 \notin 0..(n - 2)
      BY <1>1, <1>7 DEF Levels
    <2> QED
      BY <2>1, <2>2
  <1> HIDE DEF pm
  <1>10. ASSUME NEW r \in 1..Depth(pm), NEW k \in DOMAIN pm.mapStack[r].kvs
         PROVE  k \in DOMAIN pm.keyRevisionMap
    <2>1. r \in 1..(n - 1) /\ r \in 1..n /\ k \in DOMAIN sm.mapStack[r].kvs
      BY <1>1, <1>7
    <2>2. k \in DOMAIN revs
      BY <2>1, <1>1 DEF Indexed, revs
    <2>3. r - 1 \in Levels(sm, k) /\ r - 1 # n - 1
      BY <2>1, <1>1 DEF Levels
    <2>4. ASSUME k \in gone PROVE Len(revs[k]) > 1
      <3>1. Len(revs[k]) \in Nat /\ Len(revs[k]) > 0
        BY <2>2, <1>3 DEF Lists
      <3>2. Len(revs[k]) = 1 => Levels(sm, k) = {n - 1}
        BY <2>2, <2>4, <1>3, <1>6, ListsPopped, Zenon
      <3>3. Len(revs[k]) # 1
        BY <3>2, <2>3
      <3>4. \A m \in Nat : m > 0 /\ m # 1 => m > 1
        OBVIOUS
      <3> QED
        BY <3>1, <3>3, <3>4, Zenon
    <2> QED
      BY <2>2, <2>4, <1>7
  <1>11. ASSUME NEW k \in DOMAIN pm.keyRevisionMap
         PROVE  Lists(pm.keyRevisionMap[k], Levels(pm, k))
    <2>1. k \in DOMAIN revs /\ (k \in gone => Len(revs[k]) > 1)
          /\ pm.keyRevisionMap[k] = IF k \in gone THEN Popped(revs[k]) ELSE revs[k]
      BY <1>7
    <2>2. CASE k \in gone
      <3>1. Lists(Popped(revs[k]), Levels(sm, k) \ {n - 1})
        BY <2>1, <2>2, <1>3, <1>6, ListsPopped, Zenon
      <3> QED
        BY <2>1, <2>2, <3>1, <1>9, ZenonT(60)
    <2>3. CASE k \notin gone
      <3>1. Levels(pm, k) = Levels(sm, k)
        BY <2>3, <1>4, <1>9
      <3> QED
        BY <2>1, <2>3, <3>1, <1>3
    <2> QED
      BY <2>2, <2>3
  <1>12. Depth(pm) > 0
    BY <1>1, <1>7
  <1>13. Indexed(pm)
    BY <1>10, <1>11, <1>12 DEF Indexed
  <1> QED
    BY <1>8, <1>13 DEF pm

-----------------------------------------------------------------------------
\* The levels that hold a key have a topmost one, the one the index names last.
LEMMA NewestLevel ==
  ASSUME NEW Key, NEW Value, NEW sm \in StackedMaps(Key, Value), Indexed(sm), NEW key,
         key \in DOMAIN sm.keyRevisionMap
  PROVE  LET t     == Top(sm.keyRevisionMap[key])
             holds == {r \in 1..Depth(sm) : key \in DOMAIN sm.mapStack[r].kvs}
         IN  t + 1 \in holds /\ (CHOOSE r \in holds : \A q \in holds : q <= r) = t + 1
  <1> DEFINE n     == Depth(sm)
             holds == {r \in 1..n : key \in DOMAIN sm.mapStack[r].kvs}
             t     == Top(sm.keyRevisionMap[key])
  <1>1. n \in Nat /\ n > 0
    BY Parts DEF Depth, Indexed
  <1>2. sm.keyRevisionMap[key] \in Seq(Nat) /\ Lists(sm.keyRevisionMap[key], Levels(sm, key))
    BY Parts DEF Indexed
  <1>3. t \in Levels(sm, key) /\ t \in Nat /\ \A r \in Levels(sm, key) : r <= t
    BY <1>2, ListsTop
  <1> HIDE DEF t
  <1>4. t + 1 \in holds
    BY <1>3, <1>1 DEF Levels
  <1>5. \A q \in holds : q <= t + 1
    <2> TAKE q \in holds
    <2>1. q - 1 \in Levels(sm, key)
      BY <1>1 DEF Levels
    <2> QED
      BY <2>1, <1>1, <1>3
  <1>6. (CHOOSE r \in holds : \A q \in holds : q <= r) = t + 1
    BY <1>4, <1>5, <1>1
  <1> QED
    BY <1>4, <1>6 DEF t

\* Get, which looks only at the level the index names, answers what the walk down all
\* the levels to the source finds.
THEOREM GetIsNewest ==
  ASSUME NEW Key, NEW Value, NEW sm \in StackedMaps(Key, Value), Indexed(sm),
         NEW src, NEW key
  PROVE  Get(sm, src, key) = Below(sm, src, key, Depth(sm))
  <1> DEFINE holds == {r \in 1..Depth(sm) : key \in DOMAIN sm.mapStack[r].kvs}
  <1>1. CASE key \notin DOMAIN sm.keyRevisionMap
    <2>1. holds = {}
      BY <1>1 DEF Indexed
    <2> QED
      BY <1>1, <2>1 DEF Get, Below
  <1>2. CASE key \in DOMAIN sm.keyRevisionMap
    <2> DEFINE t == Top(sm.keyRevisionMap[key])
    <2>1. t + 1 \in holds /\ (CHOOSE r \in holds : \A q \in holds : q <= r) = t + 1
      BY <1>2, NewestLevel
    <2> HIDE DEF t
    <2>2. Below(sm, src, key, Depth(sm)) = sm.mapStack[t + 1].kvs[key]
      BY <2>1, ZenonT(60) DEF Below
    <2>3. Get(sm, src, key) = sm.mapStack[t + 1].kvs[key]
      BY <1>2, <2>1 DEF Get, t
    <2> QED
      BY <2>2, <2>3
  <1> QED
    BY <1>1, <1>2

\* Push and Put leave the levels below the top as they are.
LEMMA LevelsKept ==
  ASSUME NEW Key, NEW Value, NEW sm \in StackedMaps(Key, Value), NEW key, NEW value
  PROVE  /\ Depth(Push(sm)) = Depth(sm) + 1
         /\ \A r \in 1..Depth(sm) : Push(sm).mapStack[r] = sm.mapStack[r]
         /\ Depth(Put(sm, key, value)) = Depth(sm)
         /\ \A r \in 1..(Depth(sm) - 1) : Put(sm, key, value).mapStack[r] = sm.mapStack[r]
  <1>1. /\ sm.mapStack \in Seq(Level(Key, Value)) /\ Depth(sm) = Len(sm.mapStack)
        /\ Depth(sm) \in Nat
    BY Parts DEF Depth
  <1>2. Push(sm).mapStack = Append(sm.mapStack, newLevel)
    BY DEF Push, StackedMaps
  <1>3. PICK lvl : Put(sm, key, value).mapStack = [sm.mapStack EXCEPT ![Len(sm.mapStack)] = lvl]
    BY Zenon DEF Put
  <1>4. newLevel \in Level(Key, Value)
    BY NewLevelTyped
  <1>5. /\ Len(Append(sm.mapStack, newLevel)) = Len(sm.mapStack) + 1
        /\ \A r \in 1..Len(sm.mapStack) : Append(sm.mapStack, newLevel)[r] = sm.mapStack[r]
    BY <1>1, <1>4
  <1>6. /\ Len([sm.mapStack EXCEPT ![Len(sm.mapStack)] = lvl]) = Len(sm.mapStack)
        /\ \A r \in 1..(Len(sm.mapStack) - 1) :
             [sm.mapStack EXCEPT ![Len(sm.mapStack)] = lvl][r] = sm.mapStack[r]
    BY <1>1
  <1> QED
    BY <1>1, <1>2, <1>3, <1>5, <1>6 DEF Depth

\* Whatever was put since a Push, Pop brings back the map there was: a map whose lower
\* levels are those of sm answers, after Pop, every Get as sm did.
THEOREM PopRestores ==
  ASSUME NEW Key, NEW Value,
         NEW sm \in StackedMaps(Key, Value), Indexed(sm),
         NEW tm \in StackedMaps(Key, Value), Indexed(tm),
         Depth(tm) = Depth(sm) + 1,
         \A r \in 1..Depth(sm) : tm.mapStack[r] = sm.mapStack[r],
         NEW src, NEW key
  PROVE  Get(Pop(tm), src, key) = Get(sm, src, key)
  <1> DEFINE pm == Pop(tm)
             n  == Depth(sm)
             hp == {r \in 1..n : key \in DOMAIN pm.mapStack[r].kvs}
             hs == {r \in 1..n : key \in DOMAIN sm.mapStack[r].kvs}
  <1>1. n \in Nat /\ n > 0 /\ Len(tm.mapStack) = n + 1
    BY Parts DEF Depth, Indexed
  <1>2. pm \in StackedMaps(Key, Value) /\ Indexed(pm)
    BY <1>1, PopIndexed
  <1>3. Depth(pm) = n /\ \A r \in 1..n : pm.mapStack[r] = sm.mapStack[r]
    <2>1. pm.mapStack = Popped(tm.mapStack)
      BY DEF Pop
    <2>2. Len(Popped(tm.mapStack)) = n /\ \A r \in 1..n : Popped(tm.mapStack)[r] = tm.mapStack[r]
      BY <1>1, Parts DEF Popped
    <2> HIDE DEF pm
    <2> QED
      BY <2>1, <2>2 DEF Depth
  <1> HIDE DEF pm
  <1>4. hp = hs
    BY <1>3
  <1>5. /\ Get(pm, src, key) = Below(pm, src, key, n)
        /\ Get(sm, src, key) = Below(sm, src, key, n)
    BY <1>2, <1>3, GetIsNewest
  <1>6. CASE key \notin DOMAIN sm.keyRevisionMap
    <2>1. hs = {}
      BY <1>6 DEF Indexed
    <2> QED
      BY <2>1, <1>4, <1>5 DEF Below, pm
  <1>7. CASE key \in DOMAIN sm.keyRevisionMap
    <2> DEFINE t == Top(sm.keyRevisionMap[key])
    <2>1. t + 1 \in hs /\ (CHOOSE r \in hs : \A q \in hs : q <= r) = t + 1
      BY <1>7, NewestLevel
    <2> HIDE DEF t
    <2>2. Below(sm, src, key, n) = sm.mapStack[t + 1].kvs[key]
      BY <2>1, Zenon DEF Below
    <2>3. Below(pm, src, key, n) = pm.mapStack[t + 1].kvs[key]
      BY <2>1, <1>4, Zenon DEF Below
    <2>4. pm.mapStack[t + 1] = sm.mapStack[t + 1]
      BY <2>1, <1>3
    <2> QED
      BY <2>2, <2>3, <2>4, <1>5 DEF pm
  <1> QED
    BY <1>6, <1>7

-----------------------------------------------------------------------------
(***************************************************************************)
(* PopTo and the other operations of a map, without naming its keys and    *)
(* values.  tlapm has no induction over data here: what a recursive        *)
(* function computes is shown by a least counterexample (NoLeast).         *)
(***************************************************************************)

\* The order of the numbers, as the library of well-founded orders has it.
LEMMA NatRel == OpToRel(<, Nat) = { p \in Nat \X Nat : p[1] < p[2] }
  BY Zenon DEF OpToRel

\* A set of numbers that is not empty has a least.
LEMMA LeastNumber ==
  ASSUME NEW T \in SUBSET Nat, T # {}
  PROVE  \E m \in T : \A n \in T : m <= n
  <1> DEFINE R == { p \in Nat \X Nat : p[1] < p[2] }
  <1>1. IsWellFoundedOn(R, Nat)
    BY NatLessThanWellFounded, NatRel, Zenon
  <1>2. \A m, n \in Nat : <<n, m>> \in R <=> n < m
    OBVIOUS
  <1> HIDE DEF R
  <1>3. \E m \in T : \A n \in T : ~(<<n, m>> \in R)
    BY <1>1, WFMin, ZenonT(60)
  <1>4. PICK m \in T : \A n \in T : ~(<<n, m>> \in R)
    BY <1>3
  <1>5. \A n \in T : ~(n < m) /\ n \in Nat /\ m \in Nat
    BY <1>2, <1>4, Zenon
  <1>6. \A n \in T : m <= n
    BY <1>5
  <1>7. QED
    BY <1>6

\* A set that misses no successor of a number outside it, nor 0, is empty.
LEMMA NoLeast ==
  ASSUME NEW T \in SUBSET Nat, 0 \notin T,
         \A n \in Nat : n + 1 \in T => n \in T
  PROVE  T = {}
  <1> SUFFICES ASSUME T # {} PROVE FALSE
    OBVIOUS
  <1>1. PICK m \in T : \A n \in T : m <= n
    BY LeastNumber
  <1>2. m \in Nat /\ m # 0
    BY <1>1
  <1>3. m - 1 \in Nat /\ (m - 1) + 1 = m
    BY <1>2
  <1>4. m - 1 \in T
    BY <1>1, <1>3
  <1>5. QED
    BY <1>1, <1>2, <1>4

(* t is s with x at its end, and j is s and then t. *)
Added(t, s, x) == t = Append(s, x)

Followed(j, s, t) == j = s \o t

\* A sequence with one more element.
LEMMA Appended ==
  ASSUME NEW S, NEW s \in Seq(S), NEW x \in S, NEW t, Added(t, s, x)
  PROVE  /\ Len(s) \in Nat /\ Len(t) = Len(s) + 1 /\ t[Len(s) + 1] = x
         /\ \A i \in 1..Len(s) : t[i] = s[i]
  BY DEF Added

\* The first part of a sequence.
LEMMA Cut ==
  ASSUME NEW S, NEW s \in Seq(S), NEW n \in Nat, n <= Len(s)
  PROVE  /\ Len(SubSeq(s, 1, n)) = n
         /\ \A i \in 1..n : SubSeq(s, 1, n)[i] = s[i]
  OBVIOUS

-----------------------------------------------------------------------------
(* A map with save points whose index is exact, whatever its keys and      *)
(* values are.                                                             *)
Proper(sm) == Indexed(sm) /\ \E Key, Value : sm \in StackedMaps(Key, Value)

\* A typed map is typed over larger sets.
LEMMA Wider ==
  ASSUME NEW K, NEW V, NEW K2, NEW V2, K \subseteq K2, V \subseteq V2,
         NEW sm \in StackedMaps(K, V)
  PROVE  sm \in StackedMaps(K2, V2)
  <1>1. ASSUME NEW A, NEW D \in SUBSET K, NEW f \in [D -> A], NEW B, A \subseteq B
        PROVE  f \in UNION {[E -> B] : E \in SUBSET K2}
    <2>1. f \in [D -> B]
      BY <1>1
    <2>2. D \in SUBSET K2
      OBVIOUS
    <2>3. QED
      BY <2>1, <2>2
  <1>2. \A e : e \in K \X V => e \in K2 \X V2
    OBVIOUS
  <1>3. \A s : s \in Seq(K \X V) => s \in Seq(K2 \X V2)
    <2> TAKE s
    <2> HAVE s \in Seq(K \X V)
    <2>1. K \X V \subseteq K2 \X V2
      BY <1>2
    <2>2. QED
      BY <2>1
  <1>4. \A l : l \in Level(K, V) => l \in Level(K2, V2)
    <2> TAKE l
    <2> HAVE l \in Level(K, V)
    <2>1. /\ l = [kvs |-> l.kvs, journal |-> l.journal]
          /\ l.kvs \in UNION {[D -> V] : D \in SUBSET K}
          /\ l.journal \in Seq(K \X V)
      BY DEF Level
    <2>2. PICK D \in SUBSET K : l.kvs \in [D -> V]
      BY <2>1
    <2>3. l.kvs \in UNION {[E -> V2] : E \in SUBSET K2}
      BY <2>2, <1>1
    <2>4. l.journal \in Seq(K2 \X V2)
      BY <2>1, <1>3
    <2>5. QED
      BY <2>1, <2>3, <2>4 DEF Level
  <1>5. /\ sm = [mapStack |-> sm.mapStack, keyRevisionMap |-> sm.keyRevisionMap]
        /\ sm.mapStack \in Seq(Level(K, V))
        /\ sm.keyRevisionMap \in UNION {[D -> Seq(Nat)] : D \in SUBSET K}
    BY DEF StackedMaps
  <1>6. sm.mapStack \in Seq(Level(K2, V2))
    BY <1>4, <1>5
  <1>7. sm.keyRevisionMap \in UNION {[D -> Seq(Nat)] : D \in SUBSET K2}
    <2>1. PICK D \in SUBSET K : sm.keyRevisionMap \in [D -> Seq(Nat)]
      BY <1>5
    <2>2. QED
      BY <2>1, <1>1
  <1>8. QED
    BY <1>5, <1>6, <1>7 DEF StackedMaps

\* A new map (New) is proper.
LEMMA NewProper == Proper(New) /\ Depth(New) = 1
  <1>1. newLevel \in Level({}, {})
    BY NewLevelTyped
  <1>2. EmptyMap \in UNION {[D -> Seq(Nat)] : D \in SUBSET {}}
    <2>1. EmptyMap \in [{} -> Seq(Nat)]
      BY DEF EmptyMap
    <2>2. QED
      BY <2>1, ZenonT(60)
  <1>3. New \in StackedMaps({}, {})
    BY <1>1, <1>2 DEF New, StackedMaps
  <1>4. QED
    BY <1>3, NewIndexed DEF Proper, New, Depth

\* What every proper map has, as facts on its levels.
LEMMA ProperParts ==
  ASSUME NEW sm, Proper(sm)
  PROVE  /\ Depth(sm) \in Nat \ {0}
         /\ Len(sm.mapStack) = Depth(sm)
         /\ \E S : sm.mapStack \in Seq(S)
         /\ sm = [mapStack |-> sm.mapStack, keyRevisionMap |-> sm.keyRevisionMap]
         /\ \A r \in 1..Depth(sm) : /\ \E S : sm.mapStack[r].journal \in Seq(S)
                                    /\ sm.mapStack[r] = [kvs |-> sm.mapStack[r].kvs,
                                                journal |-> sm.mapStack[r].journal]
  <1>1. PICK K, V : sm \in StackedMaps(K, V)
    BY DEF Proper
  <1>2. Depth(sm) \in Nat \ {0} /\ Len(sm.mapStack) = Depth(sm)
    BY <1>1, Parts DEF Depth, Proper, Indexed
  <1>3. sm.mapStack \in Seq(Level(K, V))
    BY <1>1, Parts
  <1>4. \A r \in 1..Depth(sm) : sm.mapStack[r] \in Level(K, V)
    BY <1>1, <1>2, Parts
  <1>5. \A l \in Level(K, V) : /\ l.journal \in Seq(K \X V)
                               /\ l = [kvs |-> l.kvs, journal |-> l.journal]
    BY DEF Level
  <1>6. sm = [mapStack |-> sm.mapStack, keyRevisionMap |-> sm.keyRevisionMap]
    BY <1>1 DEF StackedMaps
  <1>7. QED
    BY <1>2, <1>3, <1>4, <1>5, <1>6

\* Put writes on the top level only.
LEMMA PutProper ==
  ASSUME NEW sm, Proper(sm), NEW key, NEW value
  PROVE  /\ Proper(Put(sm, key, value))
         /\ Depth(Put(sm, key, value)) = Depth(sm)
         /\ \A r \in 1..(Depth(sm) - 1) : Put(sm, key, value).mapStack[r] = sm.mapStack[r]
  <1>1. PICK K, V : sm \in StackedMaps(K, V)
    BY DEF Proper
  <1>2. PICK K2, V2 : K \subseteq K2 /\ V \subseteq V2 /\ key \in K2 /\ value \in V2
    <2>1. K \subseteq K \cup {key} /\ V \subseteq V \cup {value}
          /\ key \in K \cup {key} /\ value \in V \cup {value}
      OBVIOUS
    <2>2. QED
      BY <2>1, Zenon
  <1>3. sm \in StackedMaps(K2, V2) /\ Indexed(sm)
    BY <1>1, <1>2, Wider DEF Proper
  <1>4. Put(sm, key, value) \in StackedMaps(K2, V2) /\ Indexed(Put(sm, key, value))
    BY <1>2, <1>3, PutIndexed
  <1>5. Proper(Put(sm, key, value))
    BY <1>4, Zenon DEF Proper
  <1>6. QED
    BY <1>3, <1>5, LevelsKept

\* Push keeps all levels.
LEMMA PushProper ==
  ASSUME NEW sm, Proper(sm)
  PROVE  /\ Proper(Push(sm))
         /\ Depth(Push(sm)) = Depth(sm) + 1
         /\ \A r \in 1..Depth(sm) : Push(sm).mapStack[r] = sm.mapStack[r]
  <1>1. PICK K, V : sm \in StackedMaps(K, V)
    BY DEF Proper
  <1>2. Push(sm) \in StackedMaps(K, V) /\ Indexed(Push(sm))
    BY <1>1, PushIndexed DEF Proper
  <1>3. QED
    BY <1>1, <1>2, LevelsKept DEF Proper

\* Get answers what is found walking down from the top.
LEMMA GetProper ==
  ASSUME NEW sm, Proper(sm), NEW src, NEW key
  PROVE  Get(sm, src, key) = Below(sm, src, key, Depth(sm))
  BY GetIsNewest DEF Proper

SameLevels(sm, tm, n) == \A r \in 1..n : sm.mapStack[r] = tm.mapStack[r]

\* What is below a depth does not depend on the levels above.
LEMMA BelowSame ==
  ASSUME NEW sm, NEW tm, NEW d \in Nat, SameLevels(sm, tm, d), NEW src, NEW key
  PROVE  Below(sm, src, key, d) = Below(tm, src, key, d)
  <1> DEFINE hs == {r \in 1..d : key \in DOMAIN sm.mapStack[r].kvs}
             ht == {r \in 1..d : key \in DOMAIN tm.mapStack[r].kvs}
             t  == CHOOSE r \in hs : \A q \in hs : q <= r
  <1>1. hs = ht
    BY DEF SameLevels
  <1>2. CASE hs = {}
    BY <1>1, <1>2 DEF Below
  <1>3. CASE hs # {}
    <2>1. \E r \in hs : \A q \in hs : q <= r
      <3> DEFINE T == {d - r : r \in hs}
      <3>1. T \in SUBSET Nat /\ T # {}
        BY <1>3
      <3>2. PICK m \in T : \A n \in T : m <= n
        BY <3>1, LeastNumber, Zenon
      <3>3. PICK r \in hs : m = d - r
        BY <3>2
      <3>4. \A q \in hs : d - r <= d - q
        BY <3>2, <3>3, ZenonT(60)
      <3>5. \A q \in hs : q <= r
        BY <3>4
      <3>6. QED
        BY <3>3, <3>5
    <2>2. t \in hs
      BY <2>1, Zenon
    <2>3. sm.mapStack[t] = tm.mapStack[t]
      BY <2>2, ZenonT(60) DEF SameLevels
    <2>4. Below(sm, src, key, d) = sm.mapStack[t].kvs[key]
      BY <1>3, Zenon DEF Below
    <2>5. Below(tm, src, key, d) = tm.mapStack[t].kvs[key]
      BY <1>1, <1>3, Zenon DEF Below
    <2>6. QED
      BY <2>3, <2>4, <2>5, ZenonT(60)
  <1>4. QED
    BY <1>2, <1>3

-----------------------------------------------------------------------------
(* Pops is how PopTo walks down: sm, and then one Pop after the other.     *)
Pops(g, sm, N) == g = [n \in 0..N |-> IF n = 0 THEN sm ELSE Pop(g[n - 1])]

\* The recursion of PopTo is well defined.
LEMMA PopsExist ==
  ASSUME NEW sm, NEW N \in Nat
  PROVE  \E g : Pops(g, sm, N)
  <1> DEFINE T == {M \in Nat : ~\E g : Pops(g, sm, M)}
  <1>1. 0 \notin T
    <2> DEFINE g == [n \in 0..0 |-> sm]
    <2>1. Pops(g, sm, 0)
      BY DEF Pops
    <2>2. QED
      BY <2>1
  <1>2. ASSUME NEW M \in Nat, M \notin T PROVE M + 1 \notin T
    <2>1. PICK g : Pops(g, sm, M)
      BY <1>2
    <2> DEFINE h == [n \in 0..(M + 1) |-> IF n = M + 1 THEN Pop(g[M]) ELSE g[n]]
    <2>2. \A n \in 0..M : g[n] = IF n = 0 THEN sm ELSE Pop(g[n - 1])
      BY <2>1 DEF Pops
    <2>3. ASSUME NEW n \in 0..(M + 1)
          PROVE  h[n] = IF n = 0 THEN sm ELSE Pop(h[n - 1])
      <3>1. CASE n = M + 1
        <4>1. n # 0 /\ n - 1 = M /\ M # M + 1 /\ M \in 0..(M + 1) /\ n - 1 \in 0..(M + 1)
          BY <3>1
        <4>2. h[n - 1] = g[M] /\ h[n] = Pop(g[M])
          BY <3>1, <4>1
        <4> HIDE DEF h
        <4>3. QED
          BY <4>1, <4>2
      <3>2. CASE n = 0
        <4>1. h[n] = g[0] /\ 0 \in 0..M
          BY <3>2
        <4> HIDE DEF h
        <4>2. QED
          BY <4>1, <2>2, <3>2
      <3>3. CASE n # M + 1 /\ n # 0
        <4>1. n \in 0..M /\ n - 1 \in 0..(M + 1) /\ n - 1 # M + 1
          BY <3>3
        <4>2. h[n] = g[n] /\ h[n - 1] = g[n - 1]
          BY <3>3, <4>1
        <4> HIDE DEF h
        <4>3. QED
          BY <4>1, <4>2, <2>2, <3>3
      <3>4. QED
        BY <3>1, <3>2, <3>3
    <2>4. h = [n \in 0..(M + 1) |-> h[n]]
      OBVIOUS
    <2> HIDE DEF h
    <2>5. h = [n \in 0..(M + 1) |-> IF n = 0 THEN sm ELSE Pop(h[n - 1])]
      BY <2>3, <2>4, ZenonT(60)
    <2>6. QED
      BY <2>5 DEF Pops
  <1> HIDE DEF T
  <1>3. T \in SUBSET Nat
    BY DEF T
  <1>4. T = {}
    BY <1>1, <1>2, <1>3, NoLeast
  <1>5. QED
    BY <1>4 DEF T

\* PopTo cuts the levels above a depth off, and keeps the index exact.
LEMMA PopToProper ==
  ASSUME NEW sm, Proper(sm), NEW d \in Nat \ {0}, d <= Depth(sm)
  PROVE  /\ Proper(PopTo(sm, d))
         /\ PopTo(sm, d).mapStack = SubSeq(sm.mapStack, 1, d)
  <1> DEFINE D == Depth(sm)
             g == CHOOSE f : Pops(f, sm, D)
  <1>0. PICK K, V : sm \in StackedMaps(K, V)
    BY DEF Proper
  <1>1. D \in Nat /\ Len(sm.mapStack) = D /\ sm.mapStack \in Seq(Level(K, V))
    BY <1>0, Parts DEF Depth
  <1>2. Pops(g, sm, D)
    BY <1>1, PopsExist, Zenon
  <1>3. PopTo(sm, d) = IF D > d THEN g[D - d] ELSE sm
    BY DEF PopTo, Pops
  <1>4. \A n \in 0..D : g[n] = IF n = 0 THEN sm ELSE Pop(g[n - 1])
    BY <1>2, ZenonT(60) DEF Pops
  <1> HIDE DEF g
  <1> DEFINE Good(n) == /\ g[n] \in StackedMaps(K, V)
                        /\ Indexed(g[n])
                        /\ g[n].mapStack = SubSeq(sm.mapStack, 1, D - n)
             T == {n \in Nat : n < D /\ ~Good(n)}
  <1>5. SubSeq(sm.mapStack, 1, D) = sm.mapStack
    BY <1>1
  <1>6. Good(0)
    <2>1. g[0] = sm
      BY <1>1, <1>4
    <2>2. QED
      BY <2>1, <1>0, <1>1, <1>5 DEF Proper
  <1>7. ASSUME NEW n \in Nat, n + 1 < D, Good(n) PROVE Good(n + 1)
    <2>1. g[n + 1] = Pop(g[n])
      <3>1. n + 1 \in 0..D /\ n + 1 # 0 /\ (n + 1) - 1 = n
        BY <1>1, <1>7
      <3>2. QED
        BY <3>1, <1>4
    <2>2. Len(g[n].mapStack) = D - n /\ Depth(g[n]) > 1
      BY <1>1, <1>7 DEF Depth
    <2>3. g[n + 1] \in StackedMaps(K, V) /\ Indexed(g[n + 1])
      BY <2>1, <2>2, <1>7, PopIndexed
    <2>4. g[n + 1].mapStack = Popped(g[n].mapStack)
      BY <2>1 DEF Pop
    <2>5. Popped(g[n].mapStack) = SubSeq(SubSeq(sm.mapStack, 1, D - n), 1, (D - n) - 1)
      BY <2>2, <1>7 DEF Popped
    <2>6. SubSeq(SubSeq(sm.mapStack, 1, D - n), 1, (D - n) - 1)
            = SubSeq(sm.mapStack, 1, D - (n + 1))
      BY <1>1, <1>7
    <2>7. QED
      BY <2>3, <2>4, <2>5, <2>6, ZenonT(60)
  <1> HIDE DEF Good
  <1>8. T = {}
    <2>1. 0 \notin T
      BY <1>6
    <2>2. \A n \in Nat : n + 1 \in T => n \in T
      BY <1>7, <1>1
    <2>3. T \in SUBSET Nat
      OBVIOUS
    <2> HIDE DEF T
    <2>4. QED
      BY <2>1, <2>2, <2>3, NoLeast
  <1>9. CASE D > d
    <2>1. D - d \in Nat /\ D - d < D /\ D - (D - d) = d
      BY <1>1, <1>9
    <2>2. Good(D - d)
      BY <2>1, <1>8
    <2>3. PopTo(sm, d) = g[D - d]
      BY <1>3, <1>9
    <2>4. QED
      BY <2>1, <2>2, <2>3 DEF Good, Proper
  <1>10. CASE ~(D > d)
    <2>1. D = d
      <3>1. D \in Nat /\ d \in Nat /\ d <= D /\ ~(D > d)
        BY <1>1, <1>10, Zenon
      <3> HIDE DEF D
      <3>2. QED
        BY <3>1
    <2>2. QED
      BY <2>1, <1>3, <1>5
  <1>11. QED
    BY <1>9, <1>10

-----------------------------------------------------------------------------
(***************************************************************************)
(* Journal and GetLogs, the two walks over the levels of repo.             *)
(***************************************************************************)

(* Joins is how Journal walks up the levels ms, and Sifts how GetLogs      *)
(* walks along a journal j.                                                *)
Joins(g, ms, N) ==
    g = [n \in 0..N |-> IF n = 0 THEN << >> ELSE g[n - 1] \o ms[n].journal]

Sifts(g, j, N) ==
    g = [n \in 0..N |->
            IF n = 0 THEN << >>
            ELSE IF j[n][1] \in {EventKey, TransferKey}
            THEN Append(g[n - 1], j[n]) ELSE g[n - 1]]

JournalOf(ms) == (CHOOSE g : Joins(g, ms, Len(ms)))[Len(ms)]

LogsOf(ms) ==
    LET j == JournalOf(ms) IN (CHOOSE g : Sifts(g, j, Len(j)))[Len(j)]

\* GetLogs depends on the levels of repo alone.
LEMMA GetLogsOf ==
  ASSUME NEW d
  PROVE  GetLogs(d) = LogsOf(d.repo.mapStack)
  <1>1. Journal(d.repo) = JournalOf(d.repo.mapStack)
    BY DEF Journal, JournalOf, Joins, Depth
  <1>2. GetLogs(d) = (CHOOSE g : Sifts(g, Journal(d.repo), Len(Journal(d.repo))))[Len(Journal(d.repo))]
    BY DEF GetLogs, Sifts
  <1>3. QED
    BY <1>1, <1>2 DEF LogsOf

\* The recursion of Journal is well defined.
LEMMA JoinsExist ==
  ASSUME NEW ms, NEW N \in Nat
  PROVE  \E g : Joins(g, ms, N)
  <1> DEFINE T == {M \in Nat : ~\E g : Joins(g, ms, M)}
  <1>1. 0 \notin T
    <2> DEFINE g == [n \in 0..0 |-> << >>]
    <2>1. Joins(g, ms, 0)
      BY DEF Joins
    <2>2. QED
      BY <2>1
  <1>2. ASSUME NEW M \in Nat, M \notin T PROVE M + 1 \notin T
    <2>1. PICK g : Joins(g, ms, M)
      BY <1>2
    <2> DEFINE top == g[M] \o ms[M + 1].journal
               h == [n \in 0..(M + 1) |-> IF n = M + 1 THEN top ELSE g[n]]
    <2>2. \A n \in 0..M : g[n] = IF n = 0 THEN << >> ELSE g[n - 1] \o ms[n].journal
      BY <2>1, SMTT(60) DEF Joins
    <2>3. ASSUME NEW n \in 0..(M + 1)
          PROVE  h[n] = IF n = 0 THEN << >> ELSE h[n - 1] \o ms[n].journal
      <3> HIDE DEF top
      <3>1. CASE n = M + 1
        <4>1. n # 0 /\ n - 1 = M /\ M # M + 1 /\ M \in 0..(M + 1) /\ n - 1 \in 0..(M + 1)
          BY <3>1
        <4>2. h[n - 1] = g[M] /\ h[n] = top
          BY <3>1, <4>1
        <4> HIDE DEF h
        <4>3. QED
          BY <3>1, <4>1, <4>2, Zenon DEF top
      <3>2. CASE n = 0
        <4>1. h[n] = g[0] /\ 0 \in 0..M
          BY <3>2
        <4> HIDE DEF h
        <4>2. QED
          BY <4>1, <2>2, <3>2
      <3>3. CASE n # M + 1 /\ n # 0
        <4>1. n \in 0..M /\ n - 1 \in 0..(M + 1) /\ n - 1 # M + 1
          BY <3>3
        <4>2. h[n] = g[n] /\ h[n - 1] = g[n - 1]
          BY <3>3, <4>1
        <4> HIDE DEF h
        <4>3. QED
          BY <4>1, <4>2, <2>2, <3>3, ZenonT(60)
      <3>4. QED
        BY <3>1, <3>2, <3>3
    <2>4. h = [n \in 0..(M + 1) |-> h[n]]
      OBVIOUS
    <2> HIDE DEF h
    <2>5. h = [n \in 0..(M + 1) |-> IF n = 0 THEN << >> ELSE h[n - 1] \o ms[n].journal]
      BY <2>3, <2>4
    <2>6. QED
      BY <2>5, Zenon DEF Joins
  <1> HIDE DEF T
  <1>3. T \in SUBSET Nat
    BY DEF T
  <1>4. T = {}
    BY <1>1, <1>2, <1>3, NoLeast, SMTT(60)
  <1>5. QED
    BY <1>4 DEF T

\* The recursion of GetLogs is well defined.
LEMMA SiftsExist ==
  ASSUME NEW j, NEW N \in Nat
  PROVE  \E g : Sifts(g, j, N)
  <1> DEFINE T == {M \in Nat : ~\E g : Sifts(g, j, M)}
             Next1(x, n) == IF j[n][1] \in {EventKey, TransferKey}
                            THEN Append(x, j[n]) ELSE x
  <1>1. 0 \notin T
    <2> DEFINE g == [n \in 0..0 |-> << >>]
    <2>1. Sifts(g, j, 0)
      BY DEF Sifts
    <2>2. QED
      BY <2>1
  <1>2. ASSUME NEW M \in Nat, M \notin T PROVE M + 1 \notin T
    <2>1. PICK g : Sifts(g, j, M)
      BY <1>2
    <2> DEFINE h == [n \in 0..(M + 1) |-> IF n = M + 1 THEN Next1(g[M], n) ELSE g[n]]
    <2>2. \A n \in 0..M : g[n] = IF n = 0 THEN << >> ELSE Next1(g[n - 1], n)
      BY <2>1, ZenonT(60) DEF Sifts
    <2>3. ASSUME NEW n \in 0..(M + 1)
          PROVE  h[n] = IF n = 0 THEN << >> ELSE Next1(h[n - 1], n)
      <3> HIDE DEF Next1
      <3>1. CASE n = M + 1
        <4>1. n # 0 /\ n - 1 = M /\ M # M + 1 /\ M \in 0..(M + 1) /\ n - 1 \in 0..(M + 1)
          BY <3>1
        <4>2. h[n - 1] = g[M] /\ h[n] = Next1(g[M], n)
          BY <3>1, <4>1
        <4> HIDE DEF h
        <4>3. QED
          BY <3>1, <4>1, <4>2
      <3>2. CASE n = 0
        <4>1. h[n] = g[0] /\ 0 \in 0..M
          BY <3>2
        <4> HIDE DEF h
        <4>2. QED
          BY <4>1, <2>2, <3>2
      <3>3. CASE n # M + 1 /\ n # 0
        <4>1. n \in 0..M /\ n - 1 \in 0..(M + 1) /\ n - 1 # M + 1
          BY <3>3
        <4>2. h[n] = g[n] /\ h[n - 1] = g[n - 1]
          BY <3>3, <4>1
        <4> HIDE DEF h
        <4>3. QED
          BY <4>1, <4>2, <2>2, <3>3
      <3>4. QED
        BY <3>1, <3>2, <3>3
    <2>4. h = [n \in 0..(M + 1) |-> h[n]]
      OBVIOUS
    <2> HIDE DEF h
    <2>5. h = [n \in 0..(M + 1) |-> IF n = 0 THEN << >> ELSE Next1(h[n - 1], n)]
      <3> HIDE DEF Next1
      <3>1. QED
        BY <2>3, <2>4, Zenon
    <2>6. QED
      BY <2>5 DEF Sifts
  <1> HIDE DEF T
  <1>3. T \in SUBSET Nat
    BY DEF T
  <1>4. T = {}
    BY <1>1, <1>2, <1>3, NoLeast
  <1>5. QED
    BY <1>4 DEF T

Alike(ms, mt, L) == \A n \in 1..L : ms[n].journal = mt[n].journal

\* Two walks over the same levels meet the same entries.
LEMMA JoinsSame ==
  ASSUME NEW g, NEW h, NEW ms, NEW mt, NEW N \in Nat, NEW M \in Nat, NEW L \in Nat,
         L <= N, L <= M, Joins(g, ms, N), Joins(h, mt, M),
         Alike(ms, mt, L)
  PROVE  g[L] = h[L]
  <1>1. \A n \in 0..L : g[n] = IF n = 0 THEN << >> ELSE g[n - 1] \o ms[n].journal
    <2> TAKE n \in 0..L
    <2>1. n \in 0..N
      OBVIOUS
    <2>2. QED
      BY <2>1, Zenon DEF Joins
  <1>2. \A n \in 0..L : h[n] = IF n = 0 THEN << >> ELSE h[n - 1] \o mt[n].journal
    <2> TAKE n \in 0..L
    <2>1. n \in 0..M
      OBVIOUS
    <2>2. QED
      BY <2>1, ZenonT(60) DEF Joins
  <1> DEFINE T == {n \in Nat : n <= L /\ g[n] # h[n]}
  <1>3. 0 \notin T
    BY <1>1, <1>2
  <1>4. ASSUME NEW n \in Nat, n + 1 \in T PROVE n \in T
    <2>1. n + 1 \in 0..L /\ n + 1 \in 1..L /\ n + 1 # 0 /\ (n + 1) - 1 = n
      BY <1>4
    <2>2. g[n + 1] = g[n] \o ms[n + 1].journal
      BY <1>1, <2>1, Zenon
    <2>3. h[n + 1] = h[n] \o mt[n + 1].journal
      BY <1>2, <2>1, Zenon
    <2>4. ms[n + 1].journal = mt[n + 1].journal
      BY <2>1 DEF Alike
    <2>5. g[n] # h[n]
      BY <1>4, <2>2, <2>3, <2>4, ZenonT(60)
    <2>6. QED
      BY <2>5, <2>1
  <1>5. T \in SUBSET Nat
    OBVIOUS
  <1> HIDE DEF T
  <1>6. T = {}
    BY <1>3, <1>4, <1>5, NoLeast
  <1>7. QED
    BY <1>6 DEF T

StartsWith(j, i, N) == \A n \in 1..N : i[n] = j[n]

\* Two walks along a journal keep the same entries.
LEMMA SiftsSame ==
  ASSUME NEW g, NEW h, NEW i, NEW j, NEW N \in Nat, NEW M \in Nat, N <= M,
         Sifts(g, i, N), Sifts(h, j, M), StartsWith(j, i, N)
  PROVE  g[N] = h[N]
  <1> DEFINE Next1(x, e) == IF e[1] \in {EventKey, TransferKey} THEN Append(x, e) ELSE x
  <1>1. \A n \in 0..N : g[n] = IF n = 0 THEN << >> ELSE Next1(g[n - 1], i[n])
    BY ZenonT(60) DEF Sifts
  <1>2. \A n \in 0..N : h[n] = IF n = 0 THEN << >> ELSE Next1(h[n - 1], j[n])
    <2>1. \A n \in 0..M : h[n] = IF n = 0 THEN << >> ELSE Next1(h[n - 1], j[n])
      BY ZenonT(60) DEF Sifts
    <2> HIDE DEF Next1
    <2>2. QED
      BY <2>1
  <1> HIDE DEF Next1
  <1> DEFINE T == {n \in Nat : n <= N /\ g[n] # h[n]}
  <1>3. 0 \notin T
    BY <1>1, <1>2
  <1>4. ASSUME NEW n \in Nat, n + 1 \in T PROVE n \in T
    <2>1. n + 1 \in 0..N /\ n + 1 \in 1..N /\ n + 1 # 0 /\ (n + 1) - 1 = n
      BY <1>4
    <2>2. g[n + 1] = Next1(g[n], i[n + 1])
      BY <1>1, <2>1
    <2>3. h[n + 1] = Next1(h[n], j[n + 1])
      BY <1>2, <2>1
    <2>4. i[n + 1] = j[n + 1]
      BY <2>1 DEF StartsWith
    <2>5. g[n] # h[n]
      BY <1>4, <2>2, <2>3, <2>4
    <2>6. QED
      BY <2>5, <2>1
  <1>5. T \in SUBSET Nat
    OBVIOUS
  <1> HIDE DEF T
  <1>6. T = {}
    BY <1>3, <1>4, <1>5, NoLeast
  <1>7. QED
    BY <1>6 DEF T

(* The levels ms hold a journal each, of entries in E. *)
Journals(ms, E) ==
    Len(ms) \in Nat /\ \A r \in 1..Len(ms) : ms[r].journal \in Seq(E)

\* A journal is a sequence of entries.
LEMMA JournalIs ==
  ASSUME NEW ms, NEW E, Journals(ms, E)
  PROVE  \E g : /\ Joins(g, ms, Len(ms))
                /\ JournalOf(ms) = g[Len(ms)]
                /\ \A n \in 0..Len(ms) : g[n] \in Seq(E)
  <1> DEFINE N == Len(ms)
             g == CHOOSE f : Joins(f, ms, N)
  <1>1. N \in Nat /\ \A r \in 1..N : ms[r].journal \in Seq(E)
    BY DEF Journals
  <1>2. Joins(g, ms, N)
    BY <1>1, JoinsExist, Zenon
  <1>3. JournalOf(ms) = g[N]
    BY DEF JournalOf
  <1> HIDE DEF g
  <1>4. \A n \in 0..N : g[n] = IF n = 0 THEN << >> ELSE g[n - 1] \o ms[n].journal
    BY <1>2, ZenonT(60) DEF Joins
  <1> DEFINE T == {n \in Nat : n <= N /\ g[n] \notin Seq(E)}
  <1> HIDE DEF N
  <1>5. 0 \notin T
    <2>1. g[0] = << >>
      BY <1>1, <1>4
    <2>2. << >> \in Seq(E)
      OBVIOUS
    <2>3. QED
      BY <2>1, <2>2, Zenon
  <1>6. ASSUME NEW n \in Nat, n + 1 \in T PROVE n \in T
    <2>1. n + 1 \in 0..N /\ n + 1 \in 1..N /\ n + 1 # 0 /\ (n + 1) - 1 = n
      BY <1>6, <1>1
    <2>2. g[n + 1] = g[n] \o ms[n + 1].journal /\ ms[n + 1].journal \in Seq(E)
      BY <1>1, <1>4, <2>1, ZenonT(60)
    <2>3. \A s, t \in Seq(E) : s \o t \in Seq(E)
      OBVIOUS
    <2>4. g[n + 1] \notin Seq(E)
      BY <1>6
    <2>5. g[n] \notin Seq(E)
      BY <2>2, <2>3, <2>4, Zenon
    <2>6. n <= N
      BY <2>1, <1>1
    <2>7. QED
      BY <2>5, <2>6
  <1>7. T \in SUBSET Nat
    OBVIOUS
  <1> HIDE DEF T
  <1>8. T = {}
    BY <1>5, <1>6, <1>7, NoLeast
  <1>9. \A n \in 0..N : g[n] \in Seq(E)
    BY <1>8, <1>1 DEF T
  <1>10. QED
    BY <1>2, <1>3, <1>9 DEF N

\* An entry more on the top level is an entry more at the end of the journal.
LEMMA JoinAppend ==
  ASSUME NEW E, NEW s \in Seq(E), NEW t \in Seq(E), NEW x \in E,
         NEW u, Added(u, t, x), NEW j, Followed(j, s, t), NEW k, Followed(k, s, u)
  PROVE  Added(k, j, x) /\ j \in Seq(E)
  <1> DEFINE a == s \o Append(t, x)
             b == Append(s \o t, x)
  <1>1. a \in Seq(E) /\ b \in Seq(E)
    OBVIOUS
  <1>2. Len(a) = Len(b) /\ Len(a) = Len(s) + Len(t) + 1
    OBVIOUS
  <1>3. \A i \in 1..Len(a) : a[i] = b[i]
    OBVIOUS
  <1> HIDE DEF a, b
  <1>4. a = [i \in 1..Len(a) |-> a[i]] /\ b = [i \in 1..Len(b) |-> b[i]]
    BY <1>1
  <1>5. a = b
    BY <1>2, <1>3, <1>4, ZenonT(60)
  <1>6. QED
    BY <1>5 DEF a, b, Added, Followed

\* An entry that is no log, at the end of the journal, changes no log.
LEMMA SiftNoLog ==
  ASSUME NEW g, NEW h, NEW j, NEW k, NEW L \in Nat, NEW M \in Nat, M = L + 1,
         Sifts(g, j, L), Sifts(h, k, M), StartsWith(k, j, L),
         k[M][1] \notin {EventKey, TransferKey}
  PROVE  h[M] = g[L]
  <1>1. L <= M
    OBVIOUS
  <1>2. g[L] = h[L]
    BY <1>1, SiftsSame
  <1>3. M \in 0..M /\ M # 0 /\ M - 1 = L
    OBVIOUS
  <1>4. h[M] = IF k[M][1] \in {EventKey, TransferKey}
               THEN Append(h[M - 1], k[M]) ELSE h[M - 1]
    BY <1>3, ZenonT(60) DEF Sifts
  <1>5. QED
    BY <1>2, <1>3, <1>4

\* The key of the saved revision is that of no log.
LEMMA RevIsNoLog == StateRevKey \notin {EventKey, TransferKey}
  BY DEF StateRevKey, EventKey, TransferKey

\* The revision that Snapshot puts on the top level is no log.
LEMMA LogsMarked ==
  ASSUME NEW ms, NEW mt, NEW E, NEW v,
         Journals(ms, E), <<StateRevKey, v>> \in E,
         Len(mt) = Len(ms), Len(ms) > 0,
         \A r \in 1..(Len(ms) - 1) : mt[r] = ms[r],
         mt[Len(ms)].journal = Append(ms[Len(ms)].journal, <<StateRevKey, v>>)
  PROVE  LogsOf(mt) = LogsOf(ms) /\ Journals(mt, E)
  <1> DEFINE L == Len(ms)
             x == <<StateRevKey, v>>
             j == JournalOf(ms)
             k == JournalOf(mt)
  <1>0. L \in Nat /\ L > 0 /\ L \in 1..L /\ ms[L].journal \in Seq(E) /\ Len(mt) = L
    BY SMTT(60) DEF Journals
  <1>1. Journals(mt, E)
    <2> SUFFICES ASSUME NEW r \in 1..L PROVE mt[r].journal \in Seq(E)
      BY <1>0 DEF Journals
    <2>1. CASE r = L
      <3>1. \A s \in Seq(E), e \in E : Append(s, e) \in Seq(E)
        OBVIOUS
      <3>2. QED
        BY <1>0, <2>1, <3>1, ZenonT(60)
    <2>2. CASE r # L
      <3>1. r \in 1..(L - 1)
        BY <1>0, <2>2
      <3>2. mt[r] = ms[r]
        BY <3>1, Zenon
      <3>3. ms[r].journal \in Seq(E)
        BY Zenon DEF Journals
      <3>4. QED
        BY <3>2, <3>3, Zenon
    <2>3. QED
      BY <2>1, <2>2, ZenonT(60)
  <1>2. PICK g : Joins(g, ms, L) /\ j = g[L] /\ \A n \in 0..L : g[n] \in Seq(E)
    BY JournalIs, ZenonT(60)
  <1>3. PICK h : Joins(h, mt, L) /\ k = h[L]
    BY <1>1, <1>0, JournalIs, ZenonT(60)
  <1> HIDE DEF L, j, k
  <1>4. g[L - 1] = h[L - 1]
    <2>1. L - 1 \in Nat /\ L - 1 <= L
      BY <1>0
    <2>2. Alike(ms, mt, L - 1)
      BY ZenonT(60) DEF L, Alike
    <2> DEFINE M == L - 1
    <2>3. M \in Nat /\ M <= L /\ Alike(ms, mt, M)
      BY <2>1, <2>2, ZenonT(60)
    <2> HIDE DEF M
    <2>4. g[M] = h[M]
      BY <1>0, <1>2, <1>3, <2>3, JoinsSame
    <2>5. QED
      BY <2>4, ZenonT(60) DEF M
  <1>5. Followed(g[L], g[L - 1], ms[L].journal) /\ Followed(h[L], h[L - 1], mt[L].journal)
    <2>1. L \in 0..L /\ L # 0
      BY <1>0
    <2>2. /\ g[L] = IF L = 0 THEN << >> ELSE g[L - 1] \o ms[L].journal
          /\ h[L] = IF L = 0 THEN << >> ELSE h[L - 1] \o mt[L].journal
      BY <1>2, <1>3, <2>1, ZenonT(60) DEF Joins
    <2>3. QED
      BY <2>1, <2>2, ZenonT(60) DEF Followed
  <1>6. Added(mt[L].journal, ms[L].journal, x)
    BY ZenonT(60) DEF L, Added
  <1> HIDE DEF x
  <1>7. Added(k, j, x) /\ j \in Seq(E) /\ x \in E
    <2>1. g[L - 1] \in Seq(E) /\ ms[L].journal \in Seq(E) /\ x \in E
      BY <1>0, <1>2, SMTT(60) DEF x
    <2>2. Followed(j, g[L - 1], ms[L].journal) /\ Followed(k, g[L - 1], mt[L].journal)
      BY <1>2, <1>3, <1>4, <1>5, Zenon
    <2>3. QED
      BY <1>6, <2>1, <2>2, JoinAppend, ZenonT(60)
  <1>8. /\ Len(j) \in Nat /\ Len(k) \in Nat /\ Len(k) = Len(j) + 1
        /\ k[Len(j) + 1] = x /\ StartsWith(k, j, Len(j))
    <2>1. /\ Len(j) \in Nat /\ Len(k) = Len(j) + 1 /\ k[Len(j) + 1] = x
          /\ \A i \in 1..Len(j) : k[i] = j[i]
      BY <1>7, Appended
    <2>2. Len(j) + 1 \in Nat /\ StartsWith(k, j, Len(j))
      BY <2>1 DEF StartsWith
    <2>3. QED
      BY <2>1, <2>2, Zenon
  <1> DEFINE sj == CHOOSE f : Sifts(f, j, Len(j))
             sk == CHOOSE f : Sifts(f, k, Len(k))
  <1>9. Sifts(sj, j, Len(j)) /\ Sifts(sk, k, Len(k))
    BY <1>8, SiftsExist, Zenon
  <1>10. LogsOf(ms) = sj[Len(j)] /\ LogsOf(mt) = sk[Len(k)]
    BY DEF LogsOf, j, k
  <1> HIDE DEF sj, sk
  <1>11. x[1] \notin {EventKey, TransferKey}
    BY RevIsNoLog DEF x
  <1>12. sk[Len(k)] = sj[Len(j)]
    <2> DEFINE n == Len(j)
               m == Len(k)
    <2>1. n \in Nat /\ m \in Nat /\ m = n + 1 /\ k[m] = x /\ StartsWith(k, j, n)
      BY <1>8, Zenon
    <2>2. k[m][1] \notin {EventKey, TransferKey}
      BY <2>1, <1>11, ZenonT(60)
    <2>3. Sifts(sj, j, n) /\ Sifts(sk, k, m)
      BY <1>9, ZenonT(60)
    <2> HIDE DEF n, m
    <2>4. sk[m] = sj[n]
      BY <2>1, <2>2, <2>3, SiftNoLog
    <2>5. QED
      BY <2>4 DEF n, m
  <1>13. QED
    BY <1>1, <1>10, <1>12, Zenon

\* A level that was just pushed holds no log.
LEMMA LogsPushed ==
  ASSUME NEW ms, NEW mt, NEW E, Journals(ms, E), Len(mt) = Len(ms) + 1,
         \A r \in 1..Len(ms) : mt[r] = ms[r], mt[Len(ms) + 1].journal = << >>
  PROVE  LogsOf(mt) = LogsOf(ms)
  <1> DEFINE L == Len(ms)
             j == JournalOf(ms)
             k == JournalOf(mt)
  <1>0. L \in Nat /\ Len(mt) = L + 1 /\ L + 1 \in Nat
    BY DEF Journals
  <1>1. Journals(mt, E)
    <2> SUFFICES ASSUME NEW r \in 1..(L + 1) PROVE mt[r].journal \in Seq(E)
      BY <1>0 DEF Journals
    <2>1. CASE r = L + 1
      <3>1. << >> \in Seq(E)
        OBVIOUS
      <3>2. QED
        BY <2>1, <3>1, ZenonT(60)
    <2>2. CASE r # L + 1
      BY <1>0, <2>2 DEF Journals
    <2>3. QED
      BY <2>1, <2>2
  <1>2. PICK g : Joins(g, ms, L) /\ j = g[L] /\ \A n \in 0..L : g[n] \in Seq(E)
    BY JournalIs
  <1>3. PICK h : Joins(h, mt, L + 1) /\ k = h[L + 1]
    BY <1>1, <1>0, JournalIs
  <1>4. Alike(ms, mt, L)
    BY <1>0 DEF Alike
  <1>5. mt[L + 1].journal = << >>
    OBVIOUS
  <1> HIDE DEF L, j, k
  <1>6. L <= L /\ L <= L + 1 /\ L \in 0..L /\ L + 1 \in 0..(L + 1) /\ L + 1 # 0 /\ (L + 1) - 1 = L
    BY <1>0
  <1>7. g[L] = h[L]
    <2> DEFINE M == L + 1
    <2>1. Joins(h, mt, M) /\ M \in Nat /\ L <= M
      BY <1>0, <1>3
    <2> HIDE DEF M
    <2>2. QED
      BY <1>0, <1>2, <1>4, <2>1, JoinsSame
  <1>8. h[L + 1] = h[L] \o << >>
    BY <1>3, <1>5, <1>6, ZenonT(60) DEF Joins
  <1>9. g[L] \in Seq(E)
    BY <1>2, <1>6
  <1>10. \A s \in Seq(E) : s \o << >> = s
    OBVIOUS
  <1>11. j = k
    BY <1>2, <1>3, <1>7, <1>8, <1>9, <1>10, ZenonT(60)
  <1>12. QED
    BY <1>11 DEF LogsOf, j, k

-----------------------------------------------------------------------------
(***************************************************************************)
(* The operations of StateDB write on the top levels of the two maps only. *)
(***************************************************************************)

(* Both maps of a state of the clause are proper. *)
Sound(d) ==
    /\ d = [state |-> d.state, repo |-> d.repo]
    /\ Proper(d.state)
    /\ Proper(d.repo)

(* x is d after writes on the two top levels. *)
Writes(d, x) ==
    /\ Sound(x)
    /\ Depth(x.state) = Depth(d.state)
    /\ Depth(x.repo) = Depth(d.repo)
    /\ SameLevels(x.state, d.state, Depth(d.state) - 1)
    /\ SameLevels(x.repo, d.repo, Depth(d.repo) - 1)

\* NewDB is sound.
LEMMA NewSound == Sound(NewDB)
  BY NewProper DEF Sound, NewDB

\* Writes composes, from no write at all.
LEMMA WritesNothing ==
  ASSUME NEW d, Sound(d)
  PROVE  Writes(d, d)
  BY DEF Writes, SameLevels

\* A write after writes is more of them.
LEMMA WritesMore ==
  ASSUME NEW d, NEW x, NEW y, Writes(d, x), Writes(x, y)
  PROVE  Writes(d, y)
  BY DEF Writes, SameLevels

\* A Put in the map of accounts and storage is a write.
LEMMA PutState ==
  ASSUME NEW d, Sound(d), NEW k, NEW v
  PROVE  Writes(d, [d EXCEPT !.state = Put(@, k, v)])
  <1>1. [d EXCEPT !.state = Put(@, k, v)] = [state |-> Put(d.state, k, v), repo |-> d.repo]
    BY DEF Sound
  <1> DEFINE p == Put(d.state, k, v)
  <1>2. /\ Proper(p)
        /\ Depth(p) = Depth(d.state)
        /\ \A r \in 1..(Depth(d.state) - 1) : p.mapStack[r] = d.state.mapStack[r]
    BY PutProper DEF Sound
  <1> HIDE DEF p
  <1>3. Writes(d, [state |-> p, repo |-> d.repo])
    BY <1>2 DEF Writes, Sound, SameLevels
  <1>4. QED
    BY <1>1, <1>3 DEF p

\* A Put in repo is a write.
LEMMA PutRepo ==
  ASSUME NEW d, Sound(d), NEW k, NEW v
  PROVE  Writes(d, [d EXCEPT !.repo = Put(@, k, v)])
  <1>1. [d EXCEPT !.repo = Put(@, k, v)] = [state |-> d.state, repo |-> Put(d.repo, k, v)]
    BY DEF Sound
  <1> DEFINE p == Put(d.repo, k, v)
  <1>2. /\ Proper(p)
        /\ Depth(p) = Depth(d.repo)
        /\ \A r \in 1..(Depth(d.repo) - 1) : p.mapStack[r] = d.repo.mapStack[r]
    BY PutProper DEF Sound
  <1> HIDE DEF p
  <1>3. Writes(d, [state |-> d.state, repo |-> p])
    BY <1>2 DEF Writes, Sound, SameLevels
  <1>4. QED
    BY <1>1, <1>3 DEF p

\* What was written is sound.
LEMMA WritesSound ==
  ASSUME NEW d, NEW x, Writes(d, x)
  PROVE  Sound(x)
  BY DEF Writes

\* Each setter of the state is made of such writes.
LEMMA UpdateWrites ==
  ASSUME NEW d, Sound(d), NEW a, NEW acc
  PROVE  Writes(d, updateAccount(d, a, acc))
  BY PutState, Zenon DEF updateAccount

\* SetBalance writes on the top levels.
LEMMA SetBalanceWrites ==
  ASSUME NEW d, Sound(d), NEW w, NEW a, NEW n
  PROVE  Writes(d, SetBalance(d, w, a, n))
  BY UpdateWrites, Zenon DEF SetBalance

\* SetMaster writes on the top levels.
LEMMA SetMasterWrites ==
  ASSUME NEW d, Sound(d), NEW w, NEW a, NEW m
  PROVE  Writes(d, SetMaster(d, w, a, m))
  BY UpdateWrites, Zenon DEF SetMaster

\* SetCode writes on the top levels.
LEMMA SetCodeWrites ==
  ASSUME NEW d, Sound(d), NEW w, NEW a, NEW code
  PROVE  Writes(d, SetCode(d, w, a, code))
  <1> DEFINE put == [d EXCEPT !.state = Put(@, CodeKey(a), code)]
             acc == [getAccount(put, w, a) EXCEPT !.codeHash = code]
  <1>1. Writes(d, put)
    BY PutState, Zenon
  <1>2. SetCode(d, w, a, code) = updateAccount(put, a, acc)
    BY Zenon DEF SetCode
  <1> HIDE DEF put, acc
  <1>3. Writes(put, updateAccount(put, a, acc))
    BY <1>1, WritesSound, UpdateWrites, Zenon
  <1>4. QED
    BY <1>1, <1>2, <1>3, WritesMore, Zenon

\* SetState writes on the top levels.
LEMMA SetStateWrites ==
  ASSUME NEW d, Sound(d), NEW a, NEW v
  PROVE  Writes(d, SetState(d, a, v))
  BY PutState, Zenon DEF SetState

\* AddLog writes on the top levels.
LEMMA AddLogWrites ==
  ASSUME NEW d, Sound(d), NEW e
  PROVE  Writes(d, AddLog(d, e))
  BY PutRepo, Zenon DEF AddLog

\* AddTransfer writes on the top levels.
LEMMA AddTransferWrites ==
  ASSUME NEW d, Sound(d), NEW t
  PROVE  Writes(d, AddTransfer(d, t))
  BY PutRepo, Zenon DEF AddTransfer

\* Suicide writes on the top levels.
LEMMA SuicideWrites ==
  ASSUME NEW d, Sound(d), NEW w, NEW a
  PROVE  Writes(d, Suicide(d, w, a))
  <1> DEFINE put == [d EXCEPT !.state = Put(@, CodeKey(a), FALSE)]
             del == updateAccount(put, a, emptyAccount)
             out == [del EXCEPT !.repo = Put(@, SuicideKey(a), TRUE)]
  <1>1. Writes(d, put)
    BY PutState, Zenon
  <1>2. Suicide(d, w, a) = IF ~Exist(d, w, a) THEN d ELSE out
    BY DEF Suicide
  <1> HIDE DEF put
  <1>3. Writes(d, del)
    BY <1>1, WritesSound, UpdateWrites, WritesMore, Zenon
  <1> HIDE DEF del
  <1>4. Writes(d, out)
    <2>1. Writes(del, out)
      BY <1>3, WritesSound, PutRepo, Zenon
    <2> HIDE DEF out
    <2>2. QED
      BY <1>3, <2>1, WritesMore, Zenon
  <1> HIDE DEF out
  <1>5. QED
    BY <1>2, <1>4, WritesNothing

\* The transfer of a value writes on the top levels.
LEMMA TransferWrites ==
  ASSUME NEW d, Sound(d), NEW w, NEW from, NEW to, NEW n
  PROVE  Writes(d, Transfer(d, w, from, to, n))
  <1> DEFINE sub == SetBalance(d, w, from, GetBalance(d, w, from) - n)
             add == SetBalance(sub, w, to, GetBalance(sub, w, to) + n)
             out == AddTransfer(add, <<from, to, n>>)
  <1>1. Transfer(d, w, from, to, n) = IF n = 0 THEN d ELSE out
    BY DEF Transfer
  <1>2. Writes(d, sub)
    BY SetBalanceWrites, Zenon
  <1> HIDE DEF sub
  <1>3. Writes(d, add)
    BY <1>2, WritesSound, SetBalanceWrites, WritesMore, Zenon
  <1> HIDE DEF add
  <1>4. Writes(d, out)
    BY <1>3, WritesSound, AddTransferWrites, WritesMore, Zenon
  <1> HIDE DEF out
  <1>5. QED
    BY <1>1, <1>4, WritesNothing

==============================================================================
