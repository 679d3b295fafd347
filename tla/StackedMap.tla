----------------------------- MODULE StackedMap -----------------------------
(***************************************************************************)
(* The map with save points of common/stackedmap.  A value is a record     *)
(*                                                                         *)
(*   mapStack        the levels, lowest first; a level holds the pairs put *)
(*                   since the Push that made it (kvs) and the order they  *)
(*                   were put in (journal)                                 *)
(*   keyRevisionMap  for every key put, the stack of the levels that hold  *)
(*                   it, so that Get need not walk down the levels         *)
(*                                                                         *)
(* Levels count from 0, as in the code, so level r is mapStack[r + 1].     *)
(* The source behind the lowest level is the argument src of Get, a        *)
(* function of the keys.                                                   *)
(***************************************************************************)
EXTENDS Naturals, Sequences

Top(s) == s[Len(s)]

Popped(s) == SubSeq(s, 1, Len(s) - 1)

EmptyMap == [k \in {} |-> k]

newLevel == [kvs |-> EmptyMap, journal |-> << >>]

New == [mapStack |-> <<newLevel>>, keyRevisionMap |-> EmptyMap]

Depth(sm) == Len(sm.mapStack)

(* Push returns the depth before it, PushDepth. *)
Push(sm) == [sm EXCEPT !.mapStack = Append(@, newLevel)]

PushDepth(sm) == Depth(sm)

(* Every key of the top level loses its newest revision, and its entry     *)
(* when that was the only one.                                             *)
Pop(sm) ==
    LET gone == DOMAIN Top(sm.mapStack).kvs
        revs == sm.keyRevisionMap
    IN  [mapStack |-> Popped(sm.mapStack),
         keyRevisionMap |->
            [k \in {k \in DOMAIN revs : k \in gone => Len(revs[k]) > 1} |->
                IF k \in gone THEN Popped(revs[k]) ELSE revs[k]]]

PopTo(sm, depth) ==
    LET pops[n \in 0..Depth(sm)] == IF n = 0 THEN sm ELSE Pop(pops[n - 1])
    IN  IF Depth(sm) > depth THEN pops[Depth(sm) - depth] ELSE sm

Get(sm, src, key) ==
    IF key \in DOMAIN sm.keyRevisionMap
    THEN LET lvl == sm.mapStack[Top(sm.keyRevisionMap[key]) + 1]
         IN  IF key \in DOMAIN lvl.kvs THEN lvl.kvs[key] ELSE src[key]
    ELSE src[key]

\* Mutant: the revision is pushed at every Put.
Put_PushesAlways(sm, key, value) ==
    LET top  == Top(sm.mapStack)
        revs == sm.keyRevisionMap
        old  == IF key \in DOMAIN revs THEN revs[key] ELSE << >>
        kvs  == [k \in DOMAIN top.kvs \cup {key} |->
                    IF k = key THEN value ELSE top.kvs[k]]
    IN  [mapStack |->
            [sm.mapStack EXCEPT ![Len(sm.mapStack)] =
                [kvs |-> kvs, journal |-> Append(top.journal, <<key, value>>)]],
         keyRevisionMap |->
            [k \in DOMAIN revs \cup {key} |->
                IF k = key THEN Append(old, Len(sm.mapStack) - 1) ELSE revs[k]]]

(* The revision is pushed once for each level a key is put in. *)
Put(sm, key, value) ==
    LET top  == Top(sm.mapStack)
        rev  == Len(sm.mapStack) - 1
        revs == sm.keyRevisionMap
        kvs  == [k \in DOMAIN top.kvs \cup {key} |->
                    IF k = key THEN value ELSE top.kvs[k]]
        stack == IF key \notin DOMAIN revs THEN <<rev>>
                 ELSE IF Top(revs[key]) = rev THEN revs[key]
                 ELSE Append(revs[key], rev)
    IN  [mapStack |->
            [sm.mapStack EXCEPT ![Len(sm.mapStack)] =
                [kvs |-> kvs, journal |-> Append(top.journal, <<key, value>>)]],
         keyRevisionMap |->
            [k \in DOMAIN revs \cup {key} |->
                IF k = key THEN stack ELSE revs[k]]]

(* The entries a traversal visits: level by level, in the order put. *)
Journal(sm) ==
    LET upTo[n \in 0..Depth(sm)] ==
            IF n = 0 THEN << >> ELSE upTo[n - 1] \o sm.mapStack[n].journal
    IN  upTo[Depth(sm)]

-----------------------------------------------------------------------------
(* The maps with save points from keys to values. *)
Level(Key, Value) ==
    [kvs : UNION {[D -> Value] : D \in SUBSET Key}, journal : Seq(Key \X Value)]

StackedMaps(Key, Value) ==
    [mapStack : Seq(Level(Key, Value)),
     keyRevisionMap : UNION {[D -> Seq(Nat)] : D \in SUBSET Key}]

(***************************************************************************)
(* What the revision index promises: the stack of a key lists, in          *)
(* increasing order, exactly the levels that hold the key.                 *)
(***************************************************************************)
Levels(sm, k) ==
    {r \in 0..(Depth(sm) - 1) : k \in DOMAIN sm.mapStack[r + 1].kvs}

(* revs lists the numbers of L in increasing order. *)
Lists(revs, L) ==
    /\ Len(revs) > 0
    /\ \A i \in 1..Len(revs) : revs[i] \in L
    /\ \A r \in L : \E i \in 1..Len(revs) : revs[i] = r
    /\ \A i, j \in 1..Len(revs) : i < j => revs[i] < revs[j]

Indexed(sm) ==
    /\ Depth(sm) > 0
    /\ \A r \in 1..Depth(sm) :
         \A k \in DOMAIN sm.mapStack[r].kvs : k \in DOMAIN sm.keyRevisionMap
    /\ \A k \in DOMAIN sm.keyRevisionMap :
         Lists(sm.keyRevisionMap[k], Levels(sm, k))

(* The map the levels below depth stand for, by walking down them. *)
Below(sm, src, key, depth) ==
    LET holds == {r \in 1..depth : key \in DOMAIN sm.mapStack[r].kvs}
    IN  IF holds = {} THEN src[key]
        ELSE sm.mapStack[CHOOSE r \in holds : \A q \in holds : q <= r].kvs[key]
=============================================================================
