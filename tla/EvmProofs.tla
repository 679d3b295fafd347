------------------------------ MODULE EvmProofs ------------------------------
(***************************************************************************)
(* The state database under the frames of the machine.  On two maps with   *)
(* save points Snapshot and RevertToSnapshot bring back all that a clause  *)
(* can change, and what holds of the open frames survives every write,     *)
(* every frame entered and every frame left.                               *)
(*                                                                         *)
(* The machine on it: a frame that fails leaves nothing behind, and below  *)
(* a static call nothing changes, however calls are nested.                *)
(***************************************************************************)
EXTENDS Evm, StackedMapProofs

\* OnCreateContract writes on the top levels.
LEMMA OnCreateWrites ==
  ASSUME NEW d, Sound(d), NEW addr, NEW caller
  PROVE  Writes(d, OnCreateContract(d, addr, caller))
  <1> DEFINE set == SetMaster(d, World, addr, caller)
  <1>1. Writes(d, set)
    BY SetMasterWrites, Zenon
  <1>2. OnCreateContract(d, addr, caller) = AddLog(set, addr)
    BY DEF OnCreateContract
  <1> HIDE DEF set
  <1>3. QED
    BY <1>1, <1>2, WritesSound, AddLogWrites, WritesMore, Zenon

-----------------------------------------------------------------------------
(***************************************************************************)
(* Snapshot and RevertToSnapshot: repo keeps the revision of state that    *)
(* belongs to each of its own.                                             *)
(***************************************************************************)

(* The revision of state that repo keeps on level r, and what makes r a    *)
(* snapshot that can be reverted to.                                       *)
SavedRev(d, r) == d.repo.mapStack[r].kvs[StateRevKey]

Saved(d, r) ==
    /\ r \in Nat \ {0}
    /\ r < Depth(d.repo)
    /\ StateRevKey \in DOMAIN d.repo.mapStack[r].kvs
    /\ SavedRev(d, r) \in Nat \ {0}
    /\ SavedRev(d, r) < Depth(d.state)

(* What d shows, and what it showed when snapshot r was taken. *)
Seen(d) == [state |-> [k \in DOMAIN World |-> Get(d.state, World, k)],
            logs  |-> GetLogs(d)]

SeenAt(d, r) ==
    [state |-> [k \in DOMAIN World |-> Below(d.state, World, k, SavedRev(d, r))],
     logs  |-> LogsOf(SubSeq(d.repo.mapStack, 1, r))]

\* What a clause can change, as a function of db.
LEMMA VisibleIsSeen == Visible = Seen(db)
  BY DEF Visible, Seen

\* The entries of the journals of a proper map form a set.
LEMMA ProperJournals ==
  ASSUME NEW sm, Proper(sm), NEW x
  PROVE  \E E : x \in E /\ Journals(sm.mapStack, E)
  <1>1. PICK K, V : sm \in StackedMaps(K, V)
    BY DEF Proper
  <1>2. \A r \in 1..Len(sm.mapStack) : sm.mapStack[r].journal \in Seq(K \X V)
    <2>1. \A r \in 1..Len(sm.mapStack) : sm.mapStack[r] \in Level(K, V)
      BY <1>1, Parts
    <2>2. \A l \in Level(K, V) : l.journal \in Seq(K \X V)
      BY DEF Level
    <2>3. QED
      BY <2>1, <2>2
  <1>3. Len(sm.mapStack) \in Nat
    BY <1>1, Parts
  <1> DEFINE E == (K \X V) \cup {x}
  <1>4. K \X V \subseteq E /\ x \in E
    OBVIOUS
  <1> HIDE DEF E
  <1>5. \A s \in Seq(K \X V) : s \in Seq(E)
    BY <1>4
  <1>6. Journals(sm.mapStack, E)
    BY <1>2, <1>3, <1>5, Zenon DEF Journals
  <1>7. QED
    BY <1>4, <1>6

(* The level new is old with a pair put on it. *)
PutOn(new, old, key, value) ==
    /\ key \in DOMAIN new.kvs
    /\ new.kvs[key] = value
    /\ new.journal = Append(old.journal, <<key, value>>)

\* Put writes its pair on the top level and at the end of its journal.
LEMMA PutTop ==
  ASSUME NEW sm, Proper(sm), NEW key, NEW value
  PROVE  PutOn(Put(sm, key, value).mapStack[Depth(sm)], sm.mapStack[Depth(sm)], key, value)
  <1> DEFINE old == sm.mapStack[Depth(sm)]
             kvs == [k \in DOMAIN old.kvs \cup {key} |->
                        IF k = key THEN value ELSE old.kvs[k]]
             new == [kvs |-> kvs, journal |-> Append(old.journal, <<key, value>>)]
  <1>1. Put(sm, key, value).mapStack = [sm.mapStack EXCEPT ![Len(sm.mapStack)] = new]
    BY DEF Put, Top, Depth
  <1>2. Len(sm.mapStack) = Depth(sm) /\ Depth(sm) \in DOMAIN sm.mapStack
    <2>1. PICK S : sm.mapStack \in Seq(S)
      BY ProperParts
    <2>2. Depth(sm) \in Nat \ {0} /\ Len(sm.mapStack) = Depth(sm)
      BY ProperParts
    <2>3. QED
      BY <2>1, <2>2
  <1>3. key \in DOMAIN kvs /\ kvs[key] = value
    OBVIOUS
  <1> HIDE DEF kvs
  <1>4. new.kvs = kvs /\ new.journal = Append(old.journal, <<key, value>>)
    BY ZenonT(60)
  <1> HIDE DEF new, old
  <1>5. Put(sm, key, value).mapStack[Depth(sm)] = new
    BY <1>1, <1>2
  <1>6. PutOn(new, old, key, value)
    BY <1>3, <1>4 DEF PutOn
  <1>7. QED
    BY <1>5, <1>6 DEF old

\* An empty level shows what is below it.
LEMMA BelowEmpty ==
  ASSUME NEW sm, NEW d \in Nat, DOMAIN sm.mapStack[d + 1].kvs = {}, NEW src, NEW key
  PROVE  Below(sm, src, key, d + 1) = Below(sm, src, key, d)
  <1> DEFINE a == {r \in 1..(d + 1) : key \in DOMAIN sm.mapStack[r].kvs}
             b == {r \in 1..d : key \in DOMAIN sm.mapStack[r].kvs}
  <1>1. a = b
    <2>1. \A r \in 1..(d + 1) : r \in 1..d \/ r = d + 1
      OBVIOUS
    <2>2. \A r \in 1..d : r \in 1..(d + 1)
      OBVIOUS
    <2>3. QED
      BY <2>1, <2>2
  <1> DEFINE t == CHOOSE r \in b : \A q \in b : q <= r
  <1>2. CASE b = {}
    BY <1>1, <1>2, Zenon DEF Below
  <1>3. CASE b # {}
    <2>1. Below(sm, src, key, d) = sm.mapStack[t].kvs[key]
      BY <1>3, Zenon DEF Below
    <2>2. Below(sm, src, key, d + 1) = sm.mapStack[t].kvs[key]
      BY <1>1, <1>3, Zenon DEF Below
    <2>3. QED
      BY <2>1, <2>2, ZenonT(60)
  <1>4. QED
    BY <1>2, <1>3

\* Push adds an empty level.
LEMMA PushTop ==
  ASSUME NEW sm, Proper(sm)
  PROVE  /\ DOMAIN Push(sm).mapStack[Depth(sm) + 1].kvs = {}
         /\ Push(sm).mapStack[Depth(sm) + 1].journal = << >>
  <1>1. PICK K, V : sm \in StackedMaps(K, V)
    BY DEF Proper
  <1>2. sm.mapStack \in Seq(Level(K, V)) /\ newLevel \in Level(K, V) /\ DOMAIN newLevel.kvs = {}
    BY <1>1, Parts, NewLevelTyped
  <1>3. Push(sm).mapStack = Append(sm.mapStack, newLevel)
    BY <1>1 DEF Push, StackedMaps
  <1>4. Append(sm.mapStack, newLevel)[Len(sm.mapStack) + 1] = newLevel
    BY <1>2
  <1>5. newLevel.journal = << >>
    BY DEF newLevel
  <1>6. QED
    BY <1>2, <1>3, <1>4, <1>5 DEF Depth

\* Below depth n two sequences of levels are cut to the same one.
LEMMA SameCut ==
  ASSUME NEW sm, NEW tm, Proper(sm), Proper(tm), NEW n \in Nat,
         n <= Depth(sm), n <= Depth(tm), SameLevels(sm, tm, n)
  PROVE  SubSeq(sm.mapStack, 1, n) = SubSeq(tm.mapStack, 1, n)
  <1>1. PICK S : sm.mapStack \in Seq(S)
    BY ProperParts
  <1>2. PICK T : tm.mapStack \in Seq(T)
    BY ProperParts
  <1>3. Len(sm.mapStack) = Depth(sm) /\ Len(tm.mapStack) = Depth(tm)
        /\ Depth(sm) \in Nat /\ Depth(tm) \in Nat
    BY ProperParts
  <1> DEFINE a == SubSeq(sm.mapStack, 1, n)
             b == SubSeq(tm.mapStack, 1, n)
  <1>4. a = [i \in 1..n |-> sm.mapStack[i]]
    BY <1>1, <1>3
  <1>5. b = [i \in 1..n |-> tm.mapStack[i]]
    BY <1>2, <1>3
  <1> HIDE DEF a, b
  <1>6. a = b
    BY <1>4, <1>5 DEF SameLevels
  <1>7. QED
    BY <1>6 DEF a, b

\* Snapshot keeps all levels but for the revision it puts on the top of repo.
LEMMA SnapshotSaves ==
  ASSUME NEW d, Sound(d)
  PROVE  LET x == Snapshot(d)
             r == Depth(d.repo)
             e == Depth(d.state)
         IN  /\ Sound(x)
             /\ Depth(x.state) = e + 1 /\ Depth(x.repo) = r + 1
             /\ SameLevels(x.state, d.state, e)
             /\ SameLevels(x.repo, d.repo, r - 1)
             /\ DOMAIN x.state.mapStack[e + 1].kvs = {}
             /\ Saved(x, r) /\ SavedRev(x, r) = e
             /\ LogsOf(SubSeq(x.repo.mapStack, 1, r)) = LogsOf(d.repo.mapStack)
             /\ LogsOf(x.repo.mapStack) = LogsOf(d.repo.mapStack)
  <1> DEFINE r == Depth(d.repo)
             e == Depth(d.state)
             s == Push(d.state)
             p == Put(d.repo, StateRevKey, e)
             q == Push(p)
  <1>0. Snapshot(d) = [state |-> s, repo |-> q]
    BY DEF Snapshot, PushDepth
  <1>1. Proper(d.state) /\ Proper(d.repo)
    BY DEF Sound
  <1>2. r \in Nat \ {0} /\ e \in Nat \ {0}
    BY <1>1, ProperParts
  <1>3. Proper(s) /\ Depth(s) = e + 1 /\ SameLevels(s, d.state, e)
        /\ DOMAIN s.mapStack[e + 1].kvs = {}
    BY <1>1, PushProper, PushTop DEF SameLevels
  <1>4. Proper(p) /\ Depth(p) = r /\ SameLevels(p, d.repo, r - 1)
    BY <1>1, PutProper DEF SameLevels
  <1>5. PutOn(p.mapStack[r], d.repo.mapStack[r], StateRevKey, e)
    BY <1>1, PutTop, Zenon
  <1> HIDE DEF p, s
  <1>6. Proper(q) /\ Depth(q) = r + 1 /\ SameLevels(q, p, r)
        /\ q.mapStack[r + 1].journal = << >>
    BY <1>4, PushProper, PushTop DEF SameLevels
  <1> HIDE DEF q, r, e
  <1>7. SameLevels(q, d.repo, r - 1)
    BY <1>2, <1>4, <1>6 DEF SameLevels
  <1>8. q.mapStack[r] = p.mapStack[r]
    BY <1>2, <1>6 DEF SameLevels
  <1>9. LogsOf(p.mapStack) = LogsOf(d.repo.mapStack) /\ LogsOf(q.mapStack) = LogsOf(p.mapStack)
    <2>1. PICK E : <<StateRevKey, e>> \in E /\ Journals(d.repo.mapStack, E)
      BY <1>1, ProperJournals
    <2>2. Len(d.repo.mapStack) = r /\ Len(p.mapStack) = r /\ Len(q.mapStack) = r + 1 /\ r > 0
      BY <1>1, <1>2, <1>4, <1>6, ProperParts DEF r
    <2>3. \A n \in 1..(r - 1) : p.mapStack[n] = d.repo.mapStack[n]
      BY <1>4 DEF SameLevels
    <2>4. \A n \in 1..r : q.mapStack[n] = p.mapStack[n]
      BY <1>6 DEF SameLevels
    <2> DEFINE md == d.repo.mapStack
               mp == p.mapStack
               mq == q.mapStack
    <2>5. /\ Len(md) > 0 /\ Len(mp) = Len(md) /\ \A n \in 1..(Len(md) - 1) : mp[n] = md[n]
          /\ mp[Len(md)].journal = Append(md[Len(md)].journal, <<StateRevKey, e>>)
          /\ Len(mq) = Len(mp) + 1 /\ \A n \in 1..Len(mp) : mq[n] = mp[n]
          /\ mq[Len(mp) + 1].journal = << >>
      <3>1. p.mapStack[r].journal = Append(d.repo.mapStack[r].journal, <<StateRevKey, e>>)
        BY <1>5, ZenonT(60) DEF PutOn
      <3>2. QED
        BY <1>6, <2>2, <2>3, <2>4, <3>1, ZenonT(60)
    <2>6. Journals(md, E)
      BY <2>1
    <2> HIDE DEF md, mp, mq
    <2>7. LogsOf(mp) = LogsOf(md) /\ Journals(mp, E)
      BY <2>1, <2>5, <2>6, LogsMarked, ZenonT(60)
    <2>8. LogsOf(mq) = LogsOf(mp)
      BY <2>5, <2>7, LogsPushed
    <2>9. QED
      BY <2>7, <2>8 DEF md, mp, mq
  <1>10. SubSeq(q.mapStack, 1, r) = p.mapStack
    <2>1. r <= Depth(q) /\ r <= Depth(p) /\ r \in Nat
      BY <1>2, <1>4, <1>6
    <2>2. SubSeq(q.mapStack, 1, r) = SubSeq(p.mapStack, 1, r)
      BY <1>4, <1>6, <2>1, SameCut
    <2>3. PICK S : p.mapStack \in Seq(S)
      BY <1>4, ProperParts
    <2>4. SubSeq(p.mapStack, 1, r) = p.mapStack
      BY <2>3, <1>4 DEF Depth
    <2>5. QED
      BY <2>2, <2>4, ZenonT(60)
  <1> DEFINE x == [state |-> s, repo |-> q]
  <1>11. x.state = s /\ x.repo = q /\ x = [state |-> x.state, repo |-> x.repo]
    OBVIOUS
  <1> HIDE DEF x
  <1>12. Sound(x)
    BY <1>3, <1>6, <1>11 DEF Sound
  <1>13. SavedRev(x, r) = e
    BY <1>5, <1>8, <1>11, ZenonT(60) DEF SavedRev, PutOn
  <1>14. Saved(x, r)
    <2>1. r < Depth(x.repo) /\ e < Depth(x.state)
      BY <1>2, <1>3, <1>6, <1>11
    <2>2. StateRevKey \in DOMAIN x.repo.mapStack[r].kvs
      BY <1>5, <1>8, <1>11, ZenonT(60) DEF PutOn
    <2>3. QED
      BY <1>2, <1>13, <2>1, <2>2, Zenon DEF Saved
  <1>15. Snapshot(d) = x
    BY <1>0 DEF x
  <1>16. /\ Sound(x)
         /\ Depth(x.state) = e + 1 /\ Depth(x.repo) = r + 1
         /\ SameLevels(x.state, d.state, e)
         /\ SameLevels(x.repo, d.repo, r - 1)
         /\ DOMAIN x.state.mapStack[e + 1].kvs = {}
         /\ Saved(x, r) /\ SavedRev(x, r) = e
         /\ LogsOf(SubSeq(x.repo.mapStack, 1, r)) = LogsOf(d.repo.mapStack)
         /\ LogsOf(x.repo.mapStack) = LogsOf(d.repo.mapStack)
    BY <1>3, <1>6, <1>7, <1>9, <1>10, <1>11, <1>12, <1>13, <1>14, ZenonT(60)
  <1>17. QED
    BY <1>15, <1>16 DEF r, e

\* Reverting to a snapshot cuts both maps where they were when it was taken.
LEMMA RevertCuts ==
  ASSUME NEW d, Sound(d), NEW r, Saved(d, r)
  PROVE  LET x == RevertToSnapshot(d, r)
         IN  /\ Sound(x)
             /\ x.repo.mapStack = SubSeq(d.repo.mapStack, 1, r)
             /\ x.state.mapStack = SubSeq(d.state.mapStack, 1, SavedRev(d, r))
             /\ Depth(x.repo) = r /\ Depth(x.state) = SavedRev(d, r)
             /\ SameLevels(x.repo, d.repo, r)
             /\ SameLevels(x.state, d.state, SavedRev(d, r))
  <1> DEFINE e == SavedRev(d, r)
             repo == PopTo(d.repo, r)
             src == [k \in {StateRevKey} |-> Missing]
             srev == Get(repo, src, StateRevKey)
             state == PopTo(d.state, e)
  <1>1. Proper(d.state) /\ Proper(d.repo)
    BY DEF Sound
  <1>2. /\ r \in Nat \ {0} /\ r < Depth(d.repo) /\ e \in Nat \ {0} /\ e < Depth(d.state)
        /\ Depth(d.repo) \in Nat /\ Depth(d.state) \in Nat
        /\ StateRevKey \in DOMAIN d.repo.mapStack[r].kvs
        /\ d.repo.mapStack[r].kvs[StateRevKey] = e
    BY <1>1, ProperParts, ZenonT(60) DEF Saved, SavedRev
  <1> HIDE DEF e
  <1>3. r <= Depth(d.repo) /\ e <= Depth(d.state)
    BY <1>2
  <1>4. Proper(repo) /\ repo.mapStack = SubSeq(d.repo.mapStack, 1, r)
    BY <1>1, <1>2, <1>3, PopToProper, Zenon
  <1>5. Proper(state) /\ state.mapStack = SubSeq(d.state.mapStack, 1, e)
    BY <1>1, <1>2, <1>3, PopToProper
  <1> HIDE DEF repo, state
  <1>6. Depth(repo) = r /\ SameLevels(repo, d.repo, r)
    <2>1. PICK S : d.repo.mapStack \in Seq(S)
      BY <1>1, ProperParts
    <2>2. r \in Nat /\ r <= Len(d.repo.mapStack)
      BY <1>2, <1>3 DEF Depth
    <2>3. Len(SubSeq(d.repo.mapStack, 1, r)) = r
          /\ \A i \in 1..r : SubSeq(d.repo.mapStack, 1, r)[i] = d.repo.mapStack[i]
      BY <2>1, <2>2, Cut, ZenonT(60)
    <2>4. QED
      BY <1>4, <2>3, ZenonT(60) DEF Depth, SameLevels
  <1>7. Depth(state) = e /\ SameLevels(state, d.state, e)
    <2>1. PICK S : d.state.mapStack \in Seq(S)
      BY <1>1, ProperParts
    <2>2. e \in Nat /\ e <= Len(d.state.mapStack)
      BY <1>2, <1>3 DEF Depth
    <2>3. Len(SubSeq(d.state.mapStack, 1, e)) = e
          /\ \A i \in 1..e : SubSeq(d.state.mapStack, 1, e)[i] = d.state.mapStack[i]
      BY <2>1, <2>2, Cut, ZenonT(60)
    <2>4. QED
      BY <1>5, <2>3, ZenonT(60) DEF Depth, SameLevels
  <1>8. srev = e
    <2>1. srev = Below(repo, src, StateRevKey, r)
      BY <1>4, <1>6, GetProper
    <2> DEFINE holds == {n \in 1..r : StateRevKey \in DOMAIN repo.mapStack[n].kvs}
    <2>2. r \in 1..r /\ \A n \in 1..r : n <= r
      BY <1>2
    <2>3. repo.mapStack[r] = d.repo.mapStack[r]
      BY <1>6, <2>2 DEF SameLevels
    <2>4. r \in holds /\ \A n \in holds : n <= r
      BY <1>2, <2>2, <2>3
    <2>5. Below(repo, src, StateRevKey, r) =
            IF holds = {} THEN src[StateRevKey]
            ELSE repo.mapStack[CHOOSE n \in holds : \A q \in holds : q <= n].kvs[StateRevKey]
      BY Zenon DEF Below
    <2>6. \A n \in holds : n \in Nat
      BY <1>2
    <2> HIDE DEF holds
    <2>7. (CHOOSE n \in holds : \A q \in holds : q <= n) = r
      <3>1. \A n \in holds : (\A q \in holds : q <= n) => n = r
        BY <2>4, <2>6, <1>2
      <3>2. QED
        BY <3>1, <2>4, Zenon
    <2>8. holds # {}
      BY <2>4
    <2>9. QED
      BY <2>1, <2>3, <2>5, <2>7, <2>8, <1>2, ZenonT(60)
  <1>9. srev # Missing
    BY <1>2, <1>8, MissingAssumption
  <1>10. RevertToSnapshot(d, r) = [state |-> IF srev = Missing THEN d.state ELSE PopTo(d.state, srev),
                                   repo |-> repo]
    BY DEF RevertToSnapshot, repo
  <1> HIDE DEF srev
  <1> DEFINE x == [state |-> state, repo |-> repo]
  <1>11. RevertToSnapshot(d, r) = x
    BY <1>8, <1>9, <1>10 DEF state
  <1>12. x.state = state /\ x.repo = repo /\ x = [state |-> x.state, repo |-> x.repo]
    OBVIOUS
  <1> HIDE DEF x
  <1>13. Sound(x)
    BY <1>4, <1>5, <1>12 DEF Sound
  <1>14. QED
    BY <1>4, <1>5, <1>6, <1>7, <1>11, <1>12, <1>13, Zenon DEF e

-----------------------------------------------------------------------------
(***************************************************************************)
(* What is seen across snapshots, writes and reverts.                      *)
(***************************************************************************)

\* What is seen, by the levels alone.
LEMMA SeenIs ==
  ASSUME NEW d, Sound(d)
  PROVE  Seen(d) = [state |-> [k \in DOMAIN World |-> Below(d.state, World, k, Depth(d.state))],
                    logs  |-> LogsOf(d.repo.mapStack)]
  <1>1. \A k : Get(d.state, World, k) = Below(d.state, World, k, Depth(d.state))
    BY GetProper DEF Sound
  <1>2. [k \in DOMAIN World |-> Get(d.state, World, k)]
          = [k \in DOMAIN World |-> Below(d.state, World, k, Depth(d.state))]
    BY <1>1
  <1>3. GetLogs(d) = LogsOf(d.repo.mapStack)
    BY GetLogsOf
  <1>4. QED
    BY <1>2, <1>3 DEF Seen

\* What is seen after a revert is what was seen when the snapshot was taken.
LEMMA RevertSeen ==
  ASSUME NEW d, Sound(d), NEW r, Saved(d, r)
  PROVE  Seen(RevertToSnapshot(d, r)) = SeenAt(d, r)
  <1> DEFINE x == RevertToSnapshot(d, r)
             e == SavedRev(d, r)
  <1>1. /\ Sound(x)
        /\ x.repo.mapStack = SubSeq(d.repo.mapStack, 1, r)
        /\ Depth(x.state) = e
        /\ SameLevels(x.state, d.state, e)
    BY RevertCuts
  <1>2. e \in Nat
    BY DEF Saved
  <1> HIDE DEF x, e
  <1>3. \A k : Below(x.state, World, k, e) = Below(d.state, World, k, e)
    <2>1. SameLevels(x.state, d.state, e)
      BY <1>1
    <2>2. QED
      BY <1>2, <2>1, BelowSame
  <1>4. [k \in DOMAIN World |-> Below(x.state, World, k, e)]
          = [k \in DOMAIN World |-> Below(d.state, World, k, e)]
    BY <1>3
  <1>5. Seen(x) = [state |-> [k \in DOMAIN World |-> Below(x.state, World, k, e)],
                   logs  |-> LogsOf(x.repo.mapStack)]
    BY <1>1, SeenIs, ZenonT(60)
  <1>6. SeenAt(d, r) = [state |-> [k \in DOMAIN World |-> Below(d.state, World, k, e)],
                        logs |-> LogsOf(SubSeq(d.repo.mapStack, 1, r))]
    BY DEF SeenAt, e
  <1>7. Seen(x) = SeenAt(d, r)
    BY <1>1, <1>4, <1>5, <1>6
  <1>8. QED
    BY <1>7 DEF x

\* A snapshot remembers what is seen, and changes nothing of it.
LEMMA SnapshotSeen ==
  ASSUME NEW d, Sound(d)
  PROVE  /\ SeenAt(Snapshot(d), Depth(d.repo)) = Seen(d)
         /\ Seen(Snapshot(d)) = Seen(d)
  <1> DEFINE x == Snapshot(d)
             r == Depth(d.repo)
             e == Depth(d.state)
  <1>1. /\ Sound(x) /\ Depth(x.state) = e + 1 /\ SavedRev(x, r) = e
        /\ SameLevels(x.state, d.state, e)
        /\ DOMAIN x.state.mapStack[e + 1].kvs = {}
        /\ LogsOf(SubSeq(x.repo.mapStack, 1, r)) = LogsOf(d.repo.mapStack)
        /\ LogsOf(x.repo.mapStack) = LogsOf(d.repo.mapStack)
    BY SnapshotSaves
  <1>2. e \in Nat
    BY ProperParts DEF Sound
  <1>3. Seen(d) = [state |-> [k \in DOMAIN World |-> Below(d.state, World, k, e)],
                   logs  |-> LogsOf(d.repo.mapStack)]
    BY SeenIs
  <1> HIDE DEF x, r, e
  <1>4. \A k : Below(x.state, World, k, e) = Below(d.state, World, k, e)
    <2>1. SameLevels(x.state, d.state, e)
      BY <1>1
    <2>2. QED
      BY <1>2, <2>1, BelowSame
  <1>5. \A k : Below(x.state, World, k, e + 1) = Below(x.state, World, k, e)
    BY <1>1, <1>2, BelowEmpty, ZenonT(60)
  <1>6. [k \in DOMAIN World |-> Below(x.state, World, k, e)]
          = [k \in DOMAIN World |-> Below(d.state, World, k, e)]
    BY <1>4
  <1>7. [k \in DOMAIN World |-> Below(x.state, World, k, e + 1)]
          = [k \in DOMAIN World |-> Below(d.state, World, k, e)]
    BY <1>4, <1>5, Zenon
  <1>8. Seen(x) = [state |-> [k \in DOMAIN World |-> Below(x.state, World, k, e + 1)],
                   logs  |-> LogsOf(x.repo.mapStack)]
    BY <1>1, SeenIs
  <1>9. SeenAt(x, r) = [state |-> [k \in DOMAIN World |-> Below(x.state, World, k, e)],
                        logs |-> LogsOf(SubSeq(x.repo.mapStack, 1, r))]
    BY <1>1, Zenon DEF SeenAt
  <1>10. SeenAt(x, r) = Seen(d) /\ Seen(x) = Seen(d)
    BY <1>1, <1>3, <1>6, <1>7, <1>8, <1>9, Zenon
  <1>11. QED
    BY <1>10, Zenon DEF x, r

(* Snapshot r of d is a snapshot of x, and shows the same. *)
Kept(d, x, r) ==
    /\ Saved(x, r)
    /\ SavedRev(x, r) = SavedRev(d, r)
    /\ SeenAt(x, r) = SeenAt(d, r)

\* A snapshot is kept where the levels below it are.
LEMMA LevelsKeep ==
  ASSUME NEW d, NEW x, NEW r, Sound(d), Sound(x), Saved(d, r),
         r < Depth(x.repo), SavedRev(d, r) < Depth(x.state),
         SameLevels(x.repo, d.repo, r), SameLevels(x.state, d.state, SavedRev(d, r))
  PROVE  Kept(d, x, r)
  <1> DEFINE e == SavedRev(d, r)
  <1>1. /\ r \in Nat \ {0} /\ e \in Nat \ {0} /\ r < Depth(d.repo) /\ e < Depth(d.state)
        /\ StateRevKey \in DOMAIN d.repo.mapStack[r].kvs
    BY DEF Saved
  <1>2. /\ Depth(x.repo) \in Nat /\ Depth(d.repo) \in Nat
        /\ Depth(x.state) \in Nat /\ Depth(d.state) \in Nat
    BY ProperParts, Zenon DEF Sound
  <1>3. SavedRev(x, r) = e /\ x.repo.mapStack[r] = d.repo.mapStack[r]
    BY <1>1 DEF SameLevels, SavedRev
  <1>4. Saved(x, r)
    BY <1>1, <1>3 DEF Saved
  <1>5. SubSeq(x.repo.mapStack, 1, r) = SubSeq(d.repo.mapStack, 1, r)
    <2>1. r <= Depth(x.repo) /\ r <= Depth(d.repo) /\ r \in Nat
      BY <1>1, <1>2
    <2>2. QED
      BY <2>1, SameCut, Zenon DEF Sound
  <1> HIDE DEF e
  <1>6. \A k : Below(x.state, World, k, e) = Below(d.state, World, k, e)
    <2>1. SameLevels(x.state, d.state, e)
      BY DEF e
    <2>2. e \in Nat
      BY <1>1
    <2>3. QED
      BY <2>1, <2>2, BelowSame
  <1>7. [k \in DOMAIN World |-> Below(x.state, World, k, e)]
          = [k \in DOMAIN World |-> Below(d.state, World, k, e)]
    BY <1>6
  <1>8. SeenAt(x, r) = SeenAt(d, r)
    <2>1. SeenAt(x, r) = [state |-> [k \in DOMAIN World |-> Below(x.state, World, k, e)],
                          logs |-> LogsOf(SubSeq(x.repo.mapStack, 1, r))]
      BY <1>3 DEF SeenAt
    <2>2. SeenAt(d, r) = [state |-> [k \in DOMAIN World |-> Below(d.state, World, k, e)],
                          logs |-> LogsOf(SubSeq(d.repo.mapStack, 1, r))]
      BY DEF SeenAt, e
    <2>3. QED
      BY <1>5, <1>7, <2>1, <2>2, ZenonT(60)
  <1>9. QED
    BY <1>3, <1>4, <1>8, Zenon DEF Kept, e

(* x differs from d at most from the top levels of d upwards. *)
Above(d, x) ==
    /\ Sound(x)
    /\ Depth(d.state) <= Depth(x.state)
    /\ Depth(d.repo) <= Depth(x.repo)
    /\ SameLevels(x.state, d.state, Depth(d.state) - 1)
    /\ SameLevels(x.repo, d.repo, Depth(d.repo) - 1)

\* So are all snapshots, as long as only the top level is written.
LEMMA AboveKeeps ==
  ASSUME NEW d, NEW x, NEW r, Sound(d), Above(d, x), Saved(d, r)
  PROVE  Kept(d, x, r)
  <1> DEFINE e == SavedRev(d, r)
  <1>1. /\ r \in Nat \ {0} /\ e \in Nat \ {0} /\ r < Depth(d.repo) /\ e < Depth(d.state)
    BY DEF Saved
  <1>2. Sound(x) /\ Depth(x.repo) \in Nat /\ Depth(d.repo) \in Nat
        /\ Depth(x.state) \in Nat /\ Depth(d.state) \in Nat
    BY ProperParts DEF Sound, Above
  <1>3. r < Depth(x.repo) /\ e < Depth(x.state)
    BY <1>1, <1>2 DEF Above
  <1>4. SameLevels(x.repo, d.repo, r) /\ SameLevels(x.state, d.state, e)
    BY <1>1, <1>2 DEF Above, SameLevels
  <1>5. QED
    BY <1>2, <1>3, <1>4, LevelsKeep, Zenon

\* Writes are above.
LEMMA WritesAbove ==
  ASSUME NEW d, NEW x, Sound(d), Writes(d, x)
  PROVE  Above(d, x)
  <1>1. Depth(d.repo) \in Nat /\ Depth(d.state) \in Nat
    BY ProperParts, Zenon DEF Sound
  <1>2. QED
    BY <1>1 DEF Writes, Above

\* Writes after a snapshot leave it in place.
LEMMA EnterSaves ==
  ASSUME NEW d, NEW x, Sound(d), Writes(Snapshot(d), x)
  PROVE  /\ Above(d, x)
         /\ Saved(x, Depth(d.repo))
         /\ SavedRev(x, Depth(d.repo)) = Depth(d.state)
         /\ SeenAt(x, Depth(d.repo)) = Seen(d)
  <1> DEFINE s == Snapshot(d)
             r == Depth(d.repo)
             e == Depth(d.state)
  <1>1. /\ Sound(s)
        /\ Depth(s.state) = e + 1 /\ Depth(s.repo) = r + 1
        /\ SameLevels(s.state, d.state, e)
        /\ SameLevels(s.repo, d.repo, r - 1)
        /\ Saved(s, r) /\ SavedRev(s, r) = e
    BY SnapshotSaves
  <1>2. r \in Nat \ {0} /\ e \in Nat \ {0}
    BY ProperParts DEF Sound
  <1>3. SeenAt(s, r) = Seen(d)
    BY SnapshotSeen
  <1>4. Writes(s, x)
    OBVIOUS
  <1> HIDE DEF s
  <1>5. Kept(s, x, r)
    BY <1>1, <1>4, WritesAbove, AboveKeeps, Zenon
  <1> HIDE DEF r, e
  <1>6. /\ Sound(x) /\ Depth(x.state) = e + 1 /\ Depth(x.repo) = r + 1
        /\ SameLevels(x.state, s.state, e) /\ SameLevels(x.repo, s.repo, r)
    BY <1>1, <1>2, <1>4 DEF Writes
  <1>7. SameLevels(x.state, d.state, e - 1) /\ SameLevels(x.repo, d.repo, r - 1)
    BY <1>1, <1>2, <1>6 DEF SameLevels
  <1>8. e <= e + 1 /\ r <= r + 1
    BY <1>2
  <1>9. Above(d, x)
    BY <1>6, <1>7, <1>8 DEF Above, r, e
  <1>10. QED
    BY <1>1, <1>3, <1>5, <1>9, Zenon DEF Kept, r, e

\* A snapshot, writes and a revert change nothing that is seen.
LEMMA AwayReverts ==
  ASSUME NEW d, NEW x, Sound(d), Writes(Snapshot(d), x)
  PROVE  LET y == RevertToSnapshot(x, Depth(d.repo))
         IN  Above(d, y) /\ Seen(y) = Seen(d)
  <1> DEFINE r == Depth(d.repo)
             e == Depth(d.state)
             y == RevertToSnapshot(x, r)
  <1>1. Above(d, x) /\ Saved(x, r) /\ SavedRev(x, r) = e /\ SeenAt(x, r) = Seen(d)
    BY EnterSaves
  <1>2. Sound(x)
    BY <1>1 DEF Above
  <1>3. Seen(y) = Seen(d)
    BY <1>1, <1>2, RevertSeen, Zenon
  <1>4. r \in Nat \ {0} /\ e \in Nat \ {0}
    BY ProperParts DEF Sound
  <1>5. Sound(y) /\ Depth(y.repo) = r /\ Depth(y.state) = e
        /\ SameLevels(y.repo, x.repo, r) /\ SameLevels(y.state, x.state, e)
    BY <1>1, <1>2, RevertCuts
  <1>6. SameLevels(x.state, d.state, e - 1) /\ SameLevels(x.repo, d.repo, r - 1)
    BY <1>1 DEF Above
  <1> HIDE DEF y, r, e
  <1>7. SameLevels(y.state, d.state, e - 1) /\ SameLevels(y.repo, d.repo, r - 1)
    BY <1>4, <1>5, <1>6 DEF SameLevels
  <1>8. e <= e /\ r <= r
    BY <1>4
  <1>9. Above(d, y)
    BY <1>5, <1>7, <1>8 DEF Above, r, e
  <1>10. QED
    BY <1>3, <1>9, Zenon DEF y, r

\* Reverting to a snapshot keeps the earlier ones.
LEMMA RevertKeeps ==
  ASSUME NEW d, Sound(d), NEW r, Saved(d, r), NEW q, Saved(d, q),
         q < r, SavedRev(d, q) < SavedRev(d, r)
  PROVE  Kept(d, RevertToSnapshot(d, r), q)
  <1> DEFINE x == RevertToSnapshot(d, r)
  <1>1. /\ Sound(x) /\ Depth(x.repo) = r /\ Depth(x.state) = SavedRev(d, r)
        /\ SameLevels(x.repo, d.repo, r)
        /\ SameLevels(x.state, d.state, SavedRev(d, r))
    BY RevertCuts
  <1>2. r \in Nat /\ q \in Nat /\ SavedRev(d, r) \in Nat /\ SavedRev(d, q) \in Nat
    BY DEF Saved
  <1> HIDE DEF x
  <1>3. SameLevels(x.repo, d.repo, q) /\ SameLevels(x.state, d.state, SavedRev(d, q))
    BY <1>1, <1>2 DEF SameLevels
  <1>4. Kept(d, x, q)
    BY <1>1, <1>3, LevelsKeep
  <1>5. QED
    BY <1>4, Zenon DEF x

-----------------------------------------------------------------------------
(***************************************************************************)
(* Frames.                                                                 *)
(***************************************************************************)

FrameSet(A) ==
    [type : A, address : A, readOnly : BOOLEAN, snapshot : Nat, uid : A,
     fresh : A, called : A, top : A]

IsFrame(f) == \E A : f \in FrameSet(A)

IsFrames(F) == \E A : F \in Seq(FrameSet(A))

(* The frames F are those of G as far as the state depends on them. *)
Resembles(F, G) ==
    /\ Len(F) = Len(G)
    /\ \A i \in 1..Len(G) : /\ F[i].type = G[i].type
                            /\ F[i].readOnly = G[i].readOnly
                            /\ F[i].snapshot = G[i].snapshot

-----------------------------------------------------------------------------
(***************************************************************************)
(* The inductive invariant, on the state d, the open frames F and what was *)
(* seen when each was entered, W.                                          *)
(***************************************************************************)

(* Each open frame has its snapshot, which shows what W says. *)
Opened(d, F, W) ==
    \A i \in 1..Len(F) :
        Saved(d, F[i].snapshot) /\ W[i] = SeenAt(d, F[i].snapshot)

(* Inner frames have later snapshots, of both maps. *)
Nested(d, F) ==
    \A i, j \in 1..Len(F) : i < j =>
        /\ F[i].snapshot < F[j].snapshot
        /\ SavedRev(d, F[i].snapshot) < SavedRev(d, F[j].snapshot)

(* Below a static call all frames are read only, none is a create, and     *)
(* nothing was changed.                                                    *)
Frozen(d, F, W) ==
    \A i \in 1..Len(F) :
        /\ F[i].type = "STATICCALL" => F[i].readOnly
        /\ F[i].readOnly =>
            /\ Seen(d) = W[i]
            /\ F[i].type \notin CreateOps
            /\ \A j \in i..Len(F) : F[j].readOnly

Holds(d, F, W) ==
    /\ Sound(d)
    /\ IsFrames(F)
    /\ \E B : W \in Seq(B)
    /\ Len(W) = Len(F)
    /\ Opened(d, F, W)
    /\ Nested(d, F)
    /\ Frozen(d, F, W)

\* The fields of open frames.
LEMMA FramesAre ==
  ASSUME NEW F, IsFrames(F)
  PROVE  /\ Len(F) \in Nat
         /\ \A i \in 1..Len(F) : IsFrame(F[i])
         /\ \A i \in 1..Len(F) : F[i].readOnly \in BOOLEAN /\ F[i].snapshot \in Nat
  <1>1. PICK A : F \in Seq(FrameSet(A))
    BY DEF IsFrames
  <1>2. Len(F) \in Nat /\ \A i \in 1..Len(F) : F[i] \in FrameSet(A)
    BY <1>1
  <1>3. \A f \in FrameSet(A) : f.readOnly \in BOOLEAN /\ f.snapshot \in Nat
    BY DEF FrameSet
  <1>4. QED
    BY <1>2, <1>3 DEF IsFrame

\* Frames are frames over larger sets.
LEMMA WiderFrames ==
  ASSUME NEW A, NEW B, A \subseteq B
  PROVE  /\ FrameSet(A) \subseteq FrameSet(B)
         /\ \A F \in Seq(FrameSet(A)) : F \in Seq(FrameSet(B))
  <1>1. FrameSet(A) \subseteq FrameSet(B)
    BY DEF FrameSet
  <1>2. QED
    BY <1>1

\* A frame more.
LEMMA FramesMore ==
  ASSUME NEW F, IsFrames(F), NEW f, IsFrame(f)
  PROVE  /\ IsFrames(Append(F, f))
         /\ Len(Append(F, f)) = Len(F) + 1
         /\ \A i \in 1..Len(F) : Append(F, f)[i] = F[i]
         /\ Append(F, f)[Len(F) + 1] = f
  <1>1. PICK A : F \in Seq(FrameSet(A))
    BY DEF IsFrames
  <1>2. PICK B : f \in FrameSet(B)
    BY DEF IsFrame
  <1> DEFINE C == A \cup B
  <1>3. A \subseteq C /\ B \subseteq C
    OBVIOUS
  <1> HIDE DEF C
  <1>4. F \in Seq(FrameSet(C)) /\ f \in FrameSet(C)
    BY <1>1, <1>2, <1>3, WiderFrames
  <1>5. Append(F, f) \in Seq(FrameSet(C))
    BY <1>4
  <1>6. QED
    BY <1>4, <1>5 DEF IsFrames

\* A frame less.
LEMMA FramesLess ==
  ASSUME NEW F, IsFrames(F), Len(F) > 0
  PROVE  LET G == SubSeq(F, 1, Len(F) - 1)
         IN  /\ IsFrames(G)
             /\ Len(G) = Len(F) - 1
             /\ \A i \in 1..(Len(F) - 1) : G[i] = F[i]
  <1>1. PICK A : F \in Seq(FrameSet(A))
    BY DEF IsFrames
  <1> DEFINE n == Len(F)
             G == SubSeq(F, 1, n - 1)
             S == FrameSet(A)
  <1>2. F \in Seq(S) /\ n = Len(F) /\ n \in Nat /\ n > 0
    BY <1>1
  <1> HIDE DEF S, n
  <1>3. /\ G \in Seq(S) /\ Len(G) = n - 1
        /\ \A i \in 1..(n - 1) : G[i] = F[i]
    BY <1>2
  <1> HIDE DEF G
  <1>4. IsFrames(G)
    BY <1>3 DEF IsFrames, S
  <1>5. QED
    BY <1>3, <1>4 DEF G, n

\* Other fields than those the state depends on, of one frame.
LEMMA FramesChange ==
  ASSUME NEW F, IsFrames(F), NEW i \in 1..Len(F), NEW fresh, NEW called, NEW top
  PROVE  LET G == [F EXCEPT ![i] = [@ EXCEPT !.fresh = fresh, !.called = called, !.top = top]]
         IN  IsFrames(G) /\ Resembles(G, F) /\ G[i].top = top
  <1>1. PICK A : F \in Seq(FrameSet(A))
    BY DEF IsFrames
  <1> DEFINE B == A \cup {fresh, called, top}
             new == [F[i] EXCEPT !.fresh = fresh, !.called = called, !.top = top]
             G == [F EXCEPT ![i] = new]
  <1>2. A \subseteq B /\ fresh \in B /\ called \in B /\ top \in B
    OBVIOUS
  <1> HIDE DEF B
  <1>3. F \in Seq(FrameSet(B))
    BY <1>1, <1>2, WiderFrames
  <1>4. F[i] \in FrameSet(B)
    BY <1>3
  <1>5. /\ new \in FrameSet(B) /\ new.type = F[i].type /\ new.readOnly = F[i].readOnly
        /\ new.snapshot = F[i].snapshot /\ new.top = top
    BY <1>2, <1>4, ZenonT(60) DEF FrameSet
  <1> HIDE DEF new
  <1>6. /\ G \in Seq(FrameSet(B)) /\ Len(G) = Len(F) /\ G[i] = new
        /\ \A j \in 1..Len(F) : j # i => G[j] = F[j]
    BY <1>3, <1>5
  <1> HIDE DEF G
  <1>7. Resembles(G, F)
    BY <1>5, <1>6 DEF Resembles
  <1>8. IsFrames(G) /\ G[i].top = top
    BY <1>5, <1>6 DEF IsFrames
  <1>9. QED
    BY <1>7, <1>8 DEF G, new

\* Likewise, of the top of its stack alone.
LEMMA FramesChangeTop ==
  ASSUME NEW F, IsFrames(F), NEW i \in 1..Len(F), NEW top
  PROVE  LET G == [F EXCEPT ![i].top = top]
         IN  IsFrames(G) /\ Resembles(G, F) /\ G[i].top = top
  <1>1. PICK A : F \in Seq(FrameSet(A))
    BY DEF IsFrames
  <1> DEFINE B == A \cup {top}
             new == [F[i] EXCEPT !.top = top]
             G == [F EXCEPT ![i] = new]
  <1>2. A \subseteq B /\ top \in B
    OBVIOUS
  <1> HIDE DEF B
  <1>3. F \in Seq(FrameSet(B))
    BY <1>1, <1>2, WiderFrames
  <1>4. F[i] \in FrameSet(B)
    BY <1>3
  <1>5. /\ new \in FrameSet(B) /\ new.type = F[i].type /\ new.readOnly = F[i].readOnly
        /\ new.snapshot = F[i].snapshot /\ new.top = top
    BY <1>2, <1>4, Zenon DEF FrameSet
  <1> HIDE DEF new
  <1>6. /\ G \in Seq(FrameSet(B)) /\ Len(G) = Len(F) /\ G[i] = new
        /\ \A j \in 1..Len(F) : j # i => G[j] = F[j]
    BY <1>3, <1>5
  <1> HIDE DEF G
  <1>7. Resembles(G, F)
    BY <1>5, <1>6 DEF Resembles
  <1>8. IsFrames(G) /\ G[i].top = top
    BY <1>5, <1>6 DEF IsFrames
  <1>9. QED
    BY <1>7, <1>8 DEF G, new

\* A step that stays in its frame, or one that only changes the state.
LEMMA StayHolds ==
  ASSUME NEW d, NEW F, NEW W, Holds(d, F, W), NEW x, Above(d, x),
         NEW G, IsFrames(G), Resembles(G, F),
         Len(F) > 0 /\ F[Len(F)].readOnly => Seen(x) = Seen(d)
  PROVE  Holds(x, G, W)
  <1>1. Sound(d) /\ IsFrames(F) /\ Len(W) = Len(F) /\ (\E B : W \in Seq(B))
        /\ Opened(d, F, W) /\ Nested(d, F) /\ Frozen(d, F, W)
    BY Zenon DEF Holds
  <1>2. Len(F) \in Nat /\ Len(G) = Len(F)
        /\ \A i \in 1..Len(F) : G[i].type = F[i].type /\ G[i].readOnly = F[i].readOnly
                                /\ G[i].snapshot = F[i].snapshot
    BY <1>1, FramesAre, Zenon DEF Resembles
  <1>3. \A i \in 1..Len(F) : Kept(d, x, F[i].snapshot)
    BY <1>1, AboveKeeps, Zenon DEF Opened
  <1>4. Opened(x, G, W)
    BY <1>1, <1>2, <1>3, Zenon DEF Opened, Kept
  <1>5. Nested(x, G)
    <2>1. \A i \in 1..Len(F) : /\ G[i].snapshot = F[i].snapshot
                               /\ SavedRev(x, F[i].snapshot) = SavedRev(d, F[i].snapshot)
      BY <1>2, <1>3, Zenon DEF Kept
    <2>2. QED
      BY <1>1, <1>2, <2>1, SMTT(60) DEF Nested
  <1>6. Frozen(x, G, W)
    <2> SUFFICES ASSUME NEW i \in 1..Len(F)
                 PROVE  /\ G[i].type = "STATICCALL" => G[i].readOnly
                        /\ G[i].readOnly =>
                            /\ Seen(x) = W[i]
                            /\ G[i].type \notin CreateOps
                            /\ \A j \in i..Len(F) : G[j].readOnly
      BY <1>2, Zenon DEF Frozen
    <2>1. G[i].type = "STATICCALL" => G[i].readOnly
      BY <1>1, <1>2, Zenon DEF Frozen
    <2>2. ASSUME G[i].readOnly
          PROVE  /\ Seen(x) = W[i]
                 /\ G[i].type \notin CreateOps
                 /\ \A j \in i..Len(F) : G[j].readOnly
      <3>1. F[i].readOnly
        BY <1>2, <2>2, Zenon
      <3>2. Seen(d) = W[i] /\ F[i].type \notin CreateOps /\ \A j \in i..Len(F) : F[j].readOnly
        BY <1>1, <3>1, Zenon DEF Frozen
      <3>3. Len(F) \in i..Len(F) /\ Len(F) > 0 /\ \A j \in i..Len(F) : j \in 1..Len(F)
        BY <1>2
      <3>4. Seen(x) = Seen(d)
        BY <3>2, <3>3, Zenon
      <3>5. QED
        BY <1>2, <3>2, <3>3, <3>4, Zenon
    <2>3. QED
      BY <2>1, <2>2, Zenon
  <1>7. Sound(x)
    BY DEF Above
  <1>8. QED
    BY <1>1, <1>2, <1>4, <1>5, <1>6, <1>7, Zenon DEF Holds

\* A frame is entered after a snapshot, and writes on the new levels.
LEMMA EnterHolds ==
  ASSUME NEW d, NEW F, NEW W, Holds(d, F, W), NEW x, Writes(Snapshot(d), x),
         NEW f, IsFrame(f), f.snapshot = Depth(d.repo), f.readOnly \in BOOLEAN,
         f.type = "STATICCALL" => f.readOnly,
         f.readOnly => Seen(x) = Seen(d) /\ f.type \notin CreateOps,
         Len(F) > 0 /\ F[Len(F)].readOnly => f.readOnly
  PROVE  Holds(x, Append(F, f), Append(W, Seen(d)))
  <1> DEFINE n == Len(F)
             G == Append(F, f)
             V == Append(W, Seen(d))
  <1>1. Sound(d) /\ IsFrames(F) /\ Len(W) = n /\ (\E B : W \in Seq(B))
        /\ Opened(d, F, W) /\ Nested(d, F) /\ Frozen(d, F, W)
    BY Zenon DEF Holds
  <1>2. n \in Nat /\ IsFrames(G) /\ Len(G) = n + 1 /\ G[n + 1] = f
        /\ \A i \in 1..n : G[i] = F[i]
    BY <1>1, FramesAre, FramesMore
  <1>3. (\E B : V \in Seq(B)) /\ Len(V) = n + 1 /\ V[n + 1] = Seen(d)
        /\ \A i \in 1..n : V[i] = W[i]
    <2>1. PICK B : W \in Seq(B)
      BY <1>1
    <2> DEFINE v == Seen(d)
               C == B \cup {v}
    <2>2. B \subseteq C /\ v \in C
      OBVIOUS
    <2> HIDE DEF C, v
    <2>3. W \in Seq(C)
      BY <2>1, <2>2
    <2>4. /\ Append(W, v) \in Seq(C) /\ Len(Append(W, v)) = Len(W) + 1
          /\ Append(W, v)[Len(W) + 1] = v
          /\ \A i \in 1..Len(W) : Append(W, v)[i] = W[i]
      BY <2>2, <2>3, SMTT(60)
    <2>5. QED
      BY <1>1, <2>4, Zenon DEF v
  <1> HIDE DEF G, V, n
  <1>4. /\ Above(d, x)
        /\ Saved(x, f.snapshot)
        /\ SavedRev(x, f.snapshot) = Depth(d.state)
        /\ SeenAt(x, f.snapshot) = Seen(d)
    BY <1>1, EnterSaves, Zenon
  <1>5. \A i \in 1..n : Kept(d, x, F[i].snapshot)
    BY <1>1, <1>4, AboveKeeps, Zenon DEF Opened, n
  <1>6. \A i \in 1..(n + 1) : i \in 1..n \/ i = n + 1
    BY <1>2
  <1>7. Opened(x, G, V)
    <2> SUFFICES ASSUME NEW i \in 1..(n + 1)
                 PROVE  Saved(x, G[i].snapshot) /\ V[i] = SeenAt(x, G[i].snapshot)
      BY <1>2, Zenon DEF Opened
    <2>1. CASE i = n + 1
      BY <1>2, <1>3, <1>4, <2>1, Zenon
    <2>2. CASE i \in 1..n
      BY <1>1, <1>2, <1>3, <1>5, <2>2, Zenon DEF Opened, Kept, n
    <2>3. QED
      BY <1>6, <2>1, <2>2, Zenon
  <1>8. Nested(x, G)
    <2> SUFFICES ASSUME NEW i \in 1..(n + 1), NEW j \in 1..(n + 1), i < j
                 PROVE  /\ G[i].snapshot < G[j].snapshot
                        /\ SavedRev(x, G[i].snapshot) < SavedRev(x, G[j].snapshot)
      BY <1>2, Zenon DEF Nested
    <2>1. i \in 1..n
      BY <1>2, SMTT(60)
    <2>2. G[i] = F[i] /\ SavedRev(x, F[i].snapshot) = SavedRev(d, F[i].snapshot)
          /\ Saved(d, F[i].snapshot)
      BY <1>1, <1>2, <1>5, <2>1, Zenon DEF Kept, Opened, n
    <2>3. CASE j = n + 1
      <3>1. F[i].snapshot < Depth(d.repo) /\ SavedRev(d, F[i].snapshot) < Depth(d.state)
        BY <2>2, Zenon DEF Saved
      <3>2. QED
        BY <1>2, <1>4, <2>2, <2>3, <3>1, Zenon
    <2>4. CASE j \in 1..n
      <3>1. G[j] = F[j] /\ SavedRev(x, F[j].snapshot) = SavedRev(d, F[j].snapshot)
        BY <1>2, <1>5, <2>4, Zenon DEF Kept
      <3>2. /\ F[i].snapshot < F[j].snapshot
            /\ SavedRev(d, F[i].snapshot) < SavedRev(d, F[j].snapshot)
        BY <1>1, <2>1, <2>4, Zenon DEF Nested, n
      <3>3. QED
        BY <2>2, <3>1, <3>2, Zenon
    <2>5. QED
      BY <1>6, <2>3, <2>4, ZenonT(60)
  <1>9. Frozen(x, G, V)
    <2> SUFFICES ASSUME NEW i \in 1..(n + 1)
                 PROVE  /\ G[i].type = "STATICCALL" => G[i].readOnly
                        /\ G[i].readOnly =>
                            /\ Seen(x) = V[i]
                            /\ G[i].type \notin CreateOps
                            /\ \A j \in i..(n + 1) : G[j].readOnly
      BY <1>2, Zenon DEF Frozen
    <2>1. CASE i = n + 1
      <3>1. \A j \in i..(n + 1) : j = n + 1
        <4>1. n \in Nat
          BY <1>2, Zenon
        <4>2. QED
          BY <4>1, <2>1
      <3>2. QED
        BY <1>2, <1>3, <2>1, <3>1, Zenon
    <2>2. CASE i \in 1..n
      <3>1. G[i] = F[i] /\ V[i] = W[i]
        BY <1>2, <1>3, <2>2, Zenon
      <3>2. F[i].type = "STATICCALL" => F[i].readOnly
        BY <1>1, <2>2, Zenon DEF Frozen, n
      <3>3. ASSUME F[i].readOnly
            PROVE  /\ Seen(x) = W[i]
                   /\ F[i].type \notin CreateOps
                   /\ \A j \in i..(n + 1) : G[j].readOnly
        <4>1. Seen(d) = W[i] /\ F[i].type \notin CreateOps /\ \A j \in i..n : F[j].readOnly
          BY <1>1, <2>2, <3>3, Zenon DEF Frozen, n
        <4>2. n \in i..n /\ n > 0
          BY <1>2, <2>2
        <4>3. F[n].readOnly
          BY <4>1, <4>2, Zenon
        <4>4. f.readOnly
          BY <4>2, <4>3, Zenon DEF n
        <4>5. \A j \in i..(n + 1) : j = n + 1 \/ (j \in i..n /\ j \in 1..n)
          BY <1>2, <2>2
        <4>6. \A j \in i..(n + 1) : G[j].readOnly
          BY <1>2, <4>1, <4>4, <4>5, Zenon
        <4>7. QED
          BY <4>1, <4>4, <4>6, Zenon
      <3>4. QED
        BY <3>1, <3>2, <3>3, Zenon
    <2>3. QED
      BY <1>6, <2>1, <2>2, Zenon
  <1>10. Sound(x)
    BY <1>4, Zenon DEF Above
  <1>11. Holds(x, G, V)
    BY <1>2, <1>3, <1>7, <1>8, <1>9, <1>10, Zenon DEF Holds
  <1>12. QED
    BY <1>11 DEF G, V

\* The last frame may be forgotten, whatever becomes of the state.
LEMMA LessHolds ==
  ASSUME NEW d, NEW F, NEW W, Holds(d, F, W), Len(F) > 0
  PROVE  LET G == SubSeq(F, 1, Len(F) - 1)
             V == SubSeq(W, 1, Len(F) - 1)
         IN  Holds(d, G, V)
  <1> DEFINE n == Len(F)
             G == SubSeq(F, 1, n - 1)
             V == SubSeq(W, 1, n - 1)
  <1>1. Sound(d) /\ IsFrames(F) /\ Len(W) = n /\ (\E B : W \in Seq(B))
        /\ Opened(d, F, W) /\ Nested(d, F) /\ Frozen(d, F, W)
    BY ZenonT(60) DEF Holds
  <1>2. n \in Nat /\ n > 0 /\ IsFrames(G) /\ Len(G) = n - 1 /\ \A i \in 1..(n - 1) : G[i] = F[i]
    BY <1>1, FramesAre, FramesLess
  <1>3. (\E B : V \in Seq(B)) /\ Len(V) = n - 1 /\ \A i \in 1..(n - 1) : V[i] = W[i]
    <2>1. PICK B : W \in Seq(B)
      BY <1>1, Zenon
    <2> HIDE DEF n
    <2>2. V \in Seq(B) /\ Len(V) = n - 1 /\ \A i \in 1..(n - 1) : V[i] = W[i]
      BY <1>1, <1>2, <2>1
    <2>3. QED
      BY <2>2, ZenonT(60)
  <1> HIDE DEF G, V, n
  <1>4. \A i \in 1..(n - 1) : i \in 1..n
    BY <1>2
  <1>5. Opened(d, G, V)
    BY <1>1, <1>2, <1>3, <1>4, ZenonT(60) DEF Opened, n
  <1>6. Nested(d, G)
    <2> SUFFICES ASSUME NEW i \in 1..(n - 1), NEW j \in 1..(n - 1), i < j
                 PROVE  /\ G[i].snapshot < G[j].snapshot
                        /\ SavedRev(d, G[i].snapshot) < SavedRev(d, G[j].snapshot)
      BY <1>2, Zenon DEF Nested
    <2>1. /\ F[i].snapshot < F[j].snapshot
          /\ SavedRev(d, F[i].snapshot) < SavedRev(d, F[j].snapshot)
      BY <1>1, <1>4, Zenon DEF Nested, n
    <2>2. G[i] = F[i] /\ G[j] = F[j]
      BY <1>2, Zenon
    <2>3. QED
      BY <2>1, <2>2, Zenon
  <1>7. Frozen(d, G, V)
    <2> SUFFICES ASSUME NEW i \in 1..(n - 1)
                 PROVE  /\ G[i].type = "STATICCALL" => G[i].readOnly
                        /\ G[i].readOnly =>
                            /\ Seen(d) = V[i]
                            /\ G[i].type \notin CreateOps
                            /\ \A j \in i..(n - 1) : G[j].readOnly
      BY <1>2 DEF Frozen
    <2>1. i \in 1..n /\ G[i] = F[i] /\ V[i] = W[i]
      BY <1>2, <1>3, <1>4, Zenon
    <2>2. \A j \in i..(n - 1) : j \in i..n /\ j \in 1..(n - 1)
      BY <1>2
    <2>3. /\ F[i].type = "STATICCALL" => F[i].readOnly
          /\ F[i].readOnly =>
              /\ Seen(d) = W[i]
              /\ F[i].type \notin CreateOps
              /\ \A j \in i..n : F[j].readOnly
      BY <1>1, <2>1, Zenon DEF Frozen, n
    <2>4. QED
      BY <1>2, <2>1, <2>2, <2>3, Zenon
  <1>8. Holds(d, G, V)
    BY <1>1, <1>2, <1>3, <1>5, <1>6, <1>7, Zenon DEF Holds
  <1>9. QED
    BY <1>8 DEF G, V, n

\* A frame that fails is undone to its snapshot.
LEMMA UndoHolds ==
  ASSUME NEW d, NEW F, NEW W, Holds(d, F, W), Len(F) > 0
  PROVE  LET G == SubSeq(F, 1, Len(F) - 1)
             V == SubSeq(W, 1, Len(F) - 1)
             x == RevertToSnapshot(d, F[Len(F)].snapshot)
         IN  Holds(x, G, V) /\ Seen(x) = W[Len(F)]
  <1> DEFINE n == Len(F)
             G == SubSeq(F, 1, n - 1)
             V == SubSeq(W, 1, n - 1)
             r == F[n].snapshot
             x == RevertToSnapshot(d, r)
  <1>1. Sound(d) /\ IsFrames(F) /\ Len(W) = n /\ (\E B : W \in Seq(B))
        /\ Opened(d, F, W) /\ Nested(d, F) /\ Frozen(d, F, W)
    BY DEF Holds
  <1>2. n \in Nat /\ n > 0 /\ n \in 1..n /\ IsFrames(G) /\ Len(G) = n - 1
        /\ \A i \in 1..(n - 1) : G[i] = F[i]
    BY <1>1, FramesAre, FramesLess
  <1>3. Holds(d, G, V)
    BY LessHolds, Zenon
  <1>4. Saved(d, r) /\ W[n] = SeenAt(d, r)
    BY <1>1, <1>2, Zenon DEF Opened
  <1>5. Sound(x) /\ Seen(x) = W[n]
    BY <1>1, <1>4, RevertCuts, RevertSeen, Zenon
  <1>6. \A i \in 1..(n - 1) : Kept(d, x, G[i].snapshot)
    <2> TAKE i \in 1..(n - 1)
    <2>1. i \in 1..n /\ i < n /\ G[i] = F[i]
      BY <1>2
    <2>2. Saved(d, F[i].snapshot)
      BY <1>1, <2>1, Zenon DEF Opened
    <2>3. F[i].snapshot < r /\ SavedRev(d, F[i].snapshot) < SavedRev(d, r)
      BY <1>1, <1>2, <2>1, Zenon DEF Nested
    <2>4. QED
      BY <1>1, <1>4, <2>1, <2>2, <2>3, RevertKeeps, Zenon
  <1> HIDE DEF x, G, V
  <1>7. Sound(d) /\ IsFrames(G) /\ Len(V) = n - 1 /\ (\E B : V \in Seq(B))
        /\ Opened(d, G, V) /\ Nested(d, G) /\ Frozen(d, G, V)
    BY <1>2, <1>3, Zenon DEF Holds
  <1> HIDE DEF n, r
  <1>8. Opened(x, G, V)
    BY <1>2, <1>6, <1>7, Zenon DEF Opened, Kept
  <1>9. Nested(x, G)
    <2>1. \A i \in 1..(n - 1) : SavedRev(x, G[i].snapshot) = SavedRev(d, G[i].snapshot)
      BY <1>6 DEF Kept
    <2>2. QED
      BY <1>2, <1>7, <2>1, Zenon DEF Nested
  <1>10. Frozen(x, G, V)
    <2> SUFFICES ASSUME NEW i \in 1..(n - 1), G[i].readOnly PROVE Seen(x) = Seen(d)
      BY <1>2, <1>7, Zenon DEF Frozen
    <2>1. i \in 1..n /\ n \in i..n /\ G[i] = F[i]
      BY <1>2
    <2>2. F[i].readOnly
      BY <2>1, Zenon
    <2>3. F[n].readOnly
      BY <1>1, <2>1, <2>2, Zenon DEF Frozen, n
    <2>4. Seen(d) = W[n]
      BY <1>1, <1>2, <2>3, Zenon DEF Frozen, n
    <2>5. QED
      BY <1>5, <2>4, Zenon
  <1>11. Holds(x, G, V)
    BY <1>2, <1>5, <1>7, <1>8, <1>9, <1>10, Zenon DEF Holds
  <1>12. QED
    BY <1>5, <1>11 DEF x, G, V, n, r

-----------------------------------------------------------------------------
(***************************************************************************)
(* The steps of the machine, by what they do to the frames.                *)
(***************************************************************************)

IInv ==
    /\ Holds(db, frames, worlds)
    /\ status = "ready" => frames = << >>
    /\ status = "running" => Len(frames) > 0

\* What the invariant says of the state and the frames.
LEMMA HoldsParts ==
  ASSUME NEW d, NEW F, NEW W, Holds(d, F, W)
  PROVE  /\ Sound(d)
         /\ IsFrames(F)
         /\ Len(F) \in Nat
         /\ Len(W) = Len(F)
         /\ SubSeq(W, 1, Len(F)) = W
         /\ Above(d, d)
         /\ Sound(Snapshot(d))
         /\ SnapshotId(d) = Depth(d.repo)
         /\ Depth(d.repo) \in Nat
  <1>1. Sound(d) /\ IsFrames(F) /\ Len(W) = Len(F) /\ \E B : W \in Seq(B)
    BY DEF Holds
  <1>2. Len(F) \in Nat
    BY <1>1, FramesAre
  <1>3. SubSeq(W, 1, Len(F)) = W
    <2>1. PICK B : W \in Seq(B)
      BY <1>1
    <2> DEFINE m == Len(F)
    <2>2. m = Len(W) /\ m \in Nat
      BY <1>1, <1>2
    <2> HIDE DEF m
    <2>3. SubSeq(W, 1, m) = W
      BY <2>1, <2>2
    <2>4. QED
      BY <2>3 DEF m
  <1>4. Above(d, d)
    BY <1>1, WritesNothing, WritesAbove
  <1>5. Sound(Snapshot(d))
    BY <1>1, SnapshotSaves
  <1>6. Depth(d.repo) \in Nat
    BY <1>1, ProperParts DEF Sound
  <1>7. QED
    BY <1>1, <1>2, <1>3, <1>4, <1>5, <1>6, Zenon DEF SnapshotId, PushDepth

\* The fields of a new frame.
LEMMA FrameIs ==
  ASSUME Sound(db), NEW type, NEW address, NEW readOnly \in BOOLEAN
  PROVE  LET f == Frame(type, address, readOnly)
         IN  /\ IsFrame(f)
             /\ f.type = type
             /\ f.readOnly = readOnly
             /\ f.snapshot = Depth(db.repo)
  <1> DEFINE u == entered + 1
             s == Depth(db.repo)
             f == [type |-> type, address |-> address, readOnly |-> readOnly,
                   snapshot |-> s, uid |-> u, fresh |-> TRUE, called |-> FALSE, top |-> 0]
             A == {type, address, u, TRUE, FALSE, 0}
  <1>1. s \in Nat
    BY ProperParts DEF Sound
  <1>2. Frame(type, address, readOnly) = f
    BY DEF Frame, SnapshotId, PushDepth
  <1> HIDE DEF u, s
  <1>3. type \in A /\ address \in A /\ u \in A /\ TRUE \in A /\ FALSE \in A /\ 0 \in A
    OBVIOUS
  <1> HIDE DEF A
  <1>4. f \in FrameSet(A)
    BY <1>1, <1>3, Zenon DEF FrameSet
  <1>5. IsFrame(f)
    BY <1>4 DEF IsFrame
  <1>6. QED
    BY <1>2, <1>5 DEF s

\* Continue changes nothing the state depends on.
LEMMA ContinueIs ==
  ASSUME IsFrames(frames), Len(frames) > 0, NEW top, NEW called
  PROVE  IsFrames(Continue(top, called)) /\ Resembles(Continue(top, called), frames)
  <1>1. Len(frames) \in 1..Len(frames)
    BY FramesAre
  <1>2. QED
    BY <1>1, FramesChange, ZenonT(60) DEF Continue

-----------------------------------------------------------------------------
\* Steps within the frame.
LEMMA StayStep ==
  ASSUME IInv, status = "running", status' = status, worlds' = WorldsAfter,
         Above(db, db'), cur.readOnly => Seen(db') = Seen(db),
         NEW top, NEW called, frames' = Continue(top, called)
  PROVE  IInv' /\ Len(frames') = Len(frames)
  <1>1. Holds(db, frames, worlds) /\ Len(frames) > 0
    BY DEF IInv
  <1>2. IsFrames(frames) /\ Len(frames) \in Nat /\ SubSeq(worlds, 1, Len(frames)) = worlds
    BY <1>1, HoldsParts
  <1>3. IsFrames(frames') /\ Resembles(frames', frames)
    BY <1>1, <1>2, ContinueIs
  <1>4. Len(frames') = Len(frames)
    BY <1>3 DEF Resembles
  <1>5. worlds' = worlds
    <2>1. ~(Len(frames') > Len(frames))
      BY <1>2, <1>4
    <2>2. QED
      BY <1>2, <1>4, <2>1 DEF WorldsAfter
  <1>6. Holds(db', frames', worlds)
    BY <1>1, <1>3, StayHolds DEF cur
  <1>7. QED
    BY <1>1, <1>4, <1>5, <1>6, Zenon DEF IInv

(* The step enters a frame below the current one. *)
Enters(type, address, readOnly) ==
    \E top, called : frames' = Append(Continue(top, called), Frame(type, address, readOnly))

\* A frame is entered below the current one.
LEMMA EnterStep ==
  ASSUME IInv, status = "running", status' = status, worlds' = WorldsAfter,
         Writes(Snapshot(db), db'),
         NEW type, NEW address, NEW readOnly \in BOOLEAN,
         Enters(type, address, readOnly),
         type = "STATICCALL" => readOnly,
         readOnly => Seen(db') = Seen(db) /\ type \notin CreateOps,
         cur.readOnly => readOnly
  PROVE  IInv' /\ Len(frames') = Len(frames) + 1
  <1>0. PICK top, called :
            frames' = Append(Continue(top, called), Frame(type, address, readOnly))
    BY DEF Enters
  <1> DEFINE G == Continue(top, called)
             f == Frame(type, address, readOnly)
  <1>1. Holds(db, frames, worlds) /\ Len(frames) > 0
    BY DEF IInv
  <1>2. IsFrames(frames) /\ Len(frames) \in Nat /\ Above(db, db) /\ Sound(db)
    BY <1>1, HoldsParts
  <1>3. IsFrames(G) /\ Resembles(G, frames)
    BY <1>1, <1>2, ContinueIs, Zenon
  <1>4. IsFrame(f) /\ f.type = type /\ f.readOnly = readOnly /\ f.snapshot = Depth(db.repo)
    BY <1>2, FrameIs
  <1>5. frames' = Append(G, f)
    BY <1>0
  <1> HIDE DEF G, f
  <1>6. Holds(db, G, worlds)
    BY <1>1, <1>2, <1>3, StayHolds, Zenon
  <1>7. Len(G) = Len(frames) /\ G[Len(G)].readOnly = cur.readOnly
    <2>1. Len(frames) \in 1..Len(frames)
      BY <1>1, <1>2
    <2>2. QED
      BY <1>3, <2>1, Zenon DEF Resembles, cur
  <1>8. Len(frames') = Len(frames) + 1
    <2>1. Len(Append(G, f)) = Len(G) + 1
      BY <1>3, <1>4, FramesMore
    <2>2. QED
      BY <1>5, <1>7, <2>1
  <1>9. worlds' = Append(worlds, Seen(db))
    <2>1. Len(frames') > Len(frames)
      BY <1>2, <1>8
    <2>2. QED
      BY <2>1, VisibleIsSeen DEF WorldsAfter
  <1>10. Holds(db', Append(G, f), Append(worlds, Seen(db)))
    BY <1>4, <1>6, <1>7, EnterHolds, Zenon
  <1>11. Holds(db', frames', worlds')
    BY <1>5, <1>9, <1>10, Zenon
  <1>12. Len(frames') > 0
    BY <1>2, <1>8
  <1>13. QED
    BY <1>8, <1>11, <1>12 DEF IInv

\* The first frame is entered.
LEMMA BeginStep ==
  ASSUME IInv, status = "ready", status' = "running", worlds' = WorldsAfter,
         Writes(Snapshot(db), db'),
         NEW type, NEW address, type # "STATICCALL",
         frames' = <<Frame(type, address, FALSE)>>
  PROVE  IInv' /\ Len(frames') = Len(frames) + 1
  <1> DEFINE f == Frame(type, address, FALSE)
  <1>1. Holds(db, frames, worlds) /\ frames = << >>
    BY DEF IInv
  <1>2. Sound(db) /\ Len(frames) = 0
    BY <1>1, HoldsParts
  <1>4. IsFrame(f) /\ f.type = type /\ f.readOnly = FALSE /\ f.snapshot = Depth(db.repo)
    BY <1>2, FrameIs, ZenonT(60)
  <1>5. frames' = <<f>>
    OBVIOUS
  <1> HIDE DEF f
  <1>6. frames' = Append(frames, f) /\ Len(frames') = 1
    <2>1. Append(<< >>, f) = <<f>> /\ Len(<<f>>) = 1
      OBVIOUS
    <2>2. QED
      BY <1>1, <1>5, <2>1, ZenonT(60)
  <1>9. worlds' = Append(worlds, Seen(db))
    BY <1>2, <1>6, VisibleIsSeen DEF WorldsAfter
  <1>10. Holds(db', Append(frames, f), Append(worlds, Seen(db)))
    <2>1. ~f.readOnly /\ f.readOnly \in BOOLEAN /\ f.type # "STATICCALL"
      BY <1>4, Zenon
    <2>2. ~(Len(frames) > 0)
      BY <1>2
    <2>3. QED
      BY <1>1, <1>4, <2>1, <2>2, EnterHolds, Zenon
  <1>11. Holds(db', frames', worlds')
    BY <1>6, <1>9, <1>10, ZenonT(60)
  <1>13. QED
    BY <1>2, <1>6, <1>11 DEF IInv

\* The clause ends before any frame is entered.
LEMMA EndStep ==
  ASSUME IInv, status = "ready", status' \notin {"ready", "running"},
         worlds' = WorldsAfter, Above(db, db'), frames' = frames
  PROVE  IInv' /\ Len(frames') = Len(frames)
  <1>1. Holds(db, frames, worlds) /\ frames = << >>
    BY DEF IInv
  <1>2. IsFrames(frames) /\ Len(frames) = 0 /\ SubSeq(worlds, 1, Len(frames)) = worlds
    BY <1>1, HoldsParts
  <1>3. Resembles(frames, frames)
    BY DEF Resembles
  <1>4. worlds' = worlds
    BY <1>2 DEF WorldsAfter
  <1>5. Holds(db', frames, worlds)
    BY <1>1, <1>2, <1>3, StayHolds
  <1>6. QED
    BY <1>4, <1>5 DEF IInv

\* A frame ends.
LEMMA LeaveStep ==
  ASSUME IInv, status = "running", worlds' = WorldsAfter,
         NEW how, how \notin {"ready", "running"}, NEW after, Leave(how, after),
         Above(db, after), cur.readOnly => Seen(after) = Seen(db),
         how # "ok" => after = db
  PROVE  /\ IInv'
         /\ Len(frames') = Len(frames) - 1
         /\ how # "ok" => Seen(db') = worlds[Len(frames)]
         /\ how = "ok" => IF Len(frames) = 1 THEN status' = "ok"
                          ELSE frames'[Len(frames')].top = 1
  <1> DEFINE n == Len(frames)
             rest == SubSeq(frames, 1, n - 1)
             left == SubSeq(worlds, 1, n - 1)
             top == IF how = "ok" THEN 1 ELSE 0
             next == IF rest = << >> THEN rest ELSE [rest EXCEPT ![Len(rest)].top = top]
  <1>1. Holds(db, frames, worlds) /\ n > 0
    BY DEF IInv
  <1>2. IsFrames(frames) /\ n \in Nat /\ Len(worlds) = n
    BY <1>1, HoldsParts
  <1>3. frames' = next
    BY DEF Leave
  <1>4. IsFrames(rest) /\ Len(rest) = n - 1
    BY <1>1, <1>2, FramesLess
  <1>5. Holds(db', rest, left) /\ (how # "ok" => Seen(db') = worlds[n])
    <2>1. CASE how = "ok"
      <3>1. db' = after
        BY <2>1 DEF Leave
      <3>2. Resembles(frames, frames)
        BY DEF Resembles
      <3>3. Holds(after, frames, worlds)
        BY <1>1, <1>2, <3>2, StayHolds DEF cur
      <3>4. Holds(after, rest, left)
        BY <1>1, <3>3, LessHolds
      <3>5. QED
        BY <2>1, <3>1, <3>4
    <2>2. CASE how # "ok"
      <3>1. db' = RevertToSnapshot(db, frames[n].snapshot)
        BY <2>2 DEF Leave, cur
      <3>2. QED
        BY <1>1, <3>1, UndoHolds
    <2>3. QED
      BY <2>1, <2>2
  <1>6. status' = IF rest = << >> THEN how ELSE status
    BY DEF Leave
  <1>7. n = 1 <=> rest = << >>
    <2>1. rest = << >> => Len(rest) = 0
      <3>1. Len(<< >>) = 0
        OBVIOUS
      <3> HIDE DEF rest
      <3>2. QED
        BY <3>1
    <2>2. Len(rest) = 0 => rest = << >>
      <3>1. PICK A : rest \in Seq(FrameSet(A))
        BY <1>4 DEF IsFrames
      <3> DEFINE S == FrameSet(A)
      <3> HIDE DEF rest, S
      <3>2. QED
        BY <3>1 DEF S
    <2>3. QED
      BY <1>2, <1>4, <2>1, <2>2
  <1> HIDE DEF rest, left, top, n
  <1>8. /\ IsFrames(next) /\ Resembles(next, rest)
        /\ rest # << >> => next[Len(rest)].top = top
    <2>1. CASE rest = << >>
      BY <1>4, <2>1 DEF Resembles
    <2>2. CASE rest # << >>
      <3>1. Len(rest) \in 1..Len(rest)
        BY <1>1, <1>2, <1>4, <1>7, <2>2
      <3>2. QED
        <4> DEFINE changed == [rest EXCEPT ![Len(rest)].top = top]
        <4>1. IsFrames(changed) /\ Resembles(changed, rest) /\ changed[Len(rest)].top = top
          BY <1>4, <3>1, FramesChangeTop, ZenonT(60)
        <4>2. next = changed
          BY <2>2, Zenon
        <4> HIDE DEF next, changed
        <4>3. QED
          BY <4>1, <4>2, Zenon
    <2>3. QED
      BY <2>1, <2>2
  <1> HIDE DEF next
  <1>9. Len(frames') = n - 1
    BY <1>3, <1>4, <1>8 DEF Resembles
  <1>10. worlds' = left
    <2>1. ~(Len(frames') > Len(frames))
      BY <1>2, <1>9 DEF n
    <2>2. QED
      BY <1>9, <2>1 DEF WorldsAfter, left
  <1>11. Holds(db', frames', worlds')
    <2>1. Above(db', db')
      BY <1>5, HoldsParts
    <2>2. QED
      BY <1>3, <1>5, <1>8, <1>10, <2>1, StayHolds, Zenon
  <1>12. status' = "ready" => frames' = << >>
    BY <1>6
  <1>13. status' = "running" => Len(frames') > 0
    <2>1. status' = "running" => rest # << >>
      BY <1>6
    <2>2. QED
      BY <1>1, <1>2, <1>7, <1>9, <2>1
  <1>14. IInv'
    BY <1>11, <1>12, <1>13, Zenon DEF IInv
  <1>15. how = "ok" => IF n = 1 THEN status' = "ok" ELSE frames'[Len(frames')].top = 1
    <2>1. Len(rest) = Len(frames')
      BY <1>4, <1>9
    <2>2. QED
      BY <1>3, <1>6, <1>7, <1>8, <2>1, Zenon DEF top
  <1>16. QED
    BY <1>5, <1>9, <1>14, <1>15, Zenon DEF n

-----------------------------------------------------------------------------
(***************************************************************************)
(* The actions.                                                            *)
(***************************************************************************)

\* What a step does to the invariant, and what a frame that failed leaves.
Good ==
    /\ IInv'
    /\ Len(frames') < Len(frames) =>
        LET how == IF Len(frames) = 1 THEN status'
                   ELSE IF frames'[Len(frames')].top = 1 THEN "ok" ELSE "fault"
        IN  how # "ok" => Seen(db') = worlds[Len(frames)]

\* What the invariant says of the current frame.
LEMMA InvParts ==
  ASSUME IInv
  PROVE  /\ Sound(db) /\ Above(db, db) /\ Sound(Snapshot(db))
         /\ Len(frames) \in Nat
         /\ SnapshotId(db) = Depth(db.repo)
         /\ status = "running" => Len(frames) > 0
         /\ status = "running" => cur.readOnly \in BOOLEAN
         /\ status = "running" /\ cur.readOnly => cur.type \notin CreateOps
  <1>1. Holds(db, frames, worlds)
    BY DEF IInv
  <1>2. /\ Sound(db) /\ Above(db, db) /\ Sound(Snapshot(db)) /\ IsFrames(frames)
        /\ Len(frames) \in Nat /\ SnapshotId(db) = Depth(db.repo)
    BY <1>1, HoldsParts
  <1>3. status = "running" => Len(frames) > 0 /\ Len(frames) \in 1..Len(frames)
    BY <1>2 DEF IInv
  <1>4. status = "running" => cur.readOnly \in BOOLEAN
    BY <1>2, <1>3, FramesAre DEF cur
  <1>5. status = "running" /\ cur.readOnly => cur.type \notin CreateOps
    BY <1>1, <1>3 DEF Holds, Frozen, cur
  <1>6. QED
    BY <1>2, <1>3, <1>4, <1>5, Zenon

\* A step that leaves no frame has only the invariant to keep.
LEMMA StayGood ==
  ASSUME IInv, IInv', Len(frames') = Len(frames) \/ Len(frames') = Len(frames) + 1
  PROVE  Good
  <1>1. ~(Len(frames') < Len(frames))
    BY InvParts
  <1>2. QED
    BY <1>1 DEF Good

\* Operations that stay in the frame.
LEMMA StaysGood ==
  ASSUME IInv, worlds' = WorldsAfter, NEW op, NEW to, Stays(op, to),
         \/ UNCHANGED db
         \/ Writes(db, db') /\ ~cur.readOnly
  PROVE  Good
  <1>1. status = "running" /\ status' = status /\ frames' = Continue(cur.top, FALSE)
    BY DEF Stays, Can
  <1>2. Above(db, db') /\ (cur.readOnly => Seen(db') = Seen(db))
    BY InvParts, WritesAbove
  <1>3. QED
    BY <1>1, <1>2, StayStep, StayGood, ZenonT(60)

\* Operations that write: refused in a read only frame.
LEMMA WritingGood ==
  ASSUME IInv, worlds' = WorldsAfter, Emit \/ (\E v : SStore(v))
  PROVE  Good
  <1>1. Sound(db)
    BY InvParts
  <1>2. CASE Emit
    BY <1>1, <1>2, AddLogWrites, StaysGood, Zenon DEF Emit
  <1>3. ASSUME NEW v, SStore(v) PROVE Good
    BY <1>1, <1>3, SetStateWrites, StaysGood, Zenon DEF SStore
  <1>4. QED
    BY <1>2, <1>3

\* The state a callee starts in; below a static call nothing was sent.
LEMMA SentIs ==
  ASSUME IInv, NEW op, NEW to, NEW n, CanCall(op, n)
  PROVE  /\ Writes(Snapshot(db), Sent(op, to, n))
         /\ cur.readOnly \/ op = "STATICCALL" => Seen(Sent(op, to, n)) = Seen(db)
  <1> DEFINE saved == Snapshot(db)
  <1>1. Sound(saved) /\ Sound(db)
    BY InvParts
  <1>2. Seen(saved) = Seen(db)
    BY <1>1, SnapshotSeen
  <1>3. Writes(saved, saved)
    BY <1>1, WritesNothing
  <1>4. Writes(saved, Transfer(saved, World, cur.address, to, n))
    BY <1>1, TransferWrites
  <1>5. Sent(op, to, n) = IF op = "CALL" THEN Transfer(saved, World, cur.address, to, n) ELSE saved
    BY DEF Sent
  <1>6. n = 0 => Transfer(saved, World, cur.address, to, n) = saved
    BY DEF Transfer
  <1> HIDE DEF saved
  <1>7. Writes(saved, Sent(op, to, n))
    BY <1>3, <1>4, <1>5, Zenon
  <1>8. ASSUME cur.readOnly \/ op = "STATICCALL" PROVE Sent(op, to, n) = saved
    BY <1>5, <1>6, <1>8, Zenon DEF CanCall
  <1>9. QED
    BY <1>2, <1>7, <1>8 DEF saved

\* Calls: refused, into a frame, or answered without one.
LEMMA CallGood ==
  ASSUME IInv, worlds' = WorldsAfter, NEW op, NEW to, NEW n, NEW id,
         \/ CallRefused(op, to, n, id)
         \/ CallInto(op, to, n, id)
         \/ \E ok \in BOOLEAN : CallAway(op, to, n, id, ok)
  PROVE  Good
  <1>1. CanCall(op, n) /\ status = "running" /\ status' = status
    BY ZenonT(60) DEF CallRefused, CallInto, CallAway, CanCall, Can, Calls
  <1>2. Writes(Snapshot(db), Sent(op, to, n))
        /\ (cur.readOnly \/ op = "STATICCALL" => Seen(Sent(op, to, n)) = Seen(db))
    BY <1>1, SentIs, Zenon
  <1>3. Sound(db) /\ Above(db, db) /\ SnapshotId(db) = Depth(db.repo) /\ cur.readOnly \in BOOLEAN
    BY <1>1, InvParts, Zenon
  <1>4. CASE CallRefused(op, to, n, id)
    <2>1. frames' = Continue(0, to \notin Precompiled) /\ db' = db
      BY <1>4 DEF CallRefused, Calls
    <2>2. QED
      BY <1>1, <1>3, <2>1, StayStep, StayGood, Zenon
  <1>5. CASE CallInto(op, to, n, id)
    <2> DEFINE addr == IF op \in {"CALL", "STATICCALL"} THEN to ELSE cur.address
    <2>1. frames' = Append(Continue(0, TRUE), Frame(op, addr, ReadOnly(op)))
          /\ db' = Sent(op, to, n)
      BY <1>5 DEF CallInto
    <2> HIDE DEF addr
    <2>2. ReadOnly(op) \in BOOLEAN /\ (op = "STATICCALL" => ReadOnly(op))
          /\ (cur.readOnly => ReadOnly(op)) /\ (ReadOnly(op) => cur.readOnly \/ op = "STATICCALL")
      BY DEF ReadOnly
    <2>3. op \notin CreateOps
      BY <1>1 DEF CanCall, CallOps, CreateOps
    <2>4. Writes(Snapshot(db), db') /\ (ReadOnly(op) => Seen(db') = Seen(db))
      BY <1>2, <2>1, <2>2
    <2>5. Enters(op, addr, ReadOnly(op))
      BY <2>1, ZenonT(60) DEF Enters
    <2>6. QED
      BY <1>1, <2>2, <2>3, <2>4, <2>5, EnterStep, StayGood, Zenon
  <1>6. ASSUME NEW ok \in BOOLEAN, CallAway(op, to, n, id, ok) PROVE Good
    <2>1. frames' = Continue(IF ok THEN 1 ELSE 0, to \notin Precompiled)
          /\ db' = IF ok THEN Sent(op, to, n) ELSE RevertToSnapshot(Sent(op, to, n), SnapshotId(db))
      BY <1>6 DEF CallAway, Calls
    <2>2. Above(db, db') /\ (cur.readOnly => Seen(db') = Seen(db))
      <3>1. CASE ok
        BY <1>2, <1>3, <2>1, <3>1, EnterSaves, Zenon
      <3>2. CASE ~ok
        <4>1. db' = RevertToSnapshot(Sent(op, to, n), Depth(db.repo))
          BY <1>3, <2>1, <3>2, Zenon
        <4>2. QED
          BY <1>2, <1>3, <4>1, AwayReverts, Zenon
      <3>3. QED
        BY <3>1, <3>2, Zenon
    <2>3. QED
      BY <1>1, <2>1, <2>2, StayStep, StayGood, Zenon
  <1>7. QED
    BY <1>4, <1>5, <1>6

\* The state a new contract starts in.
LEMMA MadeIs ==
  ASSUME IInv, NEW addr, NEW caller, NEW n
  PROVE  LET made == Transfer(OnCreateContract(Snapshot(db), addr, caller), World, caller, addr, n)
         IN  Writes(Snapshot(db), made)
             /\ \A code : Writes(Snapshot(db), SetCode(made, World, addr, code))
  <1> DEFINE saved == Snapshot(db)
             new == OnCreateContract(saved, addr, caller)
             made == Transfer(new, World, caller, addr, n)
  <1>1. Sound(saved)
    BY InvParts
  <1> HIDE DEF saved
  <1>2. Writes(saved, new) /\ Sound(new)
    BY <1>1, OnCreateWrites, WritesSound, Zenon
  <1> HIDE DEF new
  <1>3. Writes(new, made) /\ Sound(made)
    BY <1>2, TransferWrites, WritesSound, Zenon
  <1> HIDE DEF made
  <1>4. Writes(saved, made)
    BY <1>2, <1>3, WritesMore, Zenon
  <1>5. \A code : Writes(saved, SetCode(made, World, addr, code))
    BY <1>3, <1>4, SetCodeWrites, WritesMore, Zenon
  <1>6. QED
    BY <1>4, <1>5 DEF saved, new, made

\* Creates: refused, into a frame, or without init code.
LEMMA CreateGood ==
  ASSUME IInv, worlds' = WorldsAfter, NEW op \in CreateOps, NEW n,
         CreateRefused(op, n) \/ CreateInto(op, n) \/ CreateEmpty(op, n)
  PROVE  Good
  <1> DEFINE addr == NewAddress(op)
  <1>1. status = "running" /\ status' = status /\ ~cur.readOnly
    BY Zenon DEF CreateRefused, CreateInto, CreateEmpty, CanCreate, Can
  <1>2. Sound(db) /\ Above(db, db)
    BY InvParts
  <1>3. Writes(Snapshot(db), Endowed(addr, n))
        /\ Writes(Snapshot(db), SetCode(Endowed(addr, n), World, addr, FALSE))
    BY MadeIs, Zenon DEF Endowed
  <1>4. CASE CreateRefused(op, n)
    <2>1. frames' = Continue(0, TRUE) /\ db' = db
      BY <1>4 DEF CreateRefused
    <2>2. QED
      BY <1>1, <1>2, <2>1, StayStep, StayGood, ZenonT(60)
  <1>5. CASE CreateInto(op, n)
    <2>1. frames' = Append(Continue(0, TRUE), Frame(op, addr, FALSE)) /\ db' = Endowed(addr, n)
      BY <1>5 DEF CreateInto
    <2>2. op # "STATICCALL"
      BY DEF CreateOps
    <2>3. Writes(Snapshot(db), db') /\ FALSE \in BOOLEAN
      BY <1>3, <2>1
    <2>4. Enters(op, addr, FALSE)
      BY <2>1, Zenon DEF Enters
    <2>5. QED
      BY <1>1, <2>2, <2>3, <2>4, EnterStep, StayGood, Zenon
  <1>6. CASE CreateEmpty(op, n)
    <2>1. frames' = Continue(1, TRUE) /\ db' = SetCode(Endowed(addr, n), World, addr, FALSE)
      BY <1>6 DEF CreateEmpty
    <2>2. Above(db, db')
      BY <1>2, <1>3, <2>1, EnterSaves, Zenon
    <2>3. QED
      BY <1>1, <2>1, <2>2, StayStep, StayGood, ZenonT(60)
  <1>7. QED
    BY <1>4, <1>5, <1>6, Zenon

\* The end of a frame.
LEMMA LeaveGood ==
  ASSUME IInv, status = "running", worlds' = WorldsAfter,
         NEW how, how \notin {"ready", "running"}, NEW after, Leave(how, after),
         Above(db, after), cur.readOnly => Seen(after) = Seen(db),
         how # "ok" => after = db
  PROVE  Good
  <1>1. /\ IInv'
        /\ Len(frames') = Len(frames) - 1
        /\ how # "ok" => Seen(db') = worlds[Len(frames)]
        /\ how = "ok" => IF Len(frames) = 1 THEN status' = "ok"
                         ELSE frames'[Len(frames')].top = 1
    BY LeaveStep, Zenon
  <1>2. QED
    BY <1>1, Zenon DEF Good

\* A frame that fails.
LEMMA FailGood ==
  ASSUME IInv, status = "running", worlds' = WorldsAfter,
         NEW how, how \notin {"ready", "running"}, Leave(how, db)
  PROVE  Good
  BY InvParts, LeaveGood, Zenon

\* The code a new contract returned is stored, in a frame that may write.
LEMMA InstallsGood ==
  ASSUME IInv, status = "running", worlds' = WorldsAfter,
         NEW how, how \notin {"ready", "running"}, NEW after, NEW code,
         Installs(how, after, code),
         after = db \/ (Writes(db, after) /\ ~cur.readOnly),
         how # "ok" => after = db
  PROVE  Good
  <1>1. Sound(db) /\ Above(db, db) /\ Writes(db, db)
    BY InvParts, WritesNothing
  <1>2. Writes(db, after) /\ Sound(after) /\ Above(db, after)
    BY <1>1, WritesSound, WritesAbove, Zenon
  <1>3. CASE cur.type \in CreateOps /\ how = "ok"
    <2> DEFINE done == SetCode(after, World, cur.address, code)
    <2>1. Leave(how, done)
      BY <1>3, Zenon DEF Installs
    <2>2. Writes(after, done)
      BY <1>2, SetCodeWrites, Zenon
    <2> HIDE DEF done
    <2>3. Above(db, done)
      BY <1>1, <1>2, <2>2, WritesMore, WritesAbove, Zenon
    <2>4. ~cur.readOnly
      BY <1>3, InvParts, Zenon
    <2>5. QED
      BY <1>3, <2>1, <2>3, <2>4, LeaveGood, Zenon
  <1>4. CASE ~(cur.type \in CreateOps /\ how = "ok")
    <2>1. Leave(how, after)
      BY <1>4, Zenon DEF Installs
    <2>2. cur.readOnly => Seen(after) = Seen(db)
      OBVIOUS
    <2>3. QED
      BY <1>2, <2>1, <2>2, LeaveGood, Zenon
  <1>5. QED
    BY <1>3, <1>4, Zenon

\* SELFDESTRUCT: refused in a read only frame.
LEMMA SelfDestructGood ==
  ASSUME IInv, worlds' = WorldsAfter, NEW to, SelfDestruct(to)
  PROVE  Good
  <1> DEFINE n == GetBalance(db, World, cur.address)
             set == SetBalance(db, World, to, GetBalance(db, World, to) + n)
             add == AddTransfer(set, <<cur.address, to, n>>)
             paid == IF n = 0 THEN db ELSE add
             gone == Suicide(paid, World, cur.address)
  <1>1. /\ status = "running" /\ ~cur.readOnly
        /\ Installs("ok", gone, FALSE)
    BY ZenonT(60) DEF SelfDestruct, Can
  <1>2. Sound(db) /\ Writes(db, db)
    BY InvParts, WritesNothing, Zenon
  <1>3. Writes(db, set) /\ Sound(set)
    BY <1>2, SetBalanceWrites, WritesSound, Zenon
  <1> HIDE DEF set
  <1>4. Writes(set, add)
    BY <1>3, AddTransferWrites, Zenon
  <1> HIDE DEF add
  <1>5. Writes(db, paid) /\ Sound(paid)
    BY <1>2, <1>3, <1>4, WritesMore, WritesSound, Zenon
  <1> HIDE DEF paid
  <1>6. Writes(db, gone)
    BY <1>5, SuicideWrites, WritesMore, Zenon
  <1> HIDE DEF gone
  <1>7. "ok" \notin {"ready", "running"}
    OBVIOUS
  <1>8. QED
    BY <1>1, <1>6, <1>7, InstallsGood, Zenon

\* STOP and RETURN.
LEMMA HaltGood ==
  ASSUME IInv, worlds' = WorldsAfter, NEW op, NEW how \in {"ok", "unstored"}, Halt(op, how)
  PROVE  Good
  <1>1. status = "running" /\ Installs(how, db, op = "RETURN")
    BY DEF Halt, Can
  <1>2. how \notin {"ready", "running"}
    OBVIOUS
  <1>3. QED
    BY <1>1, <1>2, InstallsGood, Zenon

\* REVERT and the two ways an operation fails.
LEMMA FaultGood ==
  ASSUME IInv, worlds' = WorldsAfter,
         Revert \/ FailAfter \/ \E op, to, id : FailBefore(op, to, id)
  PROVE  Good
  <1>1. status = "running" /\ (Leave("execution reverted", db) \/ Leave("fault", db))
    BY Zenon DEF Revert, FailAfter, FailBefore, Can
  <1>2. "execution reverted" \notin {"ready", "running"} /\ "fault" \notin {"ready", "running"}
    OBVIOUS
  <1>3. QED
    BY <1>1, <1>2, FailGood, Zenon

\* The outermost call or create.
LEMMA BeginGood ==
  ASSUME IInv, worlds' = WorldsAfter, NEW menu, Beginning(menu)
  PROVE  Good
  <1>1. /\ Sound(db) /\ Above(db, db) /\ Sound(Snapshot(db))
        /\ SnapshotId(db) = Depth(db.repo)
    BY InvParts
  <1>2. PICK c \in menu.clauses, n \in menu.amounts, id \in menu.ids :
            \/ BeginRefused(c[1], c[2], n, id)
            \/ c[1] = "CALL" /\ BeginCall(c[2], n, id)
            \/ c[1] = "CALL" /\ \E ok \in BOOLEAN : BeginAway(c[2], n, id, ok)
            \/ c[1] = "CREATE" /\ \E code \in BOOLEAN : BeginCreate(n, id, code)
    BY Zenon DEF Beginning
  <1>3. CASE BeginRefused(c[1], c[2], n, id)
    <2>1. status = "ready" /\ status' = "fault" /\ db' = db /\ frames' = frames
      BY <1>3, Zenon DEF BeginRefused, Starts
    <2>2. QED
      BY <1>1, <2>1, EndStep, StayGood, Zenon
  <1> DEFINE sent == Transfer(Snapshot(db), World, Origin, c[2], n)
  <1>4. Writes(Snapshot(db), sent)
    BY <1>1, TransferWrites
  <1>5. CASE BeginCall(c[2], n, id)
    <2>1. status = "ready" /\ status' = "running" /\ db' = sent
          /\ frames' = <<Frame("CALL", c[2], FALSE)>>
      BY <1>5, Zenon DEF BeginCall, Starts
    <2> HIDE DEF sent
    <2>2. QED
      BY <1>4, <2>1, BeginStep, StayGood, ZenonT(60)
  <1>6. ASSUME NEW ok \in BOOLEAN, BeginAway(c[2], n, id, ok) PROVE Good
    <2>1. status = "ready" /\ status' = (IF ok THEN "ok" ELSE "fault") /\ frames' = frames
          /\ db' = IF ok THEN sent ELSE RevertToSnapshot(sent, SnapshotId(db))
      BY <1>6, Zenon DEF BeginAway, Starts
    <2> HIDE DEF sent
    <2>2. Above(db, db')
      <3>1. CASE ok
        BY <1>1, <1>4, <2>1, <3>1, EnterSaves, Zenon
      <3>2. CASE ~ok
        <4>1. db' = RevertToSnapshot(sent, Depth(db.repo))
          BY <1>1, <2>1, <3>2, Zenon
        <4>2. QED
          BY <1>1, <1>4, <4>1, AwayReverts, Zenon
      <3>3. QED
        BY <3>1, <3>2, Zenon
    <2>3. status' \notin {"ready", "running"}
      BY <2>1
    <2>4. QED
      BY <2>1, <2>2, <2>3, EndStep, StayGood, Zenon
  <1>7. ASSUME NEW code \in BOOLEAN, BeginCreate(n, id, code) PROVE Good
    <2> DEFINE addr == Created[1]
               made == Transfer(OnCreateContract(Snapshot(db), addr, Origin), World,
                                Origin, addr, n)
    <2>1. /\ status = "ready"
          /\ db' = IF code THEN made ELSE SetCode(made, World, addr, FALSE)
          /\ frames' = IF code THEN <<Frame("CREATE", addr, FALSE)>> ELSE frames
          /\ status' = IF code THEN "running" ELSE "ok"
      BY <1>7, Zenon DEF BeginCreate, Starts
    <2>2. Writes(Snapshot(db), made) /\ Writes(Snapshot(db), SetCode(made, World, addr, FALSE))
      BY MadeIs, Zenon
    <2> HIDE DEF made, addr
    <2>3. CASE code
      <3>1. Writes(Snapshot(db), db') /\ status' = "running"
            /\ frames' = <<Frame("CREATE", addr, FALSE)>>
        BY <2>1, <2>2, <2>3, ZenonT(60)
      <3>2. QED
        BY <2>1, <3>1, BeginStep, StayGood, ZenonT(60)
    <2>4. CASE ~code
      <3>1. db' = SetCode(made, World, addr, FALSE) /\ status' = "ok" /\ frames' = frames
        BY <2>1, <2>4
      <3>2. Above(db, db')
        BY <1>1, <2>2, <3>1, EnterSaves, ZenonT(60)
      <3>3. QED
        BY <2>1, <3>1, <3>2, EndStep, StayGood, Zenon
    <2>5. QED
      BY <2>3, <2>4, Zenon
  <1>8. QED
    BY <1>2, <1>3, <1>5, <1>6, <1>7, Zenon

\* Every step of the machine.
LEMMA StepGood ==
  ASSUME IInv, NEW menu, EvmNext(menu)
  PROVE  Good
  <1>1. worlds' = WorldsAfter
    BY Zenon DEF EvmNext
  <1>2. CASE Beginning(menu)
    BY <1>1, <1>2, BeginGood, Zenon
  <1>3. CASE InFrame(menu)
    <2>1. CASE Plainly \/ SLoad \/ \E a : Balance(a)
      BY <1>1, <2>1, StaysGood, Zenon DEF Plainly, SLoad, Balance
    <2>2. CASE Emit \/ \E v : SStore(v)
      BY <1>1, <2>2, WritingGood, Zenon
    <2>3. CASE Revert \/ FailAfter \/ \E op, to, id : FailBefore(op, to, id)
      BY <1>1, <2>3, FaultGood, Zenon
    <2>4. CASE \E a : SelfDestruct(a)
      BY <1>1, <2>4, SelfDestructGood, Zenon
    <2>5. CASE \E op : \E how \in {"ok", "unstored"} : Halt(op, how)
      BY <1>1, <2>5, HaltGood, Zenon
    <2>6. \/ Plainly \/ SLoad \/ (\E a : Balance(a))
          \/ Emit \/ (\E v : SStore(v))
          \/ Revert \/ FailAfter \/ (\E op, to, id : FailBefore(op, to, id))
          \/ \E a : SelfDestruct(a)
          \/ \E op : \E how \in {"ok", "unstored"} : Halt(op, how)
      <3> DEFINE halts == \E op \in {"STOP", "RETURN"} \cap menu.ops, how \in {"ok", "unstored"} :
                              Halt(op, how)
                 fails == \E op \in {"OP", "SSTORE", "CREATE"} \cap menu.ops :
                              FailBefore(op, Foreign, NoId)
      <3>1. halts => \E op : \E how \in {"ok", "unstored"} : Halt(op, how)
        BY Zenon
      <3>2. fails => \E op, to, id : FailBefore(op, to, id)
        BY Zenon
      <3>3. \/ Plainly \/ SLoad \/ (\E a : Balance(a))
            \/ Emit \/ (\E v : SStore(v))
            \/ Revert \/ FailAfter \/ fails \/ halts
            \/ \E a : SelfDestruct(a)
        BY <1>3, ZenonT(60) DEF InFrame
      <3> HIDE DEF halts, fails
      <3>4. QED
        BY <3>1, <3>2, <3>3, Zenon
    <2>7. QED
      BY <2>1, <2>2, <2>3, <2>4, <2>5, <2>6, Zenon
  <1>4. CASE Calling(menu)
    <2>1. PICK op, to, id :
            \/ FailBefore(op, to, id)
            \/ \E n : \/ CallRefused(op, to, n, id)
                      \/ CallInto(op, to, n, id)
                      \/ \E ok \in BOOLEAN : CallAway(op, to, n, id, ok)
      BY <1>4, Zenon DEF Calling
    <2>2. CASE FailBefore(op, to, id)
      BY <1>1, <2>2, FaultGood, Zenon
    <2>3. QED
      BY <1>1, <2>1, <2>2, CallGood, Zenon
  <1>5. CASE Creating(menu)
    BY <1>1, <1>5, CreateGood, Zenon DEF Creating
  <1>6. QED
    BY <1>2, <1>3, <1>4, <1>5, Zenon DEF EvmNext

\* Steps of the tracer alone.
LEMMA StutterIInv ==
  ASSUME IInv, UNCHANGED evmVars
  PROVE  IInv' /\ Len(frames') = Len(frames)
  BY DEF IInv, evmVars

\* The state a clause starts from.
LEMMA InitIInv ==
  ASSUME EvmInit
  PROVE  IInv
  <1>1. db = NewDB /\ frames = << >> /\ worlds = << >> /\ status = "ready"
    BY DEF EvmInit
  <1>2. Len(<< >>) = 0 /\ (\A S : << >> \in Seq(S))
    OBVIOUS
  <1>3. IsFrames(<< >>) /\ \E B : << >> \in Seq(B)
    BY <1>2, Zenon DEF IsFrames
  <1>4. Opened(NewDB, << >>, << >>) /\ Nested(NewDB, << >>) /\ Frozen(NewDB, << >>, << >>)
    BY <1>2 DEF Opened, Nested, Frozen
  <1>5. Holds(NewDB, << >>, << >>)
    BY <1>2, <1>3, <1>4, NewSound, Zenon DEF Holds
  <1>6. QED
    BY <1>1, <1>5, Zenon DEF IInv

(***************************************************************************)
(* The inductive invariant: every open frame has its snapshot in both maps *)
(* of the state, which shows what the frame was entered in; the snapshots  *)
(* are nested as the frames are; and below a static call nothing changed.  *)
(***************************************************************************)
THEOREM MachineHolds ==
  ASSUME NEW CONSTANT Menus
  PROVE  EvmSpec(Menus) => []IInv
  <1>1. ASSUME IInv, [\E menu \in Menus : EvmNext(menu)]_evmVars PROVE IInv'
    BY <1>1, StepGood, StutterIInv, Zenon DEF Good
  <1>2. QED
    BY <1>1, InitIInv, PTL DEF EvmSpec

(***************************************************************************)
(* Whatever a clause does, in both maps of its state the revisions of a    *)
(* key are exactly the levels that hold it (Put, Push, Pop and PopTo of    *)
(* stackedmap as State uses them).                                         *)
(***************************************************************************)
THEOREM MapsStayIndexed ==
  ASSUME NEW CONSTANT Menus
  PROVE  EvmSpec(Menus) => []MapsIndexed
  <1>1. IInv => MapsIndexed
    BY DEF IInv, Holds, Sound, Proper, MapsIndexed
  <1>2. QED
    BY <1>1, MachineHolds, PTL

(***************************************************************************)
(* While a static call runs, at any depth and whatever is called from it,  *)
(* nothing a clause can change is changed (readOnly and                    *)
(* enforceRestrictions).                                                   *)
(***************************************************************************)
THEOREM StaticKeepsState ==
  ASSUME NEW CONSTANT Menus
  PROVE  EvmSpec(Menus) => []StaticChangesNothing
  <1>1. ASSUME IInv PROVE StaticChangesNothing
    <2>1. Holds(db, frames, worlds)
      BY <1>1 DEF IInv
    <2>2. DOMAIN worlds = 1..Len(frames)
      BY <2>1 DEF Holds
    <2>3. Frozen(db, frames, worlds)
      BY <2>1, Zenon DEF Holds
    <2>4. QED
      BY <2>2, <2>3, VisibleIsSeen, Zenon DEF Frozen, StaticChangesNothing
  <1>2. QED
    BY <1>1, MachineHolds, PTL

\* VisibleIsSeen after a step.
LEMMA VisibleAfter == Visible' = Seen(db')
  BY DEF Visible, Seen

(***************************************************************************)
(* A frame that fails leaves accounts, code, storage, events and transfers *)
(* as they were when it was entered, whatever it and the frames below it   *)
(* did, for any depth of calls (RevertToSnapshot).                         *)
(***************************************************************************)
THEOREM FailedFramesUndone ==
  ASSUME NEW CONSTANT Menus
  PROVE  EvmSpec(Menus) => RevertRestores
  <1> DEFINE Restores ==
                Len(frames') < Len(frames) =>
                    LET how == IF Len(frames) = 1 THEN status'
                               ELSE IF frames'[Len(frames')].top = 1 THEN "ok" ELSE "fault"
                    IN  how # "ok" => Visible' = worlds[Len(frames)]
  <1>1. ASSUME IInv, [\E menu \in Menus : EvmNext(menu)]_evmVars PROVE [Restores]_evmVars
    BY <1>1, StepGood, VisibleAfter, Zenon DEF Good
  <1>2. QED
    BY <1>1, MachineHolds, PTL DEF EvmSpec, RevertRestores
==============================================================================
