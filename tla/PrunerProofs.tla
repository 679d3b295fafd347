---------------------------- MODULE PrunerProofs ----------------------------
(***************************************************************************)
(* Whatever the length of the history, the forks and the restarts, as long *)
(* as no fork goes further back than the pruner waits: it sweeps no node   *)
(* that a block of the history to keep still has, and the archive has      *)
(* every node it is read for.                                              *)
(***************************************************************************)
EXTENDS Pruner, WellFoundedInduction, TLAPS

-----------------------------------------------------------------------------
(* Least numbers. *)

\* The order of the natural numbers as a relation, for the library's theorem on minima.
LEMMA NatRel == OpToRel(<, Nat) = { p \in Nat \X Nat : p[1] < p[2] }
  BY Zenon DEF OpToRel

\* A set of numbers that is not empty has a least one.
LEMMA LeastNumber ==
  ASSUME NEW T \in SUBSET Nat, T # {}
  PROVE  \E m \in T : \A n \in T : m <= n
  <1> DEFINE R == { p \in Nat \X Nat : p[1] < p[2] }
  <1>1. IsWellFoundedOn(R, Nat)
    BY NatLessThanWellFounded, NatRel, Zenon
  <1>2. \A m, n \in Nat : <<n, m>> \in R <=> n < m
    OBVIOUS
  <1> HIDE DEF R
  <1>3. \E m \in T : \A n \in T : ~(<<n, m>> \in R)
    BY <1>1, WFMin, Zenon
  <1>4. PICK m \in T : \A n \in T : ~(<<n, m>> \in R)
    BY <1>3
  <1>5. \A n \in T : ~(n < m) /\ n \in Nat /\ m \in Nat
    BY <1>2, <1>4, Zenon
  <1>6. \A n \in T : m <= n
    BY <1>5
  <1>7. QED
    BY <1>6

\* A set that misses no successor of a number outside it, nor 0, is empty.
LEMMA NoLeast ==
  ASSUME NEW T \in SUBSET Nat, 0 \notin T,
         \A n \in Nat : n + 1 \in T => n \in T
  PROVE  T = {}
  <1> SUFFICES ASSUME T # {} PROVE FALSE
    OBVIOUS
  <1>1. PICK m \in T : \A n \in T : m <= n
    BY LeastNumber
  <1>2. m \in Nat /\ m # 0
    BY <1>1
  <1>3. m - 1 \in Nat /\ (m - 1) + 1 = m
    BY <1>2
  <1>4. m - 1 \in T
    BY <1>1, <1>3
  <1>5. QED
    BY <1>1, <1>2, <1>4

-----------------------------------------------------------------------------
(* The pruner: chains. *)

\* What ChainOf computes: f[c] is the chain of c among the blocks B, up to b.
Up(f, B, b) == f = [c \in 1..b |-> IF c = 1 THEN {1} ELSE {c} \cup f[B[c].parent]]

\* The chain of b among the blocks B.
Path(B, b) == (CHOOSE f : Up(f, B, b))[b]

\* Among the first n blocks parents come before their children.
ParentsFirst(B, n) == \A c \in 2..n : B[c].parent \in 1..c - 1

\* The recursive function that follows parents up from a block exists, as parents have
\* lower indexes.
LEMMA UpExists ==
  ASSUME NEW B, NEW n \in Nat, ParentsFirst(B, n), NEW b \in 1..n
  PROVE  \E f : Up(f, B, b)
  <1> DEFINE T == { k \in Nat : k + 1 <= n /\ ~ \E f : Up(f, B, k + 1) }
  <1>1. T \in SUBSET Nat
    OBVIOUS
  <1>2. 0 \notin T
    <2>1. Up([c \in 1..1 |-> {1}], B, 1)
      BY DEF Up
    <2>2. QED
      BY <2>1
  <1>3. ASSUME NEW k \in Nat, k + 1 \in T PROVE k \in T
    <2> SUFFICES ASSUME NEW f, Up(f, B, k + 1) PROVE FALSE
      BY <1>3
    <2> DEFINE m == k + 2
               g == [c \in 1..m |-> IF c = m THEN {c} \cup f[B[c].parent] ELSE f[c]]
    <2>1. m \in 2..n /\ (k + 1) + 1 = m /\ \A c \in 1..m : c = m \/ c \in 1..k + 1
      BY <1>3
    <2>2. B[m].parent \in 1..m - 1
      BY <2>1 DEF ParentsFirst
    <2>3. \A c \in 1..k + 1 : f[c] = IF c = 1 THEN {1} ELSE {c} \cup f[B[c].parent]
      BY Zenon DEF Up
    <2>4. ASSUME NEW c \in 1..m
          PROVE  g[c] = IF c = 1 THEN {1} ELSE {c} \cup g[B[c].parent]
      <3>1. CASE c = m
        BY <2>1, <2>2, <3>1
      <3>2. CASE c # m /\ c = 1
        BY Zenon, <2>1, <2>3, <3>2
      <3>3. CASE c # m /\ c # 1
        <4>1. c \in 1..k + 1 /\ c \in 2..n
          BY <2>1, <3>3
        <4>2. B[c].parent \in 1..c - 1
          BY <4>1 DEF ParentsFirst
        <4>3. B[c].parent \in 1..m /\ B[c].parent # m
          BY <4>1, <4>2
        <4>4. QED
          BY Zenon, <2>3, <3>3, <4>1, <4>3
      <3>4. QED
        BY <3>1, <3>2, <3>3
    <2>5. Up(g, B, m)
      <3>1. g = [c \in 1..m |-> g[c]]
        OBVIOUS
      <3> HIDE DEF g, m
      <3>2. QED
        BY <2>4, <3>1, Zenon DEF Up
    <2>6. QED
      BY <1>3, <2>1, <2>5
  <1>4. T = {}
    <2> HIDE DEF T
    <2>1. QED
      BY <1>1, <1>2, <1>3, NoLeast
  <1>5. b - 1 \in Nat /\ (b - 1) + 1 = b /\ b <= n
    OBVIOUS
  <1>6. QED
    BY Zenon, <1>4, <1>5

\* Two such functions agree on the blocks whose parents they agree on.
LEMMA UpAgree ==
  ASSUME NEW B, NEW C, NEW n \in Nat, ParentsFirst(B, n), \A c \in 2..n : C[c].parent = B[c].parent,
         NEW f, NEW g, NEW b \in Nat, NEW d \in Nat, n <= b, n <= d, Up(f, B, b), Up(g, C, d),
         NEW c \in 1..n
  PROVE  f[c] = g[c]
  <1> DEFINE T == { k \in 1..n : f[k] # g[k] }
  <1> SUFFICES ASSUME T # {} PROVE FALSE
    OBVIOUS
  <1>1. T \in SUBSET Nat
    OBVIOUS
  <1>2. PICK m \in T : \A k \in T : m <= k
    <2> HIDE DEF T
    <2>1. QED
      BY <1>1, LeastNumber
  <1>3. m \in 1..b /\ m \in 1..d /\ m \in 1..n /\ f[m] # g[m]
    BY <1>2
  <1>4. /\ f[m] = IF m = 1 THEN {1} ELSE {m} \cup f[B[m].parent]
        /\ g[m] = IF m = 1 THEN {1} ELSE {m} \cup g[C[m].parent]
    BY <1>3, Zenon DEF Up
  <1>5. m # 1 /\ m \in 2..n
    BY <1>3, <1>4
  <1>6. B[m].parent \in 1..m - 1 /\ C[m].parent = B[m].parent
    BY <1>5 DEF ParentsFirst
  <1>7. B[m].parent \in 1..n /\ ~(m <= B[m].parent)
    BY <1>5, <1>6
  <1>8. f[B[m].parent] = g[B[m].parent]
    BY <1>2, <1>7
  <1>9. QED
    BY <1>3, <1>4, <1>5, <1>6, <1>8

\* The chain of a block is the block and its parent's chain; blocks that come later do
\* not change it.
LEMMA PathStep ==
  ASSUME NEW B, NEW n \in Nat, ParentsFirst(B, n), NEW b \in 1..n
  PROVE  Path(B, b) = IF b = 1 THEN {1} ELSE {b} \cup Path(B, B[b].parent)
  <1> DEFINE f == CHOOSE x : Up(x, B, b)
  <1>1. Up(f, B, b)
    BY UpExists, Zenon
  <1>2. Path(B, b) = f[b]
    BY Zenon DEF Path
  <1>3. f[b] = IF b = 1 THEN {1} ELSE {b} \cup f[B[b].parent]
    <2> HIDE DEF f
    <2>1. b \in 1..b
      OBVIOUS
    <2>2. QED
      BY <1>1, <2>1, Zenon DEF Up
  <1>4. ASSUME b # 1 PROVE f[B[b].parent] = Path(B, B[b].parent)
    <2> DEFINE p == B[b].parent
               g == CHOOSE x : Up(x, B, p)
    <2>1. p \in 1..b - 1 /\ p \in 1..n /\ p <= b /\ p <= p /\ p \in Nat /\ p \in 1..p
      BY <1>4 DEF ParentsFirst
    <2>2. Up(g, B, p)
      <3> HIDE DEF p
      <3>1. QED
        BY <2>1, UpExists, Zenon
    <2>3. ParentsFirst(B, p)
      BY <2>1 DEF ParentsFirst
    <2>4. Path(B, p) = g[p]
      BY Zenon DEF Path
    <2> HIDE DEF f, g, p
    <2>5. f[p] = g[p]
      BY <1>1, <2>1, <2>2, <2>3, UpAgree
    <2>6. QED
      BY <2>4, <2>5 DEF p
  <1>5. QED
    BY <1>2, <1>3, <1>4

\* The ancestors of a block do not depend on blocks added after it.
LEMMA PathStable ==
  ASSUME NEW B, NEW C, NEW n \in Nat, ParentsFirst(B, n), \A c \in 2..n : C[c].parent = B[c].parent,
         NEW b \in 1..n
  PROVE  Path(C, b) = Path(B, b)
  <1> DEFINE f == CHOOSE x : Up(x, B, b)
             g == CHOOSE x : Up(x, C, b)
  <1>1. ParentsFirst(C, n) /\ ParentsFirst(B, b) /\ (\A c \in 2..b : C[c].parent = B[c].parent)
        /\ b \in Nat /\ b \in 1..b /\ b <= b
    BY DEF ParentsFirst
  <1>2. Up(f, B, b) /\ Up(g, C, b)
    BY <1>1, UpExists, Zenon
  <1>3. Path(B, b) = f[b] /\ Path(C, b) = g[b]
    BY Zenon DEF Path
  <1> HIDE DEF f, g
  <1>4. f[b] = g[b]
    BY <1>1, <1>2, UpAgree
  <1>5. QED
    BY <1>3, <1>4

\* Block b among the blocks B: numbers tell the blocks of its chain apart, none is
\* missing, and the chains of its ancestors are parts of it; a trie is as the block that
\* last wrote it left it.
Linked(B, b) ==
  /\ b \in Path(B, b) /\ 1 \in Path(B, b) /\ Path(B, b) \subseteq 1..b
  /\ \A a \in Path(B, b) : B[a].number <= B[b].number /\ (B[a].number = B[b].number => a = b)
  /\ \A a, c \in Path(B, b) : B[a].number <= B[c].number => a \in Path(B, c)
  /\ \A k \in 0..B[b].number : \E a \in Path(B, b) : B[a].number = k
  /\ \A t \in Trie :
       /\ B[b].node[t] \in Path(B, b)
       /\ \A a \in Path(B, b) : B[B[b].node[t]].number <= B[a].number => B[a].node[t] = B[b].node[t]

\* The blocks are a tree that grows from genesis.
BlockTree(B) ==
  /\ B \in Seq([parent : Nat, number : Nat, node : [Trie -> Nat]]) /\ Len(B) \in Nat \ {0}
  /\ B[1].number = 0 /\ \A t \in Trie : B[1].node[t] = 1
  /\ \A b \in 2..Len(B) : B[b].parent \in 1..b - 1 /\ B[b].number = B[B[b].parent].number + 1
  /\ \A b \in 1..Len(B) : Linked(B, b)

\* C is B and a child of p that wrote the tries W.
Grown(B, C, p, W) ==
  LET n == Len(B) + 1
  IN  C = Append(B, [ parent |-> p, number |-> B[p].number + 1,
                      node |-> [t \in Trie |-> IF t \in W THEN n ELSE B[p].node[t]] ])

\* The types of the blocks of a tree.
LEMMA TreeType ==
  ASSUME NEW B, BlockTree(B)
  PROVE  /\ B \in Seq([parent : Nat, number : Nat, node : [Trie -> Nat]]) /\ Len(B) \in Nat \ {0}
         /\ \A b \in 1..Len(B) : B[b] \in [parent : Nat, number : Nat, node : [Trie -> Nat]]
         /\ \A b \in 1..Len(B) : B[b].number \in Nat /\ Linked(B, b)
  <1> DEFINE R == [parent : Nat, number : Nat, node : [Trie -> Nat]]
  <1>1. B \in Seq(R) /\ Len(B) \in Nat \ {0} /\ \A b \in 1..Len(B) : Linked(B, b)
    BY Zenon DEF BlockTree
  <1>2. \A x \in R : x.number \in Nat
    OBVIOUS
  <1> HIDE DEF R
  <1>3. \A b \in 1..Len(B) : B[b] \in R
    BY <1>1
  <1>4. \A b \in 1..Len(B) : B[b].number \in Nat
    BY <1>2, <1>3
  <1>5. QED
    BY <1>1, <1>3, <1>4 DEF R

\* What that makes of every block.
Extended(B, C, p, W) ==
  /\ C \in Seq([parent : Nat, number : Nat, node : [Trie -> Nat]]) /\ Len(C) = Len(B) + 1
  /\ \A b \in 1..Len(B) : C[b] = B[b] /\ b \in 1..Len(C)
  /\ C[Len(C)].parent = p /\ C[Len(C)].number = B[p].number + 1
  /\ \A t \in Trie : C[Len(C)].node[t] = IF t \in W THEN Len(C) ELSE B[p].node[t]

\* What a new block is: its number, its parent and the trie nodes it has written itself
\* or taken over.
LEMMA GrownIs ==
  ASSUME NEW B, NEW C, BlockTree(B), NEW p \in 1..Len(B), NEW W, Grown(B, C, p, W)
  PROVE  Extended(B, C, p, W)
  <1> DEFINE n == Len(B) + 1
             R == [parent : Nat, number : Nat, node : [Trie -> Nat]]
             new == [ parent |-> p, number |-> B[p].number + 1,
                      node |-> [t \in Trie |-> IF t \in W THEN n ELSE B[p].node[t]] ]
  <1>1. B \in Seq(R) /\ Len(B) \in Nat /\ B[p] \in R
    BY Zenon, TreeType
  <1>2. B[p].number + 1 \in Nat /\ n \in Nat /\ p \in Nat /\ \A t \in Trie : B[p].node[t] \in Nat
    BY <1>1
  <1>3. new \in R
    BY <1>2
  <1>4. C = Append(B, new)
    BY Zenon DEF Grown
  <1>5. /\ new.parent = p /\ new.number = B[p].number + 1
        /\ \A t \in Trie : new.node[t] = IF t \in W THEN n ELSE B[p].node[t]
    OBVIOUS
  <1> HIDE DEF new, R
  <1>6. C \in Seq(R) /\ Len(C) = n /\ C[n] = new /\ \A b \in 1..Len(B) : C[b] = B[b]
    BY <1>1, <1>3, <1>4
  <1>7. QED
    <2>1. \A b \in 1..Len(B) : b \in 1..n
      BY <1>1
    <2>2. QED
      BY <1>5, <1>6, <2>1, Zenon DEF R, Extended

\* A new block's ancestors are its parent's and itself; those of other blocks stay.
LEMMA GrownPaths ==
  ASSUME NEW B, NEW C, BlockTree(B), NEW p \in 1..Len(B), NEW W, Grown(B, C, p, W)
  PROVE  /\ \A b \in 1..Len(B) : Path(C, b) = Path(B, b)
         /\ Path(C, Len(C)) = {Len(C)} \cup Path(B, p)
  <1>1. ParentsFirst(B, Len(B)) /\ Len(B) \in Nat \ {0}
    BY Zenon DEF BlockTree, ParentsFirst
  <1> DEFINE Old == \A b \in 1..Len(B) : C[b] = B[b]
  <1>0. Old /\ Len(C) = Len(B) + 1 /\ C[Len(C)].parent = p
    <2>1. \A b \in 1..Len(B) : C[b] = B[b] /\ b \in 1..Len(C)
      BY GrownIs, Zenon DEF Extended
    <2>2. Len(C) = Len(B) + 1 /\ C[Len(C)].parent = p
      BY GrownIs, Zenon DEF Extended
    <2>3. QED
      BY <2>1, <2>2, Zenon
  <1>2. ASSUME NEW c \in 2..Len(B) PROVE C[c].parent = B[c].parent
    <2>1. c \in 1..Len(B)
      BY <1>1
    <2>2. QED
      BY <1>0, <2>1
  <1>3. \A b \in 1..Len(B) : Path(C, b) = Path(B, b)
    BY <1>1, <1>2, PathStable
  <1>4. Len(C) \in Nat /\ Len(C) = Len(B) + 1 /\ C[Len(C)].parent = p /\ Len(C) # 1 /\ Len(C) \in 1..Len(C)
    BY <1>0, <1>1
  <1>5. ParentsFirst(C, Len(C))
    <2> SUFFICES ASSUME NEW c \in 2..Len(C) PROVE C[c].parent \in 1..c - 1
      BY DEF ParentsFirst
    <2>1. CASE c = Len(C)
      BY <1>4, <2>1
    <2>2. CASE c # Len(C)
      <3>1. c \in 2..Len(B)
        BY <1>1, <1>4, <2>2
      <3>2. QED
        BY <1>1, <1>2, <3>1 DEF ParentsFirst
    <2>3. QED
      BY <2>1, <2>2
  <1>6. Path(C, Len(C)) = {Len(C)} \cup Path(C, p)
    BY <1>4, <1>5, PathStep
  <1>7. QED
    BY <1>3, <1>6

\* What the blocks of a tree are.
LEMMA TreeParts ==
  ASSUME NEW B, BlockTree(B), NEW b \in 1..Len(B)
  PROVE  /\ B[b].number \in Nat /\ \A t \in Trie : B[b].node[t] \in 1..Len(B)
         /\ Linked(B, b) /\ Path(B, b) \subseteq 1..Len(B) /\ 1 \in 1..Len(B)
  <1>1. Linked(B, b) /\ Len(B) \in Nat \ {0} /\ B[b].number \in Nat
    BY TreeType
  <1>2. Path(B, b) \subseteq 1..Len(B)
    BY <1>1 DEF Linked
  <1>3. QED
    BY <1>1, <1>2 DEF Linked

\* A tree with one more block is a tree.
LEMMA TreeGrows ==
  ASSUME NEW B, NEW C, BlockTree(B), NEW p \in 1..Len(B), NEW W, Grown(B, C, p, W)
  PROVE  BlockTree(C)
  <1> DEFINE n == Len(C)
  <1>1. /\ Len(B) \in Nat \ {0} /\ n = Len(B) + 1 /\ n \in Nat \ {0} /\ n \notin 1..Len(B) /\ n \in 1..n
        /\ \A b \in 1..n : b = n \/ b \in 1..Len(B)
    <2>1. Len(B) \in Nat \ {0} /\ n = Len(B) + 1
      BY GrownIs, TreeType, Zenon DEF Extended
    <2> HIDE DEF n
    <2>2. QED
      BY <2>1
  <1>2. /\ \A b \in 1..Len(B) : C[b] = B[b] /\ b \in 1..n
        /\ C[n].parent = p /\ C[n].number = B[p].number + 1
        /\ \A t \in Trie : C[n].node[t] = IF t \in W THEN n ELSE B[p].node[t]
    <2>1. Extended(B, C, p, W)
      BY GrownIs, Zenon
    <2>2. QED
      BY <2>1, Zenon DEF Extended
  <1>3. /\ \A b \in 1..Len(B) : Path(C, b) = Path(B, b)
        /\ Path(C, n) = {n} \cup Path(B, p)
    BY GrownPaths
  <1> HIDE DEF n
  <1>4. ASSUME NEW b \in 1..Len(B) PROVE Linked(C, b)
    <2>1. Linked(B, b) /\ Path(B, b) \subseteq 1..Len(B) /\ \A t \in Trie : B[b].node[t] \in 1..Len(B)
      BY TreeParts
    <2>2. /\ C[b] = B[b] /\ Path(C, b) = Path(B, b)
          /\ \A a \in Path(B, b) : C[a] = B[a] /\ Path(C, a) = Path(B, a)
          /\ \A t \in Trie : C[B[b].node[t]] = B[B[b].node[t]]
      BY <1>2, <1>3, <2>1
    <2> DEFINE P == Path(B, b)
    <2>3. /\ b \in P /\ 1 \in P /\ P \subseteq 1..b
          /\ \A a \in P : B[a].number <= B[b].number /\ (B[a].number = B[b].number => a = b)
          /\ \A a, c \in P : B[a].number <= B[c].number => a \in Path(B, c)
          /\ \A k \in 0..B[b].number : \E a \in P : B[a].number = k
      BY <2>1, Zenon DEF Linked
    <2>4. \A t \in Trie :
            /\ B[b].node[t] \in P
            /\ \A a \in P : B[B[b].node[t]].number <= B[a].number => B[a].node[t] = B[b].node[t]
      BY <2>1, Zenon DEF Linked
    <2>5. P = Path(C, b)
      BY <2>2
    <2>6. C[b] = B[b] /\ \A a \in P : C[a] = B[a] /\ Path(C, a) = Path(B, a)
      BY <2>2
    <2> HIDE DEF P
    <2>7. \A a \in P : C[a].number <= C[b].number /\ (C[a].number = C[b].number => a = b)
      BY <2>3, <2>6
    <2>8. \A a, c \in P : C[a].number <= C[c].number => a \in Path(C, c)
      BY <2>3, <2>6
    <2>9. \A k \in 0..C[b].number : \E a \in P : C[a].number = k
      BY <2>3, <2>6
    <2>10. \A t \in Trie :
             /\ C[b].node[t] \in P
             /\ \A a \in P : C[C[b].node[t]].number <= C[a].number => C[a].node[t] = C[b].node[t]
      BY <2>4, <2>6
    <2>11. QED
      BY <2>3, <2>5, <2>7, <2>8, <2>9, <2>10, Zenon DEF Linked
  <1>5. Linked(C, n)
    <2> DEFINE P == Path(B, p)
    <2>1. /\ Linked(B, p) /\ P \subseteq 1..Len(B) /\ B[p].number \in Nat
          /\ \A t \in Trie : B[p].node[t] \in 1..Len(B)
      BY TreeParts
    <2>2. /\ p \in P /\ 1 \in P /\ \A a \in P : B[a].number <= B[p].number
          /\ \A a, c \in P : B[a].number <= B[c].number => a \in Path(B, c)
          /\ \A k \in 0..B[p].number : \E a \in P : B[a].number = k
      BY <2>1, Zenon DEF Linked
    <2>3. \A t \in Trie :
            /\ B[p].node[t] \in P
            /\ \A a \in P : B[B[p].node[t]].number <= B[a].number => B[a].node[t] = B[p].node[t]
      BY <2>1, Zenon DEF Linked
    <2>4. \A a \in P : C[a] = B[a] /\ Path(C, a) = Path(B, a) /\ C[a].number \in Nat /\ a \in 1..n /\ a # n
      BY <1>1, <1>2, <1>3, <2>1, TreeParts
    <2>5. Path(C, n) = {n} \cup P /\ C[n].number = B[p].number + 1 /\ C[n].number \in Nat
      BY <1>2, <1>3, <2>1
    <2> HIDE DEF P
    <2>6. n \in Path(C, n) /\ 1 \in Path(C, n) /\ Path(C, n) \subseteq 1..n
      BY Zenon, <1>1, <2>2, <2>4, <2>5
    <2>7. \A a \in Path(C, n) : C[a].number <= C[n].number /\ (C[a].number = C[n].number => a = n)
      <3>1. ASSUME NEW a \in P PROVE C[a].number <= C[n].number /\ C[a].number # C[n].number
        <4>1. C[a].number <= B[p].number /\ C[a].number \in Nat /\ B[p].number \in Nat
          BY <2>2, <2>4, Zenon
        <4>2. QED
          BY <2>5, <4>1
      <3>2. C[n].number <= C[n].number
        BY <2>5
      <3>3. QED
        BY <2>5, <3>1, <3>2, Zenon
    <2>8. ASSUME NEW a \in Path(C, n), NEW c \in Path(C, n), C[a].number <= C[c].number
          PROVE  a \in Path(C, c)
      <3>1. CASE c = n
        BY <3>1
      <3>2. CASE c # n
        <4>1. c \in P /\ C[c].number <= B[p].number
          BY Zenon, <2>2, <2>4, <2>5, <3>2
        <4>2. a # n
          BY <2>1, <2>4, <2>5, <2>8, <4>1
        <4>3. a \in P
          BY <2>5, <4>2
        <4>4. QED
          BY <2>2, <2>4, <2>8, <4>1, <4>3
      <3>3. QED
        BY <3>1, <3>2
    <2>9. ASSUME NEW k \in 0..C[n].number PROVE \E a \in Path(C, n) : C[a].number = k
      <3>1. CASE k = C[n].number
        BY <2>6, <3>1
      <3>2. CASE k # C[n].number
        <4>1. k \in 0..B[p].number
          BY <2>1, <2>5, <3>2
        <4>2. PICK a \in P : B[a].number = k
          BY <2>2, <4>1
        <4>3. QED
          BY <2>4, <2>5, <4>2
      <3>3. QED
        BY <3>1, <3>2
    <2>10. ASSUME NEW t \in Trie
           PROVE  /\ C[n].node[t] \in Path(C, n)
                  /\ \A a \in Path(C, n) : C[C[n].node[t]].number <= C[a].number => C[a].node[t] = C[n].node[t]
      <3>1. CASE t \in W
        <4>1. C[n].node[t] = n
          BY <1>2, <3>1
        <4>2. QED
          BY <2>6, <2>7, <4>1, <2>4, <2>5
      <3>2. CASE t \notin W
        <4>1. C[n].node[t] = B[p].node[t]
          BY <1>2, <3>2
        <4>2. C[C[n].node[t]] = B[B[p].node[t]] /\ B[p].node[t] \in P
          BY <2>3, <2>4, <4>1
        <4>3. ASSUME NEW a \in P, C[C[n].node[t]].number <= C[a].number
              PROVE  C[a].node[t] = C[n].node[t]
          <5>1. C[a] = B[a]
            BY <2>4
          <5>2. QED
            BY <2>3, <4>1, <4>2, <4>3, <5>1
        <4>4. QED
          BY <2>5, <4>2, <4>3, <4>1
      <3>3. QED
        BY <3>1, <3>2
    <2>11. QED
      BY <2>6, <2>7, <2>8, <2>9, <2>10, Zenon DEF Linked
  <1>6. \A b \in 1..n : Linked(C, b)
    BY <1>1, <1>4, <1>5
  <1>7. ASSUME NEW b \in 2..n PROVE C[b].parent \in 1..b - 1 /\ C[b].number = C[C[b].parent].number + 1
    <2>1. CASE b = n
      BY <1>1, <1>2, <2>1
    <2>2. CASE b # n
      <3>1. b \in 2..Len(B) /\ b \in 1..Len(B)
        BY <1>1, <2>2
      <3>2. B[b].parent \in 1..b - 1 /\ B[b].number = B[B[b].parent].number + 1
        BY Zenon, <3>1 DEF BlockTree
      <3>3. B[b].parent \in 1..Len(B)
        BY <1>1, <3>1, <3>2
      <3>4. QED
        BY <1>2, <3>1, <3>2, <3>3
    <2>3. QED
      BY <2>1, <2>2
  <1>8. C[1] = B[1] /\ B[1].number = 0 /\ \A t \in Trie : B[1].node[t] = 1
    BY <1>1, <1>2 DEF BlockTree
  <1>9. C \in Seq([parent : Nat, number : Nat, node : [Trie -> Nat]])
    BY GrownIs, Zenon DEF Extended
  <1>10. QED
    BY <1>1, <1>6, <1>7, <1>8, <1>9 DEF BlockTree, n

\* The block of number k in the chain of h.
At(B, h, k) == CHOOSE b \in Path(B, h) : B[b].number = k

\* A chain has one block of every number up to its head's.
LEMMA AtIs ==
  ASSUME NEW B, BlockTree(B), NEW h \in 1..Len(B), NEW k \in Nat, k <= B[h].number
  PROVE  /\ At(B, h, k) \in Path(B, h) /\ At(B, h, k) \in 1..Len(B) /\ B[At(B, h, k)].number = k
         /\ \A a \in Path(B, h) : B[a].number = k => a = At(B, h, k)
  <1>1. /\ Path(B, h) \subseteq 1..Len(B) /\ B[h].number \in Nat /\ Linked(B, h)
    BY TreeParts
  <1>2. \E a \in Path(B, h) : B[a].number = k
    BY <1>1 DEF Linked
  <1>3. At(B, h, k) \in Path(B, h) /\ B[At(B, h, k)].number = k
    BY <1>2, Zenon DEF At
  <1>4. ASSUME NEW a \in Path(B, h), B[a].number = k PROVE a = At(B, h, k)
    <2> DEFINE c == At(B, h, k)
    <2>1. c \in Path(B, h) /\ B[c].number = k /\ c \in 1..Len(B)
      BY <1>1, <1>3
    <2> HIDE DEF c
    <2>2. a \in Path(B, c)
      <3>1. B[a].number <= B[c].number
        BY <1>4, <2>1
      <3>2. QED
        BY <1>1, <2>1, <3>1 DEF Linked
    <2>3. Linked(B, c)
      BY <2>1, TreeParts
    <2>4. a = c
      BY <1>4, <2>1, <2>2, <2>3, Zenon DEF Linked
    <2>5. QED
      BY <2>4 DEF c
  <1>5. QED
    BY <1>1, <1>3, <1>4

\* A new best block leaves the blocks of the best chain alone that it does not replace.
LEMMA AtKept ==
  ASSUME NEW B, NEW C, BlockTree(B), NEW p \in 1..Len(B), NEW W, Grown(B, C, p, W),
         NEW h \in 1..Len(B), NEW g \in 1..Len(C), NEW k \in Nat, k <= B[h].number,
         \/ g = h
         \/ g = Len(C) /\ B[h].number <= C[g].number /\ \A b \in Path(B, h) \ Path(B, p) : ~(B[b].number <= k)
  PROVE  At(C, g, k) = At(B, h, k) /\ C[At(B, h, k)] = B[At(B, h, k)]
  <1> DEFINE a == At(B, h, k)
  <1>1. a \in Path(B, h) /\ a \in 1..Len(B) /\ B[a].number = k
    BY AtIs
  <1>2. BlockTree(C)
    BY TreeGrows
  <1>3. /\ \A b \in 1..Len(B) : Path(C, b) = Path(B, b)
        /\ Path(C, Len(C)) = {Len(C)} \cup Path(B, p)
    BY GrownPaths
  <1>4. \A b \in 1..Len(B) : C[b] = B[b] /\ b \in 1..Len(C)
    BY GrownIs, Zenon DEF Extended
  <1> HIDE DEF a
  <1>5. C[a] = B[a] /\ C[a].number = k /\ C[h] = B[h]
    BY <1>1, <1>4
  <1>6. a \in Path(C, g)
    <2>1. CASE g = h
      BY <1>1, <1>3, <2>1
    <2>2. CASE g = Len(C) /\ \A b \in Path(B, h) \ Path(B, p) : ~(B[b].number <= k)
      BY <1>1, <1>3, <2>2
    <2>3. QED
      BY <2>1, <2>2
  <1>7. k <= C[g].number
    <2>1. C[g].number \in Nat /\ B[h].number \in Nat
      BY <1>2, TreeParts
    <2>2. QED
      BY <1>5, <2>1
  <1>8. a = At(C, g, k)
    BY <1>2, <1>5, <1>6, <1>7, AtIs
  <1>9. QED
    BY <1>5, <1>8 DEF a

\* In the chain of h, the later of two blocks has the node the earlier one has, unless
\* it was written between the two.
LEMMA NodeShared ==
  ASSUME NEW B, BlockTree(B), NEW h \in 1..Len(B), NEW a \in Path(B, h), NEW b \in Path(B, h), NEW t \in Trie,
         B[a].number <= B[b].number, B[B[b].node[t]].number <= B[a].number
  PROVE  B[a].node[t] = B[b].node[t]
  <1>1. Linked(B, h) /\ Path(B, h) \subseteq 1..Len(B)
    BY TreeParts
  <1>2. a \in Path(B, b)
    BY <1>1, Zenon DEF Linked
  <1>3. Linked(B, b)
    BY <1>1, TreeParts
  <1>4. QED
    BY <1>2, <1>3, Zenon DEF Linked

\* A node belongs to the block that wrote it.
LEMMA NodeOwner ==
  ASSUME NEW B, BlockTree(B), NEW b \in 1..Len(B), NEW t \in Trie
  PROVE  B[b].node[t] \in 1..Len(B) /\ B[B[b].node[t]].node[t] = B[b].node[t]
  <1>1. Linked(B, b) /\ B[b].node[t] \in 1..Len(B)
    BY TreeParts
  <1>2. B[B[b].node[t]].number \in Nat
    BY <1>1, TreeParts
  <1>3. B[B[b].node[t]].number <= B[B[b].node[t]].number
    BY <1>2
  <1>4. QED
    BY <1>1, <1>3, Zenon DEF Linked

\* ChainOf computes the ancestors.
LEMMA ChainIs == \A b : ChainOf(b) = Path(blocks, b)
  BY Zenon DEF ChainOf, Path, Up

\* BlockAt is the block of this number on the best chain.
LEMMA BlockAtIs == \A k : BlockAt(k) = At(blocks, bestBlock, k)
  BY ChainIs, Zenon DEF BlockAt, At

-----------------------------------------------------------------------------
(* The pruner: the invariant. *)

Steps == {"initiate", "index", "account", "drop"}
LoopSteps == Steps \cup {"index-done", "account-done", "dropped", "stopped"}

Spaces == {"A", "B"}

\* The space that commits do not write to.
Inactive == IF active = "A" THEN "B" ELSE "A"

\* The tree of blocks, and nodes of its blocks.
Shape ==
  /\ BlockTree(blocks) /\ bestBlock \in 1..Len(blocks) /\ active \in Spaces
  /\ live \in [Spaces -> SUBSET (Trie \X (1..Len(blocks)))]
  /\ permanent \in SUBSET (Trie \X (1..Len(blocks)))
  /\ committing \in SUBSET [parent : 1..Len(blocks), changed : SUBSET Trie, space : Spaces]
  /\ overtaken \in BOOLEAN /\ waiting \in BOOLEAN

\* What was archived last: the state at this number.
Base == IF status.Step = "initiate" THEN status.N2 ELSE status.N1

\* What the loop holds is what is saved, but between a switch and the end of
\* stepInitiate, and between an archive or a sweep and the save after it.
Loop ==
  /\ status \in [N1 : Nat, N2 : Nat, Step : Steps, Cycles : 0..1]
  /\ mem \in [N1 : Nat, N2 : Nat, Step : LoopSteps, Cycles : 0..1]
  /\ status.N1 <= status.N2 /\ mem.N1 <= mem.N2 /\ status.N2 <= bestNum
  /\ status.Cycles = 0 => Base = 0
  /\ status.Step # "initiate" => status.N2 > 0
  /\ waiting => /\ mem.Step = "initiate" /\ status.Step = "initiate"
                /\ mem.N1 = status.N2 /\ mem.N2 > 0 /\ mem.Cycles = status.Cycles
  /\ mem.Step # "stopped" /\ ~waiting =>
       /\ mem.N1 = status.N1 /\ mem.N2 = status.N2 /\ mem.Cycles = status.Cycles
       /\ mem.Step = "initiate" => status.Step = "initiate"
       /\ mem.Step \in {"index", "index-done"} => status.Step = "index"
       /\ mem.Step \in {"account", "account-done"} => status.Step = "account"
       /\ mem.Step \in {"drop", "dropped"} => status.Step = "drop"
  /\ mem.Step = "dropped" => bestNum > mem.N2 + MaxStateHistory

\* No block is further ahead of the best block than N2 is put.
Near ==
  /\ \A b \in 1..Len(blocks) : blocks[b].number <= bestNum + InitSlack
  /\ \A c \in committing : blocks[c.parent].number < bestNum + InitSlack

\* The inactive space has, and will get, no node of a block above n.
Below(n) ==
  /\ \A x \in live[Inactive] : blocks[x[2]].number <= n
  /\ \A c \in committing : c.space = Inactive => blocks[c.parent].number < n

\* From the switch on the inactive space ends at N2.
Separate ==
  /\ waiting => Below(mem.N2)
  /\ status.Step # "initiate" => Below(status.N2)

\* A node that no live space holds was written at or below what is archived, which is
\* further back than the history to keep.
Lost ==
  \A b \in 1..Len(blocks), t \in Trie :
    blocks[b].node[t] = b /\ <<t, b>> \notin live["A"] \cup live["B"] =>
      \/ status.Cycles = 1 /\ blocks[b].number <= Base /\ bestNum > Base + MaxStateHistory
      \/ status.Step = "drop" /\ blocks[b].number <= status.N2 /\ bestNum > status.N2 + MaxStateHistory

\* The permanent space holds the node of trie t at number k of the best chain.
Holds(t, k) == <<t, blocks[At(blocks, bestBlock, k)].node[t]>> \in permanent

\* Unless a fork went below N2, what was to be archived by now is.
Kept ==
  ~overtaken =>
    /\ mem.Step # "stopped" \/ status.Cycles = 1 \/ status.Step # "initiate" => \A t \in Trie : Holds(t, Base)
    /\ mem.Step = "index-done" \/ status.Step \in {"account", "drop"} => Holds("index", status.N2)
    /\ mem.Step = "account-done" \/ status.Step = "drop" => Holds("account", status.N2)

PrunerIInv == Shape /\ Loop /\ Near /\ Separate /\ Lost /\ Kept

-----------------------------------------------------------------------------
(* The pruner: what follows from the invariant. *)

\* The types of the numbers that the pruner compares.
LEMMA BestNumType == ASSUME PrunerIInv PROVE bestNum \in Nat /\ Base \in Nat /\ Base <= status.N2
  <1>1. bestNum \in Nat
    BY TreeParts, Zenon DEF PrunerIInv, Shape, bestNum
  <1>2. QED
    BY <1>1 DEF PrunerIInv, Loop, Base

\* The invariant implies that every state of the guaranteed history has its nodes.
LEMMA AvailableFollows == ASSUME PrunerIInv PROVE StateAvailable
  <1> SUFFICES ASSUME ~overtaken, NEW b \in Path(blocks, bestBlock), blocks[b].number + MaxStateHistory >= bestNum,
                      NEW t \in Trie
               PROVE  <<t, blocks[b].node[t]>> \in Found
    BY ChainIs, Zenon DEF StateAvailable, Nodes
  <1> DEFINE n == blocks[b].node[t]
  <1>1. BlockTree(blocks) /\ bestBlock \in 1..Len(blocks)
    BY Zenon DEF PrunerIInv, Shape
  <1>2. b \in 1..Len(blocks) /\ blocks[b].number \in Nat
    <2>1. b \in 1..Len(blocks)
      BY <1>1, TreeParts
    <2>2. QED
      BY <1>1, <2>1, TreeParts
  <1>3. n \in 1..Len(blocks) /\ blocks[n].node[t] = n
    BY <1>1, <1>2, NodeOwner
  <1>4. blocks[n].number \in Nat
    BY <1>1, <1>3, TreeParts
  <1>5. bestNum \in Nat /\ Base \in Nat /\ MaxStateHistory \in Nat /\ status.N2 \in Nat /\ Base <= bestNum /\ status.N2 <= bestNum
    BY BestNumType, PrunerAssumption DEF PrunerIInv, Loop
  <1> HIDE DEF n
  <1>6. ASSUME NEW k \in Nat, k <= bestNum, blocks[n].number <= k, bestNum > k + MaxStateHistory, Holds(t, k)
        PROVE  <<t, n>> \in permanent
    <2> DEFINE a == At(blocks, bestBlock, k)
    <2>1. a \in Path(blocks, bestBlock) /\ blocks[a].number = k
      BY <1>1, <1>6, AtIs DEF bestNum
    <2>2. blocks[a].number <= blocks[b].number /\ blocks[blocks[b].node[t]].number <= blocks[a].number
      BY <1>2, <1>4, <1>5, <1>6, <2>1 DEF n
    <2>3. <<t, blocks[a].node[t]>> \in permanent
      BY <1>6, Zenon DEF Holds
    <2> HIDE DEF a
    <2>4. blocks[a].node[t] = blocks[b].node[t]
      BY <1>1, <2>1, <2>2, NodeShared
    <2>5. QED
      BY <2>3, <2>4 DEF n
  <1>7. CASE <<t, n>> \in live["A"] \cup live["B"]
    BY <1>7 DEF Found, n
  <1>8. CASE <<t, n>> \notin live["A"] \cup live["B"]
    <2>1. \/ status.Cycles = 1 /\ blocks[n].number <= Base /\ bestNum > Base + MaxStateHistory
          \/ status.Step = "drop" /\ blocks[n].number <= status.N2 /\ bestNum > status.N2 + MaxStateHistory
      BY <1>3, <1>8, Zenon DEF PrunerIInv, Lost
    <2>2. CASE status.Cycles = 1 /\ blocks[n].number <= Base /\ bestNum > Base + MaxStateHistory
      <3>1. Holds(t, Base)
        BY <2>2, Zenon DEF PrunerIInv, Kept
      <3>2. <<t, n>> \in permanent
        BY <1>5, <1>6, <2>2, <3>1, Zenon
      <3>3. QED
        BY <3>2 DEF Found, n
    <2>3. CASE status.Step = "drop" /\ blocks[n].number <= status.N2 /\ bestNum > status.N2 + MaxStateHistory
      <3>1. Holds(t, status.N2)
        BY <2>3, Zenon DEF PrunerIInv, Kept, Trie
      <3>2. <<t, n>> \in permanent
        BY <1>5, <1>6, <2>3, <3>1, Zenon
      <3>3. QED
        BY <3>2 DEF Found, n
    <2>4. QED
      BY <2>1, <2>2, <2>3
  <1>9. QED
    BY <1>7, <1>8

\* The invariant implies that what was archived is complete.
LEMMA CompleteFollows == ASSUME PrunerIInv PROVE ArchiveComplete
  <1>1. PrunerTypeOK
    <2>1. BlockTree(blocks) /\ bestBlock \in 1..Len(blocks) /\ active \in {"A", "B"}
      BY Zenon DEF PrunerIInv, Shape, Spaces
    <2>2. DOMAIN blocks = 1..Len(blocks)
      BY <2>1, TreeType
    <2>3. \A b \in 1..Len(blocks) : b # 1 => blocks[b].parent \in 1..b - 1
      BY <2>1 DEF BlockTree
    <2>4. \A n \in Found : n \in Trie \X (1..Len(blocks))
      BY DEF PrunerIInv, Shape, Found, Spaces
    <2>5. \A s \in {status, mem} : s.N1 <= s.N2 /\ s.Cycles \in 0..1
      BY DEF PrunerIInv, Loop
    <2>6. QED
      <3>1. (\A b \in DOMAIN blocks : b # 1 => blocks[b].parent \in 1..b - 1) /\ bestBlock \in DOMAIN blocks
        BY <2>1, <2>2, <2>3
      <3>2. \A n \in Found : n \in Trie \X DOMAIN blocks
        <4>1. Trie \X DOMAIN blocks = Trie \X (1..Len(blocks))
          BY <2>2
        <4>2. QED
          BY <2>4, <4>1, Zenon
      <3>3. QED
        BY <2>1, <2>5, <3>1, <3>2, Zenon DEF PrunerTypeOK
  <1>2. ASSUME mem.Step \in {"drop", "dropped"}, ~overtaken PROVE Nodes(BlockAt(mem.N2)) \subseteq permanent
    <2>1. status.Step = "drop" /\ mem.N2 = status.N2
      BY <1>2 DEF PrunerIInv, Loop
    <2>2. Holds("index", status.N2) /\ Holds("account", status.N2)
      BY <1>2, <2>1 DEF PrunerIInv, Kept
    <2>3. QED
      BY <2>1, <2>2, BlockAtIs DEF Holds, Nodes, Trie
  <1>3. QED
    BY <1>1, <1>2, Zenon DEF ArchiveComplete

-----------------------------------------------------------------------------
(* The pruner: every step keeps the invariant. *)

\* A new database satisfies the invariant.
LEMMA PrunerInitIInv == ASSUME PrunerInit PROVE PrunerIInv
  <1> DEFINE g == [parent |-> 0, number |-> 0, node |-> [t \in Trie |-> 1]]
             R == [parent : Nat, number : Nat, node : [Trie -> Nat]]
  <1>1. blocks = <<g>> /\ bestBlock = 1
    BY Zenon DEF PrunerInit
  <1>2. g \in R /\ g.number = 0 /\ \A t \in Trie : g.node[t] = 1
    OBVIOUS
  <1> HIDE DEF g, R
  <1>3. Len(blocks) = 1 /\ blocks[1] = g /\ blocks \in Seq(R) /\ 1..1 = {1} /\ 2..1 = {}
    BY <1>1, <1>2
  <1>4. Path(blocks, 1) = {1}
    <2>1. ParentsFirst(blocks, 1) /\ 1 \in 1..1 /\ 1 \in Nat
      BY DEF ParentsFirst
    <2>2. QED
      BY <2>1, PathStep
  <1>5. Linked(blocks, 1)
    BY <1>2, <1>3, <1>4 DEF Linked
  <1>6. BlockTree(blocks)
    BY <1>2, <1>3, <1>5 DEF BlockTree, R
  <1>7. bestNum = 0
    BY <1>1, <1>2, <1>3 DEF bestNum
  <1>8. Shape
    <2>1. live \in [Spaces -> SUBSET (Trie \X (1..Len(blocks)))]
      <3>1. live = [s \in {"A", "B"} |-> IF s = "A" THEN { <<t, 1>> : t \in Trie } ELSE {}]
        BY Zenon DEF PrunerInit
      <3>2. { <<t, 1>> : t \in Trie } \subseteq Trie \X (1..Len(blocks))
        BY <1>3
      <3>3. QED
        BY <3>1, <3>2, Zenon DEF Spaces
    <2>2. permanent = {} /\ active = "A" /\ committing = {} /\ overtaken = FALSE /\ waiting = FALSE
      BY Zenon DEF PrunerInit
    <2>3. bestBlock \in 1..Len(blocks)
      BY <1>1, <1>3
    <2>4. QED
      BY <1>6, <2>1, <2>2, <2>3, Zenon DEF Shape, Spaces
  <1>9. Loop
    <2>1. /\ status = [N1 |-> 0, N2 |-> 0, Step |-> "initiate", Cycles |-> 0]
          /\ mem = [N1 |-> 0, N2 |-> 0, Step |-> "stopped", Cycles |-> 0]
          /\ waiting = FALSE
      BY Zenon DEF PrunerInit
    <2>2. /\ status \in [N1 : Nat, N2 : Nat, Step : Steps, Cycles : 0..1]
          /\ mem \in [N1 : Nat, N2 : Nat, Step : LoopSteps, Cycles : 0..1]
      BY <2>1 DEF Steps, LoopSteps
    <2>3. /\ status.N1 = 0 /\ status.N2 = 0 /\ status.Step = "initiate"
          /\ mem.N1 = 0 /\ mem.N2 = 0 /\ mem.Step = "stopped"
      BY <2>1
    <2>4. QED
      BY <1>7, <2>1, <2>2, <2>3 DEF Loop, Base
  <1>10. Near /\ Separate
    BY <1>2, <1>3, <1>7, PrunerAssumption DEF Near, Separate, PrunerInit
  <1>11. Lost
    BY <1>3 DEF Lost, PrunerInit
  <1>12. Kept
    BY DEF Kept, PrunerInit
  <1>13. QED
    BY <1>8, <1>9, <1>10, <1>11, <1>12 DEF PrunerIInv

\* The facts of the invariant that the steps below use.
LEMMA PrunerParts ==
  ASSUME PrunerIInv
  PROVE  /\ BlockTree(blocks) /\ bestBlock \in 1..Len(blocks) /\ DOMAIN blocks = 1..Len(blocks)
         /\ \A b \in 1..Len(blocks) : blocks[b].number \in Nat
         /\ bestNum \in Nat /\ Base \in Nat /\ Base <= status.N2 /\ status.N2 <= bestNum
         /\ status.N2 \in Nat /\ mem.N2 \in Nat /\ MaxStateHistory \in Nat /\ InitSlack \in Nat /\ DropDelay \in Nat
         /\ active \in Spaces /\ Inactive \in Spaces /\ Inactive # active
  <1>1. BlockTree(blocks) /\ bestBlock \in 1..Len(blocks) /\ active \in Spaces
    BY Zenon DEF PrunerIInv, Shape
  <1>2. DOMAIN blocks = 1..Len(blocks) /\ \A b \in 1..Len(blocks) : blocks[b].number \in Nat
    BY <1>1, TreeType
  <1>3. Inactive \in Spaces /\ Inactive # active
    BY <1>1 DEF Inactive, Spaces
  <1>4. status.N2 \in Nat /\ mem.N2 \in Nat /\ status.N2 <= bestNum
    BY DEF PrunerIInv, Loop
  <1>5. QED
    BY <1>1, <1>2, <1>3, <1>4, BestNumType, PrunerAssumption

\* A commit, on the best chain or beside it, keeps the invariant.
LEMMA BeginCommitIInv ==
  ASSUME PrunerIInv, NEW parent \in DOMAIN blocks, NEW changed \in SUBSET Trie, BeginCommit(parent, changed)
  PROVE  PrunerIInv'
  <1> DEFINE c == [parent |-> parent, changed |-> changed, space |-> active]
  <1>1. /\ committing' = {c}
        /\ UNCHANGED <<blocks, bestBlock, live, permanent, active, status, mem, waiting, overtaken>>
        /\ blocks[parent].number < bestNum + MaxAhead
    BY DEF BeginCommit, spaces
  <1>2. parent \in 1..Len(blocks) /\ blocks[parent].number \in Nat /\ bestNum \in Nat /\ Inactive # active /\ active \in Spaces
    BY PrunerParts
  <1>3. bestNum' = bestNum /\ Base' = Base /\ Inactive' = Inactive
    BY <1>1 DEF bestNum, Base, Inactive
  <1>4. Shape'
    <2>1. c \in [parent : 1..Len(blocks), changed : SUBSET Trie, space : Spaces]
      BY <1>2
    <2> HIDE DEF c
    <2>2. committing' \in SUBSET [parent : 1..Len(blocks), changed : SUBSET Trie, space : Spaces]
      BY <1>1, <2>1, Zenon
    <2>3. QED
      BY <1>1, <2>2, Zenon DEF PrunerIInv, Shape
  <1>5. Loop'
    BY <1>1, <1>3 DEF PrunerIInv, Loop
  <1>6. Near'
    <2>1. blocks[parent].number < bestNum + InitSlack
      BY <1>1, <1>2, PrunerAssumption
    <2>2. QED
      BY <1>1, <1>3, <2>1 DEF PrunerIInv, Near
  <1>7. Separate'
    BY <1>1, <1>2, <1>3 DEF PrunerIInv, Separate, Below
  <1>8. Lost'
    BY <1>1, <1>3, Zenon DEF PrunerIInv, Lost
  <1>9. Kept'
    BY <1>1, <1>3 DEF PrunerIInv, Kept, Holds
  <1>10. QED
    BY <1>4, <1>5, <1>6, <1>7, <1>8, <1>9 DEF PrunerIInv

\* What an archive writes are nodes of the trie at n2; with those of n1 they are all.
LEMMA ArchivedIs ==
  ASSUME PrunerIInv, NEW t \in Trie, NEW n1 \in Nat, NEW n2 \in Nat, n2 <= bestNum
  PROVE  /\ Archived(t, n1, n2) \subseteq Trie \X (1..Len(blocks))
         /\ \/ <<t, blocks[At(blocks, bestBlock, n2)].node[t]>> \in Archived(t, n1, n2)
            \/ /\ ~(n1 = 0 /\ n2 = 0)
               /\ blocks[At(blocks, bestBlock, n2)].node[t] = blocks[At(blocks, bestBlock, n1)].node[t]
  <1> DEFINE a == At(blocks, bestBlock, n2)
             d == At(blocks, bestBlock, n1)
  <1>1. a \in 1..Len(blocks)
    BY PrunerParts, AtIs DEF bestNum
  <1>2. blocks[a].node[t] \in 1..Len(blocks)
    BY <1>1, PrunerParts, TreeParts
  <1>3. Archived(t, n1, n2) =
          { <<t, blocks[a].node[t]>> } \ IF n1 = 0 /\ n2 = 0 THEN {} ELSE { <<t, blocks[d].node[t]>> }
    BY BlockAtIs, Zenon DEF Archived
  <1> HIDE DEF a, d
  <1>4. Archived(t, n1, n2) \subseteq Trie \X (1..Len(blocks))
    <2>1. <<t, blocks[a].node[t]>> \in Trie \X (1..Len(blocks))
      BY <1>2
    <2>2. Archived(t, n1, n2) \subseteq { <<t, blocks[a].node[t]>> }
      BY <1>3, Zenon
    <2>3. QED
      BY <2>1, <2>2, Zenon
  <1>5. \/ <<t, blocks[a].node[t]>> \in Archived(t, n1, n2)
        \/ ~(n1 = 0 /\ n2 = 0) /\ blocks[a].node[t] = blocks[d].node[t]
    BY <1>3
  <1>6. QED
    BY <1>4, <1>5 DEF a, d

\* A start of the node keeps the invariant: the pruner goes on from the saved status.
LEMMA StartIInv == ASSUME PrunerIInv, Start PROVE PrunerIInv'
  <1>1. /\ UNCHANGED <<blocks, bestBlock, committing, live, active, status, waiting, overtaken>>
        /\ mem' = status /\ permanent \subseteq permanent'
        /\ permanent' = permanent \/ permanent' = permanent \cup UNION { Archived(t, 0, 0) : t \in Trie }
        /\ status.Cycles = 0 => permanent' = permanent \cup UNION { Archived(t, 0, 0) : t \in Trie }
        /\ mem.Step = "stopped"
    BY DEF Start, tries
  <1>2. bestNum' = bestNum /\ Base' = Base /\ Inactive' = Inactive
    BY <1>1 DEF bestNum, Base, Inactive
  <1>3. \A t \in Trie : /\ Archived(t, 0, 0) \subseteq Trie \X (1..Len(blocks))
                        /\ <<t, blocks[At(blocks, bestBlock, 0)].node[t]>> \in Archived(t, 0, 0)
    <2>1. 0 <= bestNum /\ 0 \in Nat
      BY PrunerParts
    <2>2. QED
      BY <2>1, ArchivedIs
  <1>4. Shape'
    <2>1. permanent' \in SUBSET (Trie \X (1..Len(blocks)))
      <3>1. UNION { Archived(t, 0, 0) : t \in Trie } \subseteq Trie \X (1..Len(blocks))
        BY <1>3, Zenon
      <3>2. permanent \subseteq Trie \X (1..Len(blocks))
        BY Zenon DEF PrunerIInv, Shape
      <3>3. QED
        BY <1>1, <3>1, <3>2, Zenon
    <2>2. QED
      BY <1>1, <2>1 DEF PrunerIInv, Shape
  <1>5. Loop'
    <2>1. status.Step \in Steps /\ ~waiting
      BY <1>1 DEF PrunerIInv, Loop
    <2>2. QED
      BY <1>1, <1>2, <2>1 DEF PrunerIInv, Loop, Steps, LoopSteps
  <1>6. Near' /\ Lost'
    BY <1>1, <1>2 DEF PrunerIInv, Near, Lost
  <1>7. Separate'
    <2>1. ~waiting
      BY <1>1 DEF PrunerIInv, Loop
    <2>2. QED
      BY <1>1, <1>2, <2>1 DEF PrunerIInv, Separate, Below
  <1>8. Kept'
    <2> SUFFICES ASSUME ~overtaken PROVE Kept'
      BY <1>1 DEF Kept
    <2>1. \A t \in Trie : \A k : Holds(t, k) => Holds(t, k)'
      BY <1>1 DEF Holds
    <2>2. status.Step \in Steps
      BY DEF PrunerIInv, Loop
    <2>3. \A t \in Trie : Holds(t, Base)'
      <3>1. CASE status.Cycles = 0
        <4>1. Base = 0
          BY <3>1 DEF PrunerIInv, Loop
        <4>2. QED
          BY <1>1, <1>2, <1>3, <3>1, <4>1 DEF Holds
      <3>2. CASE status.Cycles # 0
        <4>1. status.Cycles = 1
          BY <3>2 DEF PrunerIInv, Loop
        <4>2. QED
          BY <1>2, <2>1, <4>1 DEF PrunerIInv, Kept
      <3>3. QED
        BY <3>1, <3>2
    <2>4. QED
      BY <1>1, <2>1, <2>2, <2>3 DEF PrunerIInv, Kept, Steps, Trie
  <1>9. QED
    BY <1>4, <1>5, <1>6, <1>7, <1>8 DEF PrunerIInv

\* A stop between any two steps of the pruner keeps the invariant.
LEMMA StopIInv == ASSUME PrunerIInv, Stop PROVE PrunerIInv'
  <1>1. /\ UNCHANGED <<blocks, bestBlock, live, permanent, active, status, overtaken>>
        /\ mem' = [N1 |-> 0, N2 |-> 0, Step |-> "stopped", Cycles |-> 0]
        /\ waiting' = FALSE /\ committing' = {} /\ mem.Step # "stopped"
    BY DEF Stop, spaces
  <1>2. bestNum' = bestNum /\ Base' = Base /\ Inactive' = Inactive
    BY <1>1 DEF bestNum, Base, Inactive
  <1>3. Shape'
    BY Zenon, <1>1 DEF PrunerIInv, Shape
  <1>4. Loop'
    <2>1. /\ mem' \in [N1 : Nat, N2 : Nat, Step : LoopSteps, Cycles : 0..1]
          /\ mem'.N1 = 0 /\ mem'.N2 = 0 /\ mem'.Step = "stopped"
      BY <1>1 DEF LoopSteps
    <2>2. QED
      BY <1>1, <1>2, <2>1 DEF PrunerIInv, Loop
  <1>5. Near' /\ Lost'
    BY <1>1, <1>2 DEF PrunerIInv, Near, Lost
  <1>6. Separate'
    BY <1>1, <1>2 DEF PrunerIInv, Separate, Below
  <1>7. Kept'
    BY <1>1, <1>2 DEF PrunerIInv, Kept, Holds
  <1>8. QED
    BY <1>3, <1>4, <1>5, <1>6, <1>7 DEF PrunerIInv

\* Switching the live space keeps the invariant: a commit under way may write to the
\* old space still, but its block is at most InitSlack above the best one, within N2.
LEMMA SwitchIInv == ASSUME PrunerIInv, Switch PROVE PrunerIInv'
  <1>1. /\ UNCHANGED <<blocks, bestBlock, committing, live, permanent, status, overtaken>>
        /\ mem' = [mem EXCEPT !.N1 = mem.N2, !.N2 = N2AfterSwitch]
        /\ waiting' = TRUE /\ ~waiting /\ mem.Step = "initiate" /\ active' = Inactive
    BY DEF Switch, tries, Inactive
  <1>2. bestNum' = bestNum /\ Base' = Base
    BY <1>1 DEF bestNum, Base
  <1>3. Inactive' = active /\ active' \in Spaces
    BY <1>1, PrunerParts DEF Inactive, Spaces
  <1>4. mem \in [N1 : Nat, N2 : Nat, Step : LoopSteps, Cycles : 0..1] /\ status.Step = "initiate"
        /\ mem.N2 = status.N2 /\ mem.Cycles = status.Cycles
    BY <1>1 DEF PrunerIInv, Loop
  <1>5. N2AfterSwitch \in Nat /\ N2AfterSwitch >= bestNum + InitSlack /\ N2AfterSwitch > 0 /\ mem.N2 <= N2AfterSwitch
    <2>1. InitSlack \in Nat /\ InitSlack > 0 /\ MaxStateHistory \in Nat /\ bestNum \in Nat
      BY PrunerParts, PrunerAssumption
    <2>2. status.N2 <= bestNum /\ mem.N2 \in Nat
      BY PrunerParts
    <2>3. QED
      BY <1>4, <2>1, <2>2 DEF N2AfterSwitch
  <1>6. mem'.N1 = mem.N2 /\ mem'.N2 = N2AfterSwitch /\ mem'.Step = "initiate" /\ mem'.Cycles = mem.Cycles
        /\ mem' \in [N1 : Nat, N2 : Nat, Step : LoopSteps, Cycles : 0..1]
    BY Zenon, <1>1, <1>4, <1>5
  <1>7. Shape'
    BY <1>1, <1>3 DEF PrunerIInv, Shape
  <1>8. Loop'
    BY <1>1, <1>2, <1>4, <1>5, <1>6 DEF PrunerIInv, Loop
  <1>9. Near' /\ Lost'
    BY <1>1, <1>2 DEF PrunerIInv, Near, Lost
  <1>10. Separate'
    <2>1. \A b \in 1..Len(blocks) : blocks[b].number <= N2AfterSwitch
      BY <1>5, PrunerParts DEF PrunerIInv, Near
    <2>2. \A c \in committing : blocks[c.parent].number < N2AfterSwitch
      <3> SUFFICES ASSUME NEW c \in committing PROVE blocks[c.parent].number < N2AfterSwitch
        OBVIOUS
      <3>1. c.parent \in 1..Len(blocks) /\ blocks[c.parent].number < bestNum + InitSlack
        BY DEF PrunerIInv, Shape, Near
      <3>2. QED
        BY <1>5, <3>1, PrunerParts
    <2>3. \A x \in live[active] : x[2] \in 1..Len(blocks)
      <3>1. live[active] \in SUBSET (Trie \X (1..Len(blocks)))
        BY PrunerParts, Zenon DEF PrunerIInv, Shape
      <3>2. QED
        BY <3>1
    <2>4. QED
      BY <1>1, <1>3, <1>4, <1>6, <2>1, <2>2, <2>3 DEF Separate, Below
  <1>11. Kept'
    BY <1>1, <1>2, <1>6 DEF PrunerIInv, Kept, Holds
  <1>12. QED
    BY <1>7, <1>8, <1>9, <1>10, <1>11 DEF PrunerIInv

\* Saving the two numbers of a cycle keeps the invariant.
LEMMA InitiatedIInv == ASSUME PrunerIInv, Initiated PROVE PrunerIInv'
  <1>1. /\ UNCHANGED <<blocks, bestBlock, committing, live, permanent, active, overtaken>>
        /\ mem' = [mem EXCEPT !.Step = "index"] /\ status' = mem'
        /\ waiting' = FALSE /\ waiting /\ bestNum > mem.N2
    BY DEF Initiated, tries, spaces
  <1>2. mem \in [N1 : Nat, N2 : Nat, Step : LoopSteps, Cycles : 0..1] /\ mem.Step = "initiate"
        /\ status.Step = "initiate" /\ mem.N1 = status.N2 /\ mem.N2 > 0 /\ mem.Cycles = status.Cycles
    BY <1>1 DEF PrunerIInv, Loop
  <1>3. /\ mem'.N1 = mem.N1 /\ mem'.N2 = mem.N2 /\ mem'.Step = "index" /\ mem'.Cycles = mem.Cycles
        /\ mem' \in [N1 : Nat, N2 : Nat, Step : Steps, Cycles : 0..1]
        /\ mem' \in [N1 : Nat, N2 : Nat, Step : LoopSteps, Cycles : 0..1]
    BY <1>1, <1>2 DEF Steps, LoopSteps
  <1>4. bestNum' = bestNum /\ Base' = Base /\ Inactive' = Inactive
    BY <1>1, <1>2, <1>3 DEF bestNum, Base, Inactive
  <1>5. Shape'
    BY Zenon, <1>1 DEF PrunerIInv, Shape
  <1>6. Loop'
    <2>1. /\ status'.N1 = status.N2 /\ status'.N2 = mem.N2 /\ status'.Step = "index"
          /\ mem.N1 <= mem.N2 /\ mem.N2 <= bestNum
      BY <1>1, <1>2, <1>3, PrunerParts DEF PrunerIInv, Loop
    <2>2. status'.Cycles = 0 => Base' = 0
      BY <1>1, <1>2, <1>3, <1>4 DEF PrunerIInv, Loop
    <2>3. QED
      BY <1>1, <1>2, <1>3, <1>4, <2>1, <2>2 DEF Loop
  <1>7. Near'
    BY <1>1, <1>4 DEF PrunerIInv, Near
  <1>8. Lost'
    BY <1>1, <1>2, <1>3, <1>4 DEF PrunerIInv, Lost
  <1>9. Separate'
    BY <1>1, <1>2, <1>3, <1>4 DEF PrunerIInv, Separate, Below
  <1>10. Kept'
    BY <1>1, <1>2, <1>3, <1>4 DEF PrunerIInv, Kept, Holds
  <1>11. QED
    BY <1>5, <1>6, <1>7, <1>8, <1>9, <1>10 DEF PrunerIInv

\* Archiving the difference of a trie between N1 and N2 keeps the invariant.
LEMMA ArchiveIInv ==
  ASSUME PrunerIInv, NEW t \in Trie, NEW written \in {"index-done", "account-done"},
         t = "index" <=> written = "index-done", Archive(t, written)
  PROVE  PrunerIInv'
  <1>1. /\ UNCHANGED <<blocks, bestBlock, committing, live, active, status, waiting, overtaken>>
        /\ mem' = [mem EXCEPT !.Step = written] /\ mem.Step = t
        /\ permanent' = permanent \cup Archived(t, mem.N1, mem.N2)
    BY DEF Archive, tries
  <1>2. t \in {"index", "account"}
    BY DEF Trie
  <1>3. /\ mem \in [N1 : Nat, N2 : Nat, Step : LoopSteps, Cycles : 0..1] /\ ~waiting
        /\ mem.N1 = status.N1 /\ mem.N2 = status.N2 /\ mem.Cycles = status.Cycles /\ status.Step = t
        /\ status.N2 > 0
    BY <1>1, <1>2 DEF PrunerIInv, Loop
  <1>4. /\ mem'.N1 = mem.N1 /\ mem'.N2 = mem.N2 /\ mem'.Step = written /\ mem'.Cycles = mem.Cycles
        /\ mem' \in [N1 : Nat, N2 : Nat, Step : LoopSteps, Cycles : 0..1]
    BY <1>1, <1>3 DEF LoopSteps
  <1>5. bestNum' = bestNum /\ Base' = Base /\ Inactive' = Inactive /\ Base = mem.N1
    BY <1>1, <1>2, <1>3 DEF bestNum, Base, Inactive
  <1>6. /\ Archived(t, mem.N1, mem.N2) \subseteq Trie \X (1..Len(blocks))
        /\ \/ <<t, blocks[At(blocks, bestBlock, mem.N2)].node[t]>> \in Archived(t, mem.N1, mem.N2)
           \/ blocks[At(blocks, bestBlock, mem.N2)].node[t] = blocks[At(blocks, bestBlock, mem.N1)].node[t]
    <2>1. mem.N1 \in Nat /\ mem.N2 \in Nat /\ mem.N2 <= bestNum
      BY <1>3, PrunerParts
    <2>2. QED
      BY Zenon, <2>1, ArchivedIs
  <1>7. Shape'
    <2>1. permanent' \in SUBSET (Trie \X (1..Len(blocks)))
      BY <1>1, <1>6, Zenon DEF PrunerIInv, Shape
    <2>2. QED
      BY <1>1, <2>1, Zenon DEF PrunerIInv, Shape
  <1>8. Loop'
    BY <1>1, <1>2, <1>3, <1>4, <1>5 DEF PrunerIInv, Loop
  <1>9. Near' /\ Lost'
    BY <1>1, <1>5 DEF PrunerIInv, Near, Lost
  <1>10. Separate'
    BY <1>1, <1>3, <1>5 DEF PrunerIInv, Separate, Below
  <1>11. Kept'
    <2> SUFFICES ASSUME ~overtaken PROVE Kept'
      BY <1>1 DEF Kept
    <2>1. \A u \in Trie : \A k : Holds(u, k) => Holds(u, k)'
      BY <1>1 DEF Holds
    <2>2. \A u \in Trie : Holds(u, Base)
      BY <1>1, <1>2 DEF PrunerIInv, Kept
    <2>3. \A u \in Trie : Holds(u, Base)'
      BY <1>5, <2>1, <2>2
    <2>4. Holds(t, status.N2)'
      <3>1. Holds(t, mem.N1)
        BY <1>5, <2>2
      <3>2. QED
        BY <1>1, <1>3, <1>6, <3>1 DEF Holds
    <2>5. status.Step = "account" => Holds("index", status.N2)'
      BY <1>1, <2>1 DEF PrunerIInv, Kept, Trie
    <2>6. QED
      BY <1>1, <1>2, <1>3, <1>4, <2>3, <2>4, <2>5 DEF Kept
  <1>12. QED
    BY <1>7, <1>8, <1>9, <1>10, <1>11 DEF PrunerIInv

\* Saving the status after a trie was archived keeps the invariant.
LEMMA SaveArchivedIInv ==
  ASSUME PrunerIInv, NEW written \in {"index-done", "account-done"}, NEW next \in {"account", "drop"},
         written = "index-done" <=> next = "account", SaveArchived(written, next)
  PROVE  PrunerIInv'
  <1>1. /\ UNCHANGED <<blocks, bestBlock, committing, live, permanent, active, waiting, overtaken>>
        /\ mem' = [mem EXCEPT !.Step = next] /\ status' = mem' /\ mem.Step = written
    BY DEF SaveArchived, tries, spaces
  <1>2. /\ mem \in [N1 : Nat, N2 : Nat, Step : LoopSteps, Cycles : 0..1] /\ ~waiting
        /\ mem.N1 = status.N1 /\ mem.N2 = status.N2 /\ mem.Cycles = status.Cycles
        /\ status.Step = IF written = "index-done" THEN "index" ELSE "account"
        /\ status.N2 > 0
    BY <1>1 DEF PrunerIInv, Loop
  <1>3. /\ mem'.N1 = mem.N1 /\ mem'.N2 = mem.N2 /\ mem'.Step = next /\ mem'.Cycles = mem.Cycles
        /\ mem' \in [N1 : Nat, N2 : Nat, Step : LoopSteps, Cycles : 0..1]
        /\ mem' \in [N1 : Nat, N2 : Nat, Step : Steps, Cycles : 0..1]
    BY <1>1, <1>2 DEF LoopSteps, Steps
  <1>4. bestNum' = bestNum /\ Base' = Base /\ Inactive' = Inactive
    BY <1>1, <1>2, <1>3 DEF bestNum, Base, Inactive
  <1>5. Shape'
    BY <1>1, Zenon DEF PrunerIInv, Shape
  <1>6. Loop'
    <2>1. status'.N1 = status.N1 /\ status'.N2 = status.N2 /\ status'.Cycles = status.Cycles /\ status'.Step = next
      BY <1>1, <1>2, <1>3
    <2>2. QED
      BY <1>1, <1>2, <1>3, <1>4, <2>1 DEF PrunerIInv, Loop
  <1>7. Near'
    BY <1>1, <1>4 DEF PrunerIInv, Near
  <1>8. Lost'
    BY <1>1, <1>2, <1>3, <1>4 DEF PrunerIInv, Lost
  <1>9. Separate'
    BY <1>1, <1>2, <1>3, <1>4 DEF PrunerIInv, Separate, Below
  <1>10. Kept'
    BY <1>1, <1>2, <1>3, <1>4 DEF PrunerIInv, Kept, Holds
  <1>11. QED
    BY <1>5, <1>6, <1>7, <1>8, <1>9, <1>10 DEF PrunerIInv

\* Dropping the stale space keeps the invariant: what is still needed of it was
\* archived.
LEMMA DropStaleIInv == ASSUME PrunerIInv, DropStale PROVE PrunerIInv'
  <1>1. /\ UNCHANGED <<blocks, bestBlock, committing, permanent, active, status, waiting, overtaken>>
        /\ live' = [live EXCEPT ![Inactive] = {}]
        /\ mem' = [mem EXCEPT !.Step = "dropped"] /\ mem.Step = "drop"
        /\ bestNum > mem.N2 + MaxStateHistory + DropDelay
    BY DEF DropStale, tries, Inactive
  <1>2. /\ mem \in [N1 : Nat, N2 : Nat, Step : LoopSteps, Cycles : 0..1] /\ ~waiting
        /\ mem.N1 = status.N1 /\ mem.N2 = status.N2 /\ mem.Cycles = status.Cycles /\ status.Step = "drop"
    BY <1>1 DEF PrunerIInv, Loop
  <1>3. /\ mem'.N1 = mem.N1 /\ mem'.N2 = mem.N2 /\ mem'.Step = "dropped" /\ mem'.Cycles = mem.Cycles
        /\ mem' \in [N1 : Nat, N2 : Nat, Step : LoopSteps, Cycles : 0..1]
    BY <1>1, <1>2 DEF LoopSteps
  <1>4. bestNum' = bestNum /\ Base' = Base /\ Inactive' = Inactive
    BY <1>1 DEF bestNum, Base, Inactive
  <1>5. bestNum > status.N2 + MaxStateHistory
    BY <1>1, <1>2, PrunerParts
  <1>6. live \in [Spaces -> SUBSET (Trie \X (1..Len(blocks)))] /\ Inactive \in Spaces
    BY PrunerParts, Zenon DEF PrunerIInv, Shape
  <1>7. live' \in [Spaces -> SUBSET (Trie \X (1..Len(blocks)))] /\ live'[Inactive] = {}
        /\ \A s \in Spaces : s # Inactive => live'[s] = live[s]
    BY <1>1, <1>6, Zenon
  <1>8. Shape'
    BY <1>1, <1>7, Zenon DEF PrunerIInv, Shape
  <1>9. Loop'
    BY <1>1, <1>2, <1>3, <1>4, <1>5 DEF PrunerIInv, Loop
  <1>10. Near'
    BY <1>1, <1>4 DEF PrunerIInv, Near
  <1>11. Separate'
    BY <1>1, <1>2, <1>4, <1>7 DEF PrunerIInv, Separate, Below
  <1>12. Lost'
    <2> SUFFICES ASSUME NEW b \in 1..Len(blocks), NEW t \in Trie, blocks[b].node[t] = b,
                        <<t, b>> \notin live'["A"] \cup live'["B"]
                 PROVE  \/ status.Cycles = 1 /\ blocks[b].number <= Base /\ bestNum > Base + MaxStateHistory
                        \/ status.Step = "drop" /\ blocks[b].number <= status.N2 /\ bestNum > status.N2 + MaxStateHistory
      BY <1>1, <1>4, Zenon DEF Lost
    <2>1. CASE <<t, b>> \in live[Inactive]
      <3>1. Below(status.N2)
        BY <1>2 DEF PrunerIInv, Separate
      <3>2. blocks[<<t, b>>[2]].number <= status.N2
        BY <2>1, <3>1, Zenon DEF Below
      <3>3. QED
        BY <1>2, <1>5, <3>2
    <2>2. CASE <<t, b>> \notin live[Inactive]
      <3>1. <<t, b>> \notin live["A"] \cup live["B"]
        BY <1>6, <1>7, <2>2 DEF Spaces
      <3>2. QED
        BY <3>1, Zenon DEF PrunerIInv, Lost
    <2>3. QED
      BY <2>1, <2>2
  <1>13. Kept'
    BY <1>1, <1>2, <1>3, <1>4 DEF PrunerIInv, Kept, Holds
  <1>14. QED
    BY <1>8, <1>9, <1>10, <1>11, <1>12, <1>13 DEF PrunerIInv

\* Saving the status after the space was dropped keeps the invariant.
LEMMA SaveDroppedIInv == ASSUME PrunerIInv, SaveDropped PROVE PrunerIInv'
  <1>1. /\ UNCHANGED <<blocks, bestBlock, committing, live, permanent, active, waiting, overtaken>>
        /\ mem' = [mem EXCEPT !.Step = "initiate", !.Cycles = 1] /\ status' = mem' /\ mem.Step = "dropped"
    BY DEF SaveDropped, tries, spaces
  <1>2. /\ mem \in [N1 : Nat, N2 : Nat, Step : LoopSteps, Cycles : 0..1] /\ ~waiting
        /\ mem.N1 = status.N1 /\ mem.N2 = status.N2 /\ status.Step = "drop"
        /\ status.N1 \in Nat /\ status.N2 \in Nat /\ status.N1 <= status.N2
        /\ bestNum > status.N2 + MaxStateHistory
    BY <1>1 DEF PrunerIInv, Loop
  <1>3. /\ mem'.N1 = mem.N1 /\ mem'.N2 = mem.N2 /\ mem'.Step = "initiate" /\ mem'.Cycles = 1
        /\ mem' \in [N1 : Nat, N2 : Nat, Step : LoopSteps, Cycles : 0..1]
        /\ mem' \in [N1 : Nat, N2 : Nat, Step : Steps, Cycles : 0..1]
    <2>1. mem.N1 \in Nat /\ mem.N2 \in Nat
      BY <1>2
    <2>2. mem' = [N1 |-> mem.N1, N2 |-> mem.N2, Step |-> "initiate", Cycles |-> 1]
      BY Zenon, <1>1, <1>2
    <2>3. mem'.N1 = mem.N1 /\ mem'.N2 = mem.N2 /\ mem'.Step = "initiate" /\ mem'.Cycles = 1
      BY <2>2
    <2>4. QED
      BY <2>1, <2>2, <2>3 DEF LoopSteps, Steps
  <1>4. bestNum' = bestNum /\ Inactive' = Inactive /\ Base' = status.N2 /\ Base = status.N1
    BY <1>1, <1>2, <1>3 DEF bestNum, Base, Inactive
  <1>5. Shape'
    BY <1>1, Zenon DEF PrunerIInv, Shape
  <1>6. Loop'
    <2>1. /\ status'.N1 = status.N1 /\ status'.N2 = status.N2 /\ status'.Cycles = 1 /\ status'.Step = "initiate"
          /\ status.N2 <= bestNum
      BY <1>1, <1>2, <1>3, PrunerParts
    <2>2. QED
      BY <1>1, <1>2, <1>3, <1>4, <2>1 DEF PrunerIInv, Loop
  <1>7. Near'
    BY <1>1, <1>4 DEF PrunerIInv, Near
  <1>8. Lost'
    <2> SUFFICES ASSUME NEW b \in 1..Len(blocks), NEW t \in Trie, blocks[b].node[t] = b,
                        <<t, b>> \notin live["A"] \cup live["B"]
                 PROVE  blocks[b].number <= status.N2
      BY <1>1, <1>2, <1>3, <1>4 DEF Lost
    <2>1. blocks[b].number <= status.N1 \/ blocks[b].number <= status.N2
      BY <1>4 DEF PrunerIInv, Lost
    <2>2. QED
      BY <1>2, <2>1, PrunerParts
  <1>9. Separate'
    BY <1>1, <1>2, <1>3 DEF Separate
  <1>10. Kept'
    BY <1>1, <1>2, <1>3, <1>4 DEF PrunerIInv, Kept, Holds, Trie
  <1>11. QED
    BY <1>5, <1>6, <1>7, <1>8, <1>9, <1>10 DEF PrunerIInv

\* A block that is committed: the tree grows by it, and it may become the best one.
LEMMA EndCommitIInv ==
  ASSUME PrunerIInv, NEW c \in committing, NEW space \in [c.changed -> {"A", "B"}], EndCommit(c, space)
  PROVE  PrunerIInv'
  <1> DEFINE id == Len(blocks) + 1
             W == c.changed
             p == c.parent
  <1>1. c \in [parent : 1..Len(blocks), changed : SUBSET Trie, space : Spaces]
    BY Zenon DEF PrunerIInv, Shape
  <1>2. p \in 1..Len(blocks) /\ W \subseteq Trie /\ c.space \in Spaces
    BY <1>1
  <1>3. /\ UNCHANGED <<permanent, active, status, mem, waiting>> /\ committing' = {}
        /\ \A t \in W : space[t] \in {c.space, active}
        /\ live' = [s \in {"A", "B"} |-> live[s] \cup { <<t, id>> : t \in { u \in W : space[u] = s } }]
    BY Zenon DEF EndCommit
  <1>4. Grown(blocks, blocks', p, W)
    BY Zenon DEF EndCommit, Grown
  <1>5. /\ bestBlock' \in {bestBlock, id}
        /\ bestBlock' = bestBlock \/ p = bestBlock \/ blocks[p].number + 1 >= bestNum
    BY DEF EndCommit
  <1>6. /\ overtaken' \in BOOLEAN /\ (overtaken => overtaken')
        /\ bestBlock' # bestBlock /\ ~overtaken' =>
              \A b \in Path(blocks, bestBlock) \ Path(blocks, p) : ~(blocks[b].number <= status.N2)
    BY ChainIs, Zenon DEF EndCommit, PrunerIInv, Shape
  <1>7. /\ BlockTree(blocks) /\ bestBlock \in 1..Len(blocks) /\ bestNum \in Nat
        /\ \A b \in 1..Len(blocks) : blocks[b].number \in Nat
        /\ status.N2 \in Nat /\ status.N2 <= bestNum /\ Base \in Nat /\ Base <= status.N2
        /\ InitSlack \in Nat /\ MaxStateHistory \in Nat /\ mem.N2 \in Nat
    BY PrunerParts
  <1>8. BlockTree(blocks')
    BY <1>2, <1>4, <1>7, TreeGrows
  <1>9. /\ Len(blocks') = id /\ id \in Nat /\ id \notin 1..Len(blocks) /\ id \in 1..id
        /\ \A b \in 1..id : b = id \/ b \in 1..Len(blocks)
    <2>1. Len(blocks') = Len(blocks) + 1
      BY <1>2, <1>4, <1>7, GrownIs, Zenon DEF Extended
    <2>2. Len(blocks) \in Nat
      BY <1>7, TreeType
    <2>3. QED
      BY <2>1, <2>2
  <1>10. /\ \A b \in 1..Len(blocks) : blocks'[b] = blocks[b] /\ b \in 1..id
         /\ blocks'[id].number = blocks[p].number + 1
         /\ \A t \in Trie : blocks'[id].node[t] = IF t \in W THEN id ELSE blocks[p].node[t]
    <2>1. /\ \A b \in 1..Len(blocks) : blocks'[b] = blocks[b] /\ b \in 1..Len(blocks')
          /\ blocks'[Len(blocks')].number = blocks[p].number + 1
          /\ \A t \in Trie : blocks'[Len(blocks')].node[t] = IF t \in W THEN Len(blocks') ELSE blocks[p].node[t]
      <3> HIDE DEF id, W, p
      <3>1. Extended(blocks, blocks', p, W)
        BY <1>2, <1>4, <1>7, GrownIs, Zenon
      <3>2. QED
        BY <3>1, Zenon DEF Extended
    <2>2. Len(blocks') = id
      BY <1>9
    <2> HIDE DEF id, W, p
    <2>3. QED
      BY <2>1, <2>2, Zenon
  <1> HIDE DEF id, W, p
  <1>11. /\ bestBlock' \in 1..id /\ bestNum' \in Nat /\ bestNum <= bestNum'
         /\ Base' = Base /\ Inactive' = Inactive
    <2>1. CASE bestBlock' = bestBlock
      BY <1>3, <1>7, <1>10, <2>1 DEF bestNum, Base, Inactive
    <2>2. CASE bestBlock' = id
      <3>1. bestNum <= blocks[p].number + 1
        <4>1. CASE p = bestBlock
          BY <1>7, <4>1 DEF bestNum
        <4>2. CASE bestBlock' = bestBlock
          BY <1>7, <1>9, <2>2, <4>2
        <4>3. CASE blocks[p].number + 1 >= bestNum
          BY <1>2, <1>7, <4>3
        <4>4. QED
          BY <1>5, <4>1, <4>2, <4>3
      <3>2. bestNum' = blocks[p].number + 1
        BY <1>10, <2>2 DEF bestNum
      <3>3. blocks[p].number + 1 \in Nat /\ id \in 1..id
        BY <1>2, <1>7, <1>9
      <3>4. QED
        BY <1>3, <2>2, <3>1, <3>2, <3>3 DEF Base, Inactive
    <2>3. QED
      BY <1>5, <2>1, <2>2
  <1>12. /\ live \in [Spaces -> SUBSET (Trie \X (1..Len(blocks)))] /\ active \in Spaces /\ Inactive \in Spaces
         /\ Inactive # active
    BY PrunerParts, Zenon DEF PrunerIInv, Shape
  <1>13. ASSUME NEW s \in Spaces
         PROVE  /\ live'[s] = live[s] \cup { <<t, id>> : t \in { u \in W : space[u] = s } }
                /\ live[s] \subseteq Trie \X (1..Len(blocks))
    BY <1>3, <1>12, Zenon DEF Spaces
  <1>14. Shape'
    <2>1. ASSUME NEW s \in Spaces PROVE live'[s] \in SUBSET (Trie \X (1..id))
      <3>1. Trie \X (1..Len(blocks)) \subseteq Trie \X (1..id)
        BY <1>10
      <3>2. { <<t, id>> : t \in { u \in W : space[u] = s } } \subseteq Trie \X (1..id)
        BY <1>2, <1>9 DEF W
      <3>3. QED
        BY <1>13, <3>1, <3>2, Zenon
    <2>2. live' \in [Spaces -> SUBSET (Trie \X (1..id))]
      BY <1>3, <2>1, Zenon DEF Spaces
    <2>3. permanent' \in SUBSET (Trie \X (1..id))
      <3>1. permanent \subseteq Trie \X (1..Len(blocks))
        BY Zenon DEF PrunerIInv, Shape
      <3>2. QED
        BY <1>3, <1>10, <3>1
    <2>4. active' \in Spaces /\ waiting' \in BOOLEAN
      BY <1>3, Zenon DEF PrunerIInv, Shape
    <2>5. committing' \in SUBSET [parent : 1..id, changed : SUBSET Trie, space : Spaces]
      BY <1>3, Zenon
    <2>6. QED
      BY <1>6, <1>8, <1>9, <1>11, <2>2, <2>3, <2>4, <2>5, Zenon DEF Shape
  <1>15. Loop'
    <2>1. status.N2 <= bestNum' /\ (bestNum > mem.N2 + MaxStateHistory => bestNum' > mem.N2 + MaxStateHistory)
      BY <1>7, <1>11
    <2>2. QED
      BY <1>3, <1>11, <2>1 DEF PrunerIInv, Loop
  <1>16. Near'
    <2> SUFFICES ASSUME NEW b \in 1..id PROVE blocks'[b].number <= bestNum' + InitSlack
      BY <1>3, <1>9, Zenon DEF Near
    <2>1. CASE b = id
      <3>1. blocks[p].number < bestNum + InitSlack
        BY DEF PrunerIInv, Near, p
      <3>2. QED
        BY <1>2, <1>7, <1>10, <1>11, <2>1, <3>1
    <2>2. CASE b \in 1..Len(blocks)
      <3>1. blocks[b].number <= bestNum + InitSlack
        BY <2>2 DEF PrunerIInv, Near
      <3>2. QED
        BY <1>7, <1>10, <1>11, <2>2, <3>1
    <2>3. QED
      BY <1>9, <2>1, <2>2
  <1>17. ASSUME NEW n \in Nat, Below(n) PROVE Below(n)'
    <2> SUFFICES ASSUME NEW x \in live'[Inactive] PROVE blocks'[x[2]].number <= n
      BY <1>3, <1>11, Zenon DEF Below
    <2>1. CASE x \in live[Inactive]
      <3>1. x \in Trie \X (1..Len(blocks))
        BY <1>12, <1>13, <2>1, Zenon
      <3>2. x[2] \in 1..Len(blocks)
        BY <3>1
      <3>3. QED
        BY <1>10, <1>17, <2>1, <3>2 DEF Below
    <2>2. CASE x \in { <<t, id>> : t \in { u \in W : space[u] = Inactive } }
      <3>1. PICK t \in W : space[t] = Inactive /\ x = <<t, id>>
        BY <2>2
      <3>2. c.space = Inactive
        BY <1>3, <1>12, <3>1
      <3>3. blocks[p].number < n
        BY <1>17, <3>2 DEF Below, p
      <3>4. x[2] = id
        BY <3>1
      <3>5. QED
        BY <1>2, <1>7, <1>10, <3>3, <3>4
    <2>3. QED
      BY <1>12, <1>13, <2>1, <2>2, Zenon
  <1>18. Separate'
    BY <1>3, <1>7, <1>17, Zenon DEF PrunerIInv, Separate
  <1>19. Lost'
    <2> SUFFICES ASSUME NEW b \in 1..id, NEW t \in Trie, blocks'[b].node[t] = b,
                        <<t, b>> \notin live'["A"] \cup live'["B"]
                 PROVE  \/ status.Cycles = 1 /\ blocks'[b].number <= Base /\ bestNum' > Base + MaxStateHistory
                        \/ status.Step = "drop" /\ blocks'[b].number <= status.N2 /\ bestNum' > status.N2 + MaxStateHistory
      BY <1>3, <1>9, <1>11, Zenon DEF Lost
    <2>1. CASE b = id
      <3>1. t \in W
        <4>1. blocks[p].node[t] \in 1..Len(blocks)
          BY <1>2, <1>7, TreeParts
        <4>2. QED
          BY <1>9, <1>10, <2>1, <4>1
      <3>2. space[t] \in Spaces
        BY <3>1 DEF Spaces, W
      <3>3. <<t, id>> \in live'[space[t]]
        BY <1>13, <3>1, <3>2, Zenon
      <3>4. QED
        BY <2>1, <3>2, <3>3 DEF Spaces
    <2>2. CASE b \in 1..Len(blocks)
      <3>1. blocks'[b] = blocks[b]
        BY <1>10, <2>2
      <3>2. <<t, b>> \notin live["A"] \cup live["B"]
        BY <1>13 DEF Spaces
      <3>3. \/ status.Cycles = 1 /\ blocks[b].number <= Base /\ bestNum > Base + MaxStateHistory
            \/ status.Step = "drop" /\ blocks[b].number <= status.N2 /\ bestNum > status.N2 + MaxStateHistory
        BY <2>2, <3>1, <3>2, Zenon DEF PrunerIInv, Lost
      <3>4. QED
        BY <1>7, <1>11, <3>1, <3>3
    <2>3. QED
      BY <1>9, <2>1, <2>2
  <1>20. Kept'
    <2> SUFFICES ASSUME ~overtaken' PROVE Kept'
      BY DEF Kept
    <2>1. ~overtaken
      BY <1>6
    <2>2. ASSUME NEW t \in Trie, NEW k \in Nat, k <= status.N2, Holds(t, k) PROVE Holds(t, k)'
      <3>1. k <= blocks[bestBlock].number
        BY <1>7, <2>2 DEF bestNum
      <3>2. \/ bestBlock' = bestBlock
            \/ /\ bestBlock' = Len(blocks') /\ blocks[bestBlock].number <= blocks'[bestBlock'].number
               /\ \A b \in Path(blocks, bestBlock) \ Path(blocks, p) : ~(blocks[b].number <= k)
        <4>1. ASSUME bestBlock' # bestBlock, NEW b \in Path(blocks, bestBlock) \ Path(blocks, p)
              PROVE  ~(blocks[b].number <= k)
          <5>1. ~(blocks[b].number <= status.N2)
            BY <1>6, <4>1
          <5>2. blocks[b].number \in Nat
            <6>1. b \in 1..Len(blocks)
              BY <1>7, TreeParts
            <6>2. QED
              BY <1>7, <6>1
          <5>3. QED
            BY <1>7, <2>2, <5>1, <5>2
        <4>2. blocks[bestBlock].number <= blocks'[bestBlock'].number
          BY <1>11 DEF bestNum
        <4>3. QED
          BY <1>5, <1>9, <4>1, <4>2
      <3>3. bestBlock' \in 1..Len(blocks')
        BY <1>9, <1>11
      <3>4. /\ At(blocks', bestBlock', k) = At(blocks, bestBlock, k)
            /\ blocks'[At(blocks, bestBlock, k)] = blocks[At(blocks, bestBlock, k)]
        BY <1>2, <1>4, <1>7, <3>1, <3>2, <3>3, AtKept
      <3>5. QED
        BY <1>3, <2>2, <3>4 DEF Holds
    <2>3. \A t \in Trie : (Holds(t, Base) => Holds(t, Base)') /\ (Holds(t, status.N2) => Holds(t, status.N2)')
      <3> SUFFICES ASSUME NEW t \in Trie
                   PROVE  (Holds(t, Base) => Holds(t, Base)') /\ (Holds(t, status.N2) => Holds(t, status.N2)')
        OBVIOUS
      <3>1. Base' = Base /\ status' = status
        BY Zenon, <1>3, <1>11
      <3>2. status.N2 <= status.N2
        BY <1>7
      <3>3. QED
        BY <1>7, <2>2, <3>1, <3>2 DEF Holds
    <2>4. QED
      BY <1>3, <2>1, <2>3 DEF PrunerIInv, Kept, Trie
  <1>21. QED
    BY <1>14, <1>15, <1>16, <1>18, <1>19, <1>20 DEF PrunerIInv

\* Every step of commits, pruner, starts and stops keeps the invariant.
LEMMA PrunerNextIInv == PrunerIInv /\ [PrunerNext]_prunerVars => PrunerIInv'
  <1> SUFFICES ASSUME PrunerIInv, [PrunerNext]_prunerVars PROVE PrunerIInv'
    OBVIOUS
  <1>1. ASSUME NEW parent \in DOMAIN blocks, NEW accounts \in BOOLEAN,
               BeginCommit(parent, IF accounts THEN Trie ELSE {"index"})
        PROVE  PrunerIInv'
    <2>1. (IF accounts THEN Trie ELSE {"index"}) \in SUBSET Trie
      BY DEF Trie
    <2>2. QED
      BY <1>1, <2>1, BeginCommitIInv
  <1>2. ASSUME NEW c \in committing, NEW space \in [c.changed -> {"A", "B"}], EndCommit(c, space) PROVE PrunerIInv'
    BY <1>2, EndCommitIInv
  <1>3. CASE Start \/ Stop \/ Switch \/ Initiated \/ DropStale \/ SaveDropped
    BY <1>3, StartIInv, StopIInv, SwitchIInv, InitiatedIInv, DropStaleIInv, SaveDroppedIInv
  <1>4. CASE Archive("index", "index-done") \/ Archive("account", "account-done")
    BY <1>4, ArchiveIInv DEF Trie
  <1>5. CASE SaveArchived("index-done", "account") \/ SaveArchived("account-done", "drop")
    BY <1>5, SaveArchivedIInv
  <1>6. CASE UNCHANGED prunerVars
    <2>1. UNCHANGED <<blocks, bestBlock, committing, live, permanent, active, status, mem, waiting, overtaken>>
      BY <1>6 DEF prunerVars
    <2>2. bestNum' = bestNum /\ Base' = Base /\ Inactive' = Inactive
      BY <2>1 DEF bestNum, Base, Inactive
    <2>3. Shape' /\ Loop'
      BY <2>1, <2>2 DEF PrunerIInv, Shape, Loop
    <2>4. Near' /\ Separate'
      BY Zenon, <2>1, <2>2 DEF PrunerIInv, Near, Separate, Below
    <2>5. Lost' /\ Kept'
      BY <2>1, <2>2 DEF PrunerIInv, Lost, Kept, Holds
    <2>6. QED
      BY <2>3, <2>4, <2>5 DEF PrunerIInv
  <1>7. QED
    BY <1>1, <1>2, <1>3, <1>4, <1>5, <1>6, Zenon DEF PrunerNext

\* PrunerIInv holds at all times.
THEOREM PrunerIInvariant == PrunerSpec => []PrunerIInv
  BY PrunerInitIInv, PrunerNextIInv, PTL DEF PrunerSpec

\* While no fork has replaced a block at or below a saved N2, every state of the
\* guaranteed history (MaxStateHistory below the best block) has all its nodes in a live
\* or the permanent space, at every point of a pruning cycle and across restarts.
THEOREM StateStaysAvailable == PrunerSpec => []StateAvailable
  BY PrunerIInvariant, AvailableFollows, PTL

\* Under the same hypothesis, when the pruner is about to sweep or has swept, the
\* permanent space holds the whole state at N2, whatever restarts came between the
\* writes of the cycle (pruner.go, archiveIndexTrie and archiveAccountTrie).
THEOREM ArchiveStaysComplete == PrunerSpec => []ArchiveComplete
  BY PrunerIInvariant, CompleteFollows, PTL
=============================================================================
