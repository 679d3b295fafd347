--------------------------- MODULE ProtocolProofs ---------------------------
(***************************************************************************)
(* Who may propose: the doubly linked list of the Authority contract stays *)
(* well formed, for every set of node masters and endorsors, and           *)
(* implements the sequence of candidates that CandidateList promises.      *)
(*                                                                         *)
(* How blocks are learnt of: whatever blocks and peers there are, the      *)
(* counters of the announcement loop are the fetches under way, and a tick *)
(* on which nothing fails leaves no block queued that could have been      *)
(* processed.                                                              *)
(***************************************************************************)
EXTENDS Authority, Propagation, FiniteSetTheorems, WellFoundedInduction, TLAPS


\* Inv alone allows a cycle of entries beside the list, which Revoke would turn
\* into a self-link.  There is none: the entries can be ranked along Next.
Acyclic ==
  \E rank \in [Masters -> Nat] :
    \A m \in Masters : entry[m].Next # Nil => rank[m] < rank[entry[m].Next]

IInv == Inv /\ Acyclic

\* The list of the genesis candidates satisfies the invariant.
LEMMA InitInv == Init => IInv
  <1>1. Init => Inv
    BY AuthorityAssumption DEF Init, Inv, TypeOK, LinksAgree, IsLinked, EmptyEntry, Entries
  <1>2. Init => Acyclic
    <2> DEFINE rank == [m \in Masters |-> 0]
    <2>1. rank \in [Masters -> Nat]
      OBVIOUS
    <2>2. Init => \A m \in Masters : entry[m].Next = Nil
      BY DEF Init, EmptyEntry
    <2>3. QED
      BY <2>1, <2>2, Zenon DEF Acyclic
  <1>3. QED
    BY <1>1, <1>2 DEF IInv

\* Add links a new tail behind the old one.
LEMMA AddInv ==
  ASSUME NEW m \in Masters, NEW e \in Endorsors, IInv, Add(m, e)
  PROVE  IInv'
  <1> USE AuthorityAssumption
  <1>0. Inv
    BY DEF IInv
  <1>1. TypeOK'
    BY <1>0 DEF Add, Inv, TypeOK, Entries
  <1>2. m # head /\ m # tail /\ ~IsLinked(m)
    BY <1>0 DEF Add, Inv, IsEmpty, EmptyEntry, IsLinked
  <1>3. \A n \in Masters : entry[n].Next # m /\ entry[n].Prev # m
    BY <1>0, <1>2 DEF Add, Inv, TypeOK, LinksAgree, IsLinked, Entries, IsEmpty, EmptyEntry
  <1>4. /\ entry'[m].Prev = tail /\ entry'[m].Next = Nil /\ entry'[m].Endorsor = e
        /\ \A n \in Masters \ {m} :
             /\ entry'[n].Prev = entry[n].Prev
             /\ entry'[n].Next = IF n = tail THEN m ELSE entry[n].Next
             /\ entry'[n].Endorsor = entry[n].Endorsor
    BY <1>0 DEF Add, Inv, TypeOK, Entries
  <1>5. /\ \A n \in Masters : entry[n].Prev \in Masters \cup {Nil} /\ entry[n].Next \in Masters \cup {Nil}
        /\ head \in Masters \cup {Nil} /\ tail \in Masters \cup {Nil}
    BY <1>0 DEF Inv, TypeOK, Entries
  <1>6. tail' = m /\ head' = IF tail = Nil THEN m ELSE head
    BY DEF Add
  <1>7. LinksAgree
    BY <1>0 DEF Inv
  <1>8. LinksAgree'
    <2>1. /\ head' = Nil <=> tail' = Nil
          /\ head' # Nil => entry'[head'].Prev = Nil
          /\ tail' # Nil => entry'[tail'].Next = Nil
      BY <1>2, <1>4, <1>5, <1>6, <1>7 DEF LinksAgree
    <2>2. ASSUME NEW n \in Masters
          PROVE  /\ entry'[n].Next # Nil => entry'[n].Next # n /\ entry'[entry'[n].Next].Prev = n
                 /\ entry'[n].Prev # Nil => entry'[n].Prev # n /\ entry'[entry'[n].Prev].Next = n
      <3>1. CASE n = m
        BY <3>1, <1>2, <1>4, <1>5, <1>7 DEF LinksAgree
      <3>2. CASE n # m
        BY <3>2, <1>2, <1>3, <1>4, <1>5, <1>7 DEF LinksAgree
      <3>3. QED
        BY <3>1, <3>2
    <2>3. ASSUME NEW n \in Masters, entry'[n].Prev # Nil \/ entry'[n].Next # Nil
          PROVE  /\ entry'[n].Prev = Nil => n = head'
                 /\ entry'[n].Next = Nil => n = tail'
      <3>1. CASE n = m
        BY <3>1, <1>2, <1>4, <1>5, <1>6, <1>7, ZenonT(60) DEF LinksAgree
      <3>2. CASE n # m /\ n = tail
        BY <3>2, <1>0, <1>4, <1>5, <1>6, <1>7 DEF LinksAgree, IsLinked, Inv
      <3>3. CASE n # m /\ n # tail
        BY <2>3, <3>3, <1>4, <1>5, <1>6, <1>7, SMTT(60) DEF LinksAgree, IsLinked
      <3>4. QED
        BY <3>1, <3>2, <3>3
    <2>4. QED
      BY <2>1, <2>2, <2>3 DEF LinksAgree, IsLinked
  <1>9. Inv'
    BY <1>0, <1>1, <1>2, <1>3, <1>4, <1>5, <1>6, <1>8 DEF Inv, LinksAgree, IsLinked
  <1>10. Acyclic'
    <2>1. PICK rank \in [Masters -> Nat] :
            \A n \in Masters : entry[n].Next # Nil => rank[n] < rank[entry[n].Next]
      BY DEF IInv, Acyclic
    <2> DEFINE rank2 == [rank EXCEPT ![m] = IF tail = Nil THEN 0 ELSE rank[tail] + 1]
    <2>2. rank2 \in [Masters -> Nat]
      BY <1>5
    <2>3. ASSUME NEW n \in Masters, entry'[n].Next # Nil
          PROVE  rank2[n] < rank2[entry'[n].Next]
      BY <2>1, <2>3, <1>2, <1>3, <1>4, <1>5
    <2>4. QED
      BY <2>2, <2>3, Zenon DEF Acyclic
  <1>11. QED
    BY <1>9, <1>10 DEF IInv

\* Revoke closes the gap between the two neighbours.
LEMMA RevokeInv ==
  ASSUME NEW m \in Masters, IInv, Revoke(m)
  PROVE  IInv'
  <1> USE AuthorityAssumption
  <1>0. Inv
    BY DEF IInv
  <1> DEFINE prev == entry[m].Prev
             next == entry[m].Next
  <1>a. /\ entry' = [n \in Masters |-> entry'[n]]
        /\ entry'[m] = [entry[m] EXCEPT !.Active = FALSE, !.Prev = Nil, !.Next = Nil]
        /\ \A n \in Masters \ {m} :
             entry'[n] = IF n = prev THEN [entry[n] EXCEPT !.Next = next]
                         ELSE IF n = next THEN [entry[n] EXCEPT !.Prev = prev]
                         ELSE entry[n]
    BY DEF Revoke
  <1>b. /\ head' = (IF prev = Nil THEN next ELSE head)
        /\ tail' = (IF next = Nil THEN prev ELSE tail)
    BY DEF Revoke
  <1>c. \A n \in Masters : entry[n] \in Entries
    BY <1>0 DEF Inv, TypeOK
  <1>d. prev \in Masters \cup {Nil} /\ next \in Masters \cup {Nil}
    BY <1>c DEF Entries
  <1>8. next = Nil \/ next # prev
    <2>1. PICK rank \in [Masters -> Nat] :
            \A n \in Masters : entry[n].Next # Nil => rank[n] < rank[entry[n].Next]
      BY DEF IInv, Acyclic
    <2>2. QED
      BY <1>0, <2>1 DEF Inv, LinksAgree, TypeOK, Entries
  <1>e. prev # m /\ next # m
    BY <1>0 DEF Inv, LinksAgree
  <1> HIDE DEF prev, next
  <1>2. /\ entry'[m].Prev = Nil /\ entry'[m].Next = Nil /\ entry'[m].Endorsor = entry[m].Endorsor
        /\ \A n \in Masters \ {m} :
             /\ entry'[n].Prev = IF n = next THEN prev ELSE entry[n].Prev
             /\ entry'[n].Next = IF n = prev THEN next ELSE entry[n].Next
             /\ entry'[n].Endorsor = entry[n].Endorsor
    <2>1. /\ entry'[m].Prev = Nil /\ entry'[m].Next = Nil /\ entry'[m].Endorsor = entry[m].Endorsor
      BY <1>a, <1>c DEF Entries
    <2>2. ASSUME NEW n \in Masters \ {m}
          PROVE  /\ entry'[n].Prev = IF n = next THEN prev ELSE entry[n].Prev
                 /\ entry'[n].Next = IF n = prev THEN next ELSE entry[n].Next
                 /\ entry'[n].Endorsor = entry[n].Endorsor
      <3>1. entry[n] \in Entries
        BY <1>c
      <3>2. CASE n = prev
        BY <1>8, <1>a, <1>d, <3>1, <3>2, AuthorityAssumption DEF Entries
      <3>3. CASE n = next /\ n # prev
        BY <1>a, <3>1, <3>3 DEF Entries
      <3>4. CASE n # next /\ n # prev
        BY <1>a, <3>4
      <3>5. QED
        BY <3>2, <3>3, <3>4
    <2>3. QED
      BY <2>1, <2>2
  <1>1. TypeOK'
    <2>1. ASSUME NEW n \in Masters PROVE entry'[n] \in Entries
      <3>1. entry[n] \in Entries
        BY <1>c
      <3>2. CASE n = m
        BY <1>a, <3>1, <3>2, Zenon DEF Entries
      <3>3. CASE n # m
        BY <1>a, <1>d, <3>1, <3>3 DEF Entries
      <3>4. QED
        BY <3>2, <3>3
    <2>2. head' \in Masters \cup {Nil} /\ tail' \in Masters \cup {Nil}
      BY <1>0, <1>b, <1>d DEF Inv, TypeOK
    <2>3. entry' \in [Masters -> Entries]
      BY <1>a, <2>1
    <2>4. QED
      BY <2>2, <2>3 DEF TypeOK
  <1> USE DEF prev, next
  <1>3. /\ \A n \in Masters : entry[n].Prev \in Masters \cup {Nil} /\ entry[n].Next \in Masters \cup {Nil}
        /\ head \in Masters \cup {Nil} /\ tail \in Masters \cup {Nil}
    BY <1>0 DEF Inv, TypeOK, Entries
  <1>4. /\ head' = (IF prev = Nil THEN next ELSE head)
        /\ tail' = (IF next = Nil THEN prev ELSE tail)
        /\ prev # Nil \/ next # Nil
    BY <1>b DEF Revoke, IsLinked
  <1>5. LinksAgree
    BY <1>0 DEF Inv
  <1>6. LinksAgree'
    <2>1. /\ head' = Nil <=> tail' = Nil
          /\ head' # Nil => entry'[head'].Prev = Nil
          /\ tail' # Nil => entry'[tail'].Next = Nil
      BY <1>2, <1>3, <1>4, <1>5, SMTT(60) DEF LinksAgree, IsLinked
    <2>2. ASSUME NEW n \in Masters
          PROVE  /\ entry'[n].Next # Nil => entry'[n].Next # n /\ entry'[entry'[n].Next].Prev = n
                 /\ entry'[n].Prev # Nil => entry'[n].Prev # n /\ entry'[entry'[n].Prev].Next = n
      <3>1. CASE n = m
        BY <3>1, <1>2, ZenonT(60)
      <3>2. CASE n # m /\ n = prev
        BY <3>2, <1>2, <1>3, <1>5, <1>8, SMTT(60) DEF LinksAgree
      <3>3. CASE n # m /\ n = next
        BY <3>3, <1>2, <1>3, <1>5, <1>8, SMTT(60) DEF LinksAgree
      <3>4. CASE n \notin {m, prev, next}
        BY <3>4, <1>2, <1>3, <1>5, <1>8, SMTT(60) DEF LinksAgree
      <3>5. QED
        BY <3>1, <3>2, <3>3, <3>4
    <2>3. ASSUME NEW n \in Masters, entry'[n].Prev # Nil \/ entry'[n].Next # Nil
          PROVE  /\ entry'[n].Prev = Nil => n = head'
                 /\ entry'[n].Next = Nil => n = tail'
      BY <2>3, <1>2, <1>3, <1>4, <1>5, SMTT(60) DEF LinksAgree, IsLinked
    <2>4. QED
      BY <2>1, <2>2, <2>3, ZenonT(60) DEF LinksAgree, IsLinked
  <1>7. Inv'
    BY <1>0, <1>1, <1>2, <1>3, <1>4, <1>5, <1>6, SMTT(60) DEF Inv, LinksAgree, IsLinked
  <1>9. Acyclic'
    <2>1. PICK rank \in [Masters -> Nat] :
            \A n \in Masters : entry[n].Next # Nil => rank[n] < rank[entry[n].Next]
      BY DEF IInv, Acyclic
    <2>2. ASSUME NEW n \in Masters, entry'[n].Next # Nil
          PROVE  rank[n] < rank[entry'[n].Next]
      BY <2>1, <2>2, <1>2, <1>3, <1>5 DEF LinksAgree
    <2>3. QED
      BY <2>1, <2>2 DEF Acyclic
  <1>10. QED
    BY <1>7, <1>9 DEF IInv

\* Update writes a flag and leaves the links alone.
LEMMA UpdateInv ==
  ASSUME NEW m \in Masters, NEW active \in BOOLEAN, IInv, Update(m, active)
  PROVE  IInv'
  <1>1. TypeOK'
    BY DEF Update, IInv, Inv, TypeOK, Entries
  <1>2. \A n \in Masters : /\ entry'[n].Prev = entry[n].Prev
                           /\ entry'[n].Next = entry[n].Next
                           /\ entry'[n].Endorsor = entry[n].Endorsor
    BY DEF Update, IInv, Inv, TypeOK, Entries
  <1>3. Inv'
    BY <1>1, <1>2 DEF Update, IInv, Inv, TypeOK, LinksAgree, IsLinked, Entries
  <1>4. Acyclic'
    BY <1>2 DEF IInv, Acyclic
  <1>5. QED
    BY <1>3, <1>4 DEF IInv

\* The links of the list agree with each other and with head and tail after any
\* number of Add, Revoke and Update calls.
THEOREM ListStaysLinked == Spec => []Inv
  <1>1. IInv /\ [Next]_vars => IInv'
    <2> SUFFICES ASSUME IInv, [Next]_vars PROVE IInv'
      OBVIOUS
    <2>1. CASE UNCHANGED vars
      BY <2>1 DEF vars, IInv, Acyclic, Inv, TypeOK, LinksAgree, IsLinked
    <2>2. CASE Next
      BY <2>2, AddInv, RevokeInv, UpdateInv DEF Next
    <2>3. QED
      BY <2>1, <2>2
  <1>2. IInv => Inv
    BY DEF IInv
  <1>3. QED
    BY InitInv, <1>1, <1>2, PTL DEF Spec

-----------------------------------------------------------------------------
(* The linked entries implement the abstract list. *)

\* The sequence s threads the linked entries from head to tail; the others have no links.
\* An entry without an endorsor was never written.
Thread(s) ==
  /\ \A i, j \in 1..Len(s) : s[i] = s[j] => i = j
  /\ head = IF Len(s) = 0 THEN Nil ELSE s[1]
  /\ tail = IF Len(s) = 0 THEN Nil ELSE s[Len(s)]
  /\ \A i \in 1..Len(s) :
       /\ entry[s[i]].Prev = IF i = 1 THEN Nil ELSE s[i - 1]
       /\ entry[s[i]].Next = IF i = Len(s) THEN Nil ELSE s[i + 1]
       /\ entry[s[i]].Endorsor # Nil
  /\ \A m \in Masters : (\A i \in 1..Len(s) : s[i] # m) => ~IsLinked(m)
  /\ \A m \in Masters : entry[m].Endorsor = Nil => IsEmpty(m)

Threaded == TypeOK /\ \E s \in Seq(Masters) : Thread(s)

\* What AllCandidates reports of a node master
Seen(m) == [NodeMaster |-> m, Endorsor |-> entry[m].Endorsor, Active |-> entry[m].Active]

\* The order of the natural numbers as a relation, for the library's theorem on minima.
LEMMA NatRel == OpToRel(<, Nat) = { p \in Nat \X Nat : p[1] < p[2] }
  BY Zenon DEF OpToRel

\* A nonempty set of numbers has a least element.
LEMMA LeastNumber ==
  ASSUME NEW T \in SUBSET Nat, T # {}
  PROVE  \E m \in T : \A n \in T : m <= n
  <1> DEFINE R == { p \in Nat \X Nat : p[1] < p[2] }
  <1>1. IsWellFoundedOn(R, Nat)
    BY NatLessThanWellFounded, NatRel, Zenon
  <1>2. \A m, n \in Nat : <<n, m>> \in R <=> n < m
    OBVIOUS
  <1> HIDE DEF R
  <1>3. PICK m \in T : \A n \in T : ~(<<n, m>> \in R)
    BY <1>1, WFMin, Zenon
  <1>4. \A n \in T : ~(n < m) /\ n \in Nat /\ m \in Nat
    BY <1>2, <1>3, Zenon
  <1>5. \A n \in T : m <= n
    BY <1>4
  <1>6. QED
    BY <1>5

\* A thread is no longer than there are node masters.
LEMMA ThreadLength ==
  ASSUME NEW s \in Seq(Masters), \A i, j \in 1..Len(s) : s[i] = s[j] => i = j
  PROVE  Cardinality(Masters) \in Nat /\ Len(s) \in Nat /\ Len(s) <= Cardinality(Masters)
  <1>1. Len(s) \in Nat /\ s \in [1..Len(s) -> Masters]
    OBVIOUS
  <1>2. s \in Injection(1..Len(s), Masters)
    BY <1>1, Zenon DEF Injection, IsInjective
  <1>3. IsFiniteSet(Masters) /\ Cardinality(Masters) \in Nat
    BY AuthorityAssumption, FS_CardinalityType
  <1>4. Cardinality(1..Len(s)) <= Cardinality(Masters)
    BY <1>2, <1>3, FS_Injection
  <1>5. Cardinality(1..Len(s)) = Len(s)
    BY <1>1, FS_Interval, SMTT(60)
  <1>6. QED
    BY <1>1, <1>3, <1>4, <1>5

\* The walk from head follows the thread, and stops behind it.
Walks ==
  \A s \in Seq(Masters) :
    TypeOK /\ Thread(s) => AllCandidates = [i \in 1..Len(s) |-> Seen(s[i])]

\* The walk of AllCandidates follows a threaded sequence to its end.
LEMMA Walk == Walks
  <1> SUFFICES ASSUME NEW s \in Seq(Masters), TypeOK, Thread(s)
               PROVE  AllCandidates = [i \in 1..Len(s) |-> Seen(s[i])]
    BY DEF Walks
  <1> DEFINE C == Cardinality(Masters)
             D == 1..C + 1
             walk == [i \in D |-> IF i <= Len(s) THEN s[i] ELSE Nil]
             Follows(g) == g = [i \in D |-> IF i = 1 THEN head
                                           ELSE IF g[i - 1] = Nil THEN Nil ELSE entry[g[i - 1]].Next]
  <1>0. C \in Nat /\ Len(s) \in Nat /\ Len(s) <= C
    BY ThreadLength DEF Thread
  <1>1. \A i \in 1..Len(s) : s[i] \in Masters /\ s[i] # Nil
    BY AuthorityAssumption
  <1>2. /\ head = IF Len(s) = 0 THEN Nil ELSE s[1]
        /\ \A i \in 1..Len(s) : entry[s[i]].Next = IF i = Len(s) THEN Nil ELSE s[i + 1]
    BY DEF Thread
  <1> HIDE DEF C
  <1>3. Follows(walk)
    <2>1. ASSUME NEW i \in D
          PROVE  walk[i] = IF i = 1 THEN head ELSE IF walk[i - 1] = Nil THEN Nil ELSE entry[walk[i - 1]].Next
      <3>1. CASE i = 1
        BY <1>0, <1>2, <3>1
      <3>2. CASE i # 1 /\ i - 1 <= Len(s)
        <4>1. i - 1 \in D /\ i - 1 \in 1..Len(s) /\ walk[i - 1] = s[i - 1]
          BY <1>0, <3>2
        <4>2. walk[i - 1] # Nil /\ entry[walk[i - 1]].Next = IF i - 1 = Len(s) THEN Nil ELSE s[(i - 1) + 1]
          BY <1>1, <1>2, <4>1, Zenon
        <4>3. walk[i] = IF i - 1 = Len(s) THEN Nil ELSE s[(i - 1) + 1]
          BY <1>0, <3>2
        <4>4. QED
          BY <3>2, <4>2, <4>3, Zenon
      <3>3. CASE i # 1 /\ ~(i - 1 <= Len(s))
        BY <1>0, <3>3
      <3>4. QED
        BY <3>1, <3>2, <3>3
    <2>2. QED
      BY <2>1
  <1>4. Follows(Pointer)
    <2> HIDE DEF walk
    <2>1. \E g : Follows(g)
      BY <1>3, ZenonT(60)
    <2>2. Pointer = CHOOSE g : Follows(g)
      BY DEF Pointer, C
    <2> HIDE DEF Follows
    <2>3. QED
      BY <2>1, <2>2
  <1>5. \A i \in D : Pointer[i] = walk[i]
    <2> DEFINE T == { i \in D : Pointer[i] # walk[i] }
    <2>1. SUFFICES ASSUME T # {} PROVE FALSE
      OBVIOUS
    <2>2. T \in SUBSET Nat
      BY <1>0
    <2> HIDE DEF T
    <2>3. PICK i \in T : \A j \in T : i <= j
      BY <2>1, <2>2, LeastNumber
    <2>4. i \in D /\ Pointer[i] # walk[i] /\ i \in Nat
      BY <2>2, <2>3 DEF T
    <2>5. /\ Pointer[i] = IF i = 1 THEN head ELSE IF Pointer[i - 1] = Nil THEN Nil ELSE entry[Pointer[i - 1]].Next
          /\ walk[i] = IF i = 1 THEN head ELSE IF walk[i - 1] = Nil THEN Nil ELSE entry[walk[i - 1]].Next
      <3> HIDE DEF walk
      <3>1. QED
        BY <1>3, <1>4, <2>4, ZenonT(60)
    <2>6. i # 1 => Pointer[i - 1] = walk[i - 1]
      <3>1. i # 1 => i - 1 \in D /\ ~(i <= i - 1)
        BY <1>0, <2>4
      <3>2. QED
        BY <2>3, <3>1, Zenon DEF T
    <2>7. QED
      BY <2>4, <2>5, <2>6, Zenon
  <1>6. DOMAIN Pointer = D
    BY <1>4
  <1>7. { i \in DOMAIN Pointer : Pointer[i] # Nil } = 1..Len(s)
    BY <1>0, <1>1, <1>5, <1>6
  <1>8. Cardinality({ i \in DOMAIN Pointer : Pointer[i] # Nil }) = Len(s)
    <2>1. \A n \in Nat : Cardinality(1..n) = n
      BY FS_Interval
    <2>2. QED
      BY <1>0, <1>7, <2>1, Zenon
  <1>9. \A i \in 1..Len(s) : Pointer[i] = s[i]
    BY <1>0, <1>5
  <1>10. AllCandidates = [i \in 1..Len(s) |-> [ NodeMaster |-> Pointer[i], Endorsor |-> entry[Pointer[i]].Endorsor,
                                               Active |-> entry[Pointer[i]].Active ]]
    BY <1>8 DEF AllCandidates
  <1>11. QED
    BY <1>9, <1>10 DEF Seen

\* The same walk in the state after a step.
LEMMA WalkAfter == Walks'
  BY Walk, PTL

\* The genesis list is threaded and maps to an initial abstract list.
LEMMA InitThread == Init => Threaded /\ Abstract!Init
  <1> SUFFICES ASSUME Init PROVE Threaded /\ Abstract!Init
    OBVIOUS
  <1>1. TypeOK
    BY InitInv DEF IInv, Inv
  <1>2. <<>> \in Seq(Masters) /\ Thread(<<>>)
    BY DEF Init, Thread, IsLinked, IsEmpty, EmptyEntry
  <1>3. AllCandidates = [i \in 1..Len(<<>>) |-> Seen(<<>>[i])]
    BY <1>1, <1>2, Walk, ZenonT(60) DEF Walks
  <1>4. AllCandidates = <<>>
    BY <1>3
  <1>5. { m \in Masters : ~IsEmpty(m) } = {}
    BY DEF Init, IsEmpty
  <1>6. QED
    BY <1>1, <1>2, <1>4, <1>5, Zenon DEF Threaded, Abstract!Init

\* Add puts the node master behind the last.
LEMMA AddThread ==
  ASSUME NEW m \in Masters, NEW e \in Endorsors, NEW s \in Seq(Masters), TypeOK, Thread(s), Add(m, e)
  PROVE  /\ Append(s, m) \in Seq(Masters) /\ Thread(Append(s, m))'
         /\ Seen(m)' = [NodeMaster |-> m, Endorsor |-> e, Active |-> TRUE]
         /\ \A i \in 1..Len(s) : Seen(s[i])' = Seen(s[i])
         /\ \A n \in Masters : IsEmpty(n)' <=> IsEmpty(n) /\ n # m
  <1> DEFINE t == Append(s, m)
             L == Len(s)
  <1>0. /\ L \in Nat /\ t \in Seq(Masters) /\ Len(t) = L + 1 /\ t[L + 1] = m
        /\ \A i \in 1..L : t[i] = s[i] /\ s[i] \in Masters
    OBVIOUS
  <1>1. /\ \A i, j \in 1..L : s[i] = s[j] => i = j
        /\ head = (IF L = 0 THEN Nil ELSE s[1]) /\ tail = (IF L = 0 THEN Nil ELSE s[L])
        /\ \A i \in 1..L : /\ entry[s[i]].Prev = IF i = 1 THEN Nil ELSE s[i - 1]
                           /\ entry[s[i]].Next = IF i = L THEN Nil ELSE s[i + 1]
                           /\ entry[s[i]].Endorsor # Nil
        /\ \A n \in Masters : (\A i \in 1..L : s[i] # n) => ~IsLinked(n)
        /\ \A n \in Masters : entry[n].Endorsor = Nil => IsEmpty(n)
    BY Zenon DEF Thread
  <1>2. entry[m] = EmptyEntry /\ entry[m].Endorsor = Nil /\ \A i \in 1..L : s[i] # m
    BY <1>1 DEF Add, IsEmpty, EmptyEntry
  <1>3. e # Nil /\ Nil \notin Masters
    BY AuthorityAssumption
  <1>4. /\ entry' = [n \in Masters |->
                 IF n = m THEN [Endorsor |-> e, Active |-> TRUE, Prev |-> tail, Next |-> Nil]
                 ELSE IF n = tail THEN [entry[n] EXCEPT !.Next = m] ELSE entry[n]]
        /\ tail' = m /\ head' = IF tail = Nil THEN m ELSE head
    BY DEF Add
  <1>5. /\ entry'[m] = [Endorsor |-> e, Active |-> TRUE, Prev |-> tail, Next |-> Nil]
        /\ \A n \in Masters \ {m} :
             /\ entry'[n].Prev = entry[n].Prev /\ entry'[n].Endorsor = entry[n].Endorsor
             /\ entry'[n].Active = entry[n].Active
             /\ entry'[n].Next = IF n = tail THEN m ELSE entry[n].Next
             /\ n # tail => entry'[n] = entry[n]
    BY <1>4 DEF TypeOK, Entries
  <1> HIDE DEF t, L
  <1>6. ASSUME NEW i \in 1..Len(t), NEW j \in 1..Len(t), t[i] = t[j] PROVE i = j
    <2>1. (i \in 1..L \/ i = L + 1) /\ (j \in 1..L \/ j = L + 1)
      BY <1>0
    <2>2. QED
      <3>1. CASE i \in 1..L /\ j \in 1..L
        <4>1. s[i] = s[j]
          BY <1>0, <1>6, <3>1
        <4>2. QED
          BY <1>1, <3>1, <4>1
      <3>2. CASE i = L + 1 /\ j = L + 1
        BY <3>2
      <3>3. CASE (i \in 1..L /\ j = L + 1) \/ (i = L + 1 /\ j \in 1..L)
        BY <1>0, <1>2, <1>6, <3>3, ZenonT(60)
      <3>4. QED
        BY <2>1, <3>1, <3>2, <3>3
  <1>7. head' = (IF Len(t) = 0 THEN Nil ELSE t[1]) /\ tail' = (IF Len(t) = 0 THEN Nil ELSE t[Len(t)])
    BY <1>0, <1>1, <1>3, <1>4, SMTT(60)
  <1>8. ASSUME NEW i \in 1..Len(t)
        PROVE  /\ entry'[t[i]].Prev = IF i = 1 THEN Nil ELSE t[i - 1]
               /\ entry'[t[i]].Next = IF i = Len(t) THEN Nil ELSE t[i + 1]
               /\ entry'[t[i]].Endorsor # Nil
    <2>1. CASE i = L + 1
      BY <1>0, <1>1, <1>3, <1>5, <2>1, SMTT(60)
    <2>2. CASE i \in 1..L
      <3>1. t[i] = s[i] /\ s[i] \in Masters \ {m}
        BY <1>0, <1>2, <2>2
      <3>2. s[i] = tail <=> i = L
        BY <1>0, <1>1, <2>2
      <3>3. i # 1 => t[i - 1] = s[i - 1]
        BY <1>0, <2>2
      <3>4. i # L => t[i + 1] = s[i + 1]
        BY <1>0, <2>2
      <3>5. i # Len(t)
        BY <1>0, <2>2
      <3>6. i = L => t[i + 1] = m
        BY <1>0, ZenonT(60)
      <3>7. QED
        BY <1>1, <1>5, <2>2, <3>1, <3>2, <3>3, <3>4, <3>5, <3>6, SMTT(60)
    <2>3. QED
      BY <1>0, <2>1, <2>2, SMTT(60)
  <1>9. ASSUME NEW n \in Masters, \A i \in 1..Len(t) : t[i] # n PROVE ~IsLinked(n)'
    <2>1. n # m /\ \A i \in 1..L : s[i] # n
      BY <1>0, <1>9, SMTT(60)
    <2>2. n # tail
      BY <1>0, <1>1, <1>3, <2>1
    <2>3. QED
      BY <1>1, <1>5, <2>1, <2>2, SMTT(60) DEF IsLinked
  <1>10. \A n \in Masters : IsEmpty(n)' <=> IsEmpty(n) /\ n # m
    <2> SUFFICES ASSUME NEW n \in Masters PROVE IsEmpty(n)' <=> IsEmpty(n) /\ n # m
      OBVIOUS
    <2>1. CASE n = m
      BY <1>3, <1>5, <2>1, SMTT(60) DEF IsEmpty, EmptyEntry
    <2>2. CASE n # m /\ n = tail
      <3>1. entry[n].Endorsor # Nil
        BY <1>0, <1>1, <1>3, <2>2, SMTT(60)
      <3>2. QED
        BY <1>5, <2>2, <3>1, SMTT(60) DEF IsEmpty, EmptyEntry
    <2>3. CASE n # m /\ n # tail
      BY <1>5, <2>3, ZenonT(60) DEF IsEmpty
    <2>4. QED
      BY <2>1, <2>2, <2>3
  <1>11. \A n \in Masters : entry'[n].Endorsor = Nil => IsEmpty(n)'
    BY <1>1, <1>3, <1>5, <1>10, SMTT(60)
  <1>12. Thread(t)'
    BY <1>6, <1>7, <1>8, <1>9, <1>11, ZenonT(60) DEF Thread, t
  <1>13. /\ Seen(m)' = [NodeMaster |-> m, Endorsor |-> e, Active |-> TRUE]
         /\ \A i \in 1..L : Seen(s[i])' = Seen(s[i])
    <2>1. \A i \in 1..L : s[i] \in Masters \ {m}
      BY <1>0, <1>2
    <2>2. QED
      BY <1>5, <2>1 DEF Seen
  <1>14. QED
    BY <1>0, <1>10, <1>12, <1>13 DEF t, L

\* The thread without its k-th node master
Without(s, k) == [i \in 1..(Len(s) - 1) |-> IF i < k THEN s[i] ELSE s[i + 1]]

\* A sequence without its k-th element, as the abstract removal makes it.
LEMMA WithoutIs ==
  ASSUME NEW S, NEW s \in Seq(S), NEW k \in 1..Len(s)
  PROVE  /\ Without(s, k) \in Seq(S) /\ Len(Without(s, k)) = Len(s) - 1 /\ Len(s) \in Nat
         /\ Without(s, k) = SubSeq(s, 1, k - 1) \o SubSeq(s, k + 1, Len(s))
  <1>1. Len(s) \in Nat /\ Len(s) - 1 \in Nat
    OBVIOUS
  <1>2. Without(s, k) \in Seq(S) /\ Len(Without(s, k)) = Len(s) - 1
    <2>1. Without(s, k) \in [1..(Len(s) - 1) -> S]
      BY <1>1 DEF Without
    <2>2. QED
      BY <1>1, <2>1 DEF Without
  <1> DEFINE a == SubSeq(s, 1, k - 1)
             b == SubSeq(s, k + 1, Len(s))
  <1>3. a \in Seq(S) /\ Len(a) = k - 1 /\ \A i \in 1..(k - 1) : a[i] = s[i]
    BY <1>1
  <1>4. b \in Seq(S) /\ Len(b) = Len(s) - k /\ \A i \in 1..(Len(s) - k) : b[i] = s[k + i]
    BY <1>1
  <1> HIDE DEF a, b
  <1>5. a \o b \in Seq(S) /\ Len(a \o b) = Len(s) - 1
    BY <1>1, <1>3, <1>4
  <1>6. \A i \in 1..(Len(s) - 1) : (a \o b)[i] = Without(s, k)[i]
    <2> SUFFICES ASSUME NEW i \in 1..(Len(s) - 1) PROVE (a \o b)[i] = Without(s, k)[i]
      BY Zenon
    <2>1. CASE i < k
      BY <1>1, <1>3, <1>4, <2>1 DEF Without
    <2>2. CASE ~(i < k)
      <3>1. (a \o b)[i] = b[i - (k - 1)]
        BY <1>1, <1>3, <1>4, <2>2, SMTT(60)
      <3>2. b[i - (k - 1)] = s[k + (i - (k - 1))]
        <4>1. i - (k - 1) \in 1..(Len(s) - k)
          BY <1>1, <2>2
        <4>2. QED
          BY <1>4, <4>1, Zenon
      <3>3. k + (i - (k - 1)) = i + 1
        OBVIOUS
      <3>4. QED
        BY <2>2, <3>1, <3>2, <3>3, ZenonT(60) DEF Without
    <2>3. QED
      BY <2>1, <2>2, Zenon
  <1>7. Without(s, k) = a \o b
    <2> DEFINE w == Without(s, k)
               c == a \o b
    <2>1. w \in Seq(S) /\ c \in Seq(S) /\ Len(w) = Len(c) /\ \A i \in 1..Len(w) : w[i] = c[i]
      BY <1>1, <1>2, <1>5, <1>6, ZenonT(60)
    <2> HIDE DEF w, c
    <2>2. w = c
      BY <2>1
    <2>3. QED
      BY <2>2 DEF w, c
  <1>8. QED
    BY <1>1, <1>2, <1>7, ZenonT(60) DEF a, b

\* Revoke takes the node master out, and is not possible when it is alone.
LEMMA RevokeThread ==
  ASSUME NEW m \in Masters, NEW s \in Seq(Masters), TypeOK, Thread(s), Revoke(m)
  PROVE  \E k \in 1..Len(s) :
           /\ s[k] = m /\ Len(s) > 1 /\ Thread(Without(s, k))'
           /\ \A i \in 1..Len(s) : i # k => Seen(s[i])' = Seen(s[i])
           /\ \A n \in Masters : IsEmpty(n)' <=> IsEmpty(n)
  <1> DEFINE L == Len(s)
  <1>0. L \in Nat /\ \A i \in 1..L : s[i] \in Masters
    OBVIOUS
  <1>1. /\ \A i, j \in 1..L : s[i] = s[j] => i = j
        /\ head = (IF L = 0 THEN Nil ELSE s[1]) /\ tail = (IF L = 0 THEN Nil ELSE s[L])
        /\ \A i \in 1..L : /\ entry[s[i]].Prev = IF i = 1 THEN Nil ELSE s[i - 1]
                           /\ entry[s[i]].Next = IF i = L THEN Nil ELSE s[i + 1]
                           /\ entry[s[i]].Endorsor # Nil
        /\ \A n \in Masters : (\A i \in 1..L : s[i] # n) => ~IsLinked(n)
        /\ \A n \in Masters : entry[n].Endorsor = Nil => IsEmpty(n)
    BY Zenon DEF Thread
  <1>2. Nil \notin Masters
    BY AuthorityAssumption, ZenonT(60)
  <1>3. PICK k \in 1..L : s[k] = m
    BY <1>1, ZenonT(60) DEF Revoke
  <1> DEFINE prev == entry[m].Prev
             next == entry[m].Next
             t == Without(s, k)
             pos(i) == IF i < k THEN i ELSE i + 1
  <1>4. prev = (IF k = 1 THEN Nil ELSE s[k - 1]) /\ next = (IF k = L THEN Nil ELSE s[k + 1])
    BY <1>1, <1>3, ZenonT(60)
  <1>5. prev # Nil \/ next # Nil
    BY ZenonT(60) DEF Revoke, IsLinked
  <1>6. L > 1
    BY <1>0, <1>4, <1>5, SMTT(60)
  <1>7. /\ head' = (IF prev = Nil THEN next ELSE head) /\ tail' = (IF next = Nil THEN prev ELSE tail)
        /\ entry' = [n \in Masters |->
                        IF n = m THEN [entry[m] EXCEPT !.Active = FALSE, !.Prev = Nil, !.Next = Nil]
                        ELSE IF n = prev THEN [entry[n] EXCEPT !.Next = next]
                        ELSE IF n = next THEN [entry[n] EXCEPT !.Prev = prev]
                        ELSE entry[n]]
    BY DEF Revoke
  <1> HIDE DEF prev, next
  <1>8. next = Nil \/ next # prev
    <2>1. CASE k = L \/ k = 1
      BY <1>0, <1>2, <1>4, <2>1, ZenonT(60)
    <2>2. CASE k # L /\ k # 1
      <3>1. k + 1 \in 1..L /\ k - 1 \in 1..L /\ k + 1 # k - 1
        BY <1>0, <2>2, SMTT(60)
      <3>2. QED
        BY <1>1, <1>4, <2>2, <3>1, Zenon
    <2>3. QED
      BY <2>1, <2>2, ZenonT(60)
  <1>9. \A n \in Masters : entry[n] \in Entries
    BY ZenonT(60) DEF TypeOK
  <1>10. /\ entry'[m].Prev = Nil /\ entry'[m].Next = Nil /\ entry'[m].Endorsor = entry[m].Endorsor
         /\ \A n \in Masters \ {m} :
             /\ entry'[n].Prev = IF n = next THEN prev ELSE entry[n].Prev
             /\ entry'[n].Next = IF n = prev THEN next ELSE entry[n].Next
             /\ entry'[n].Endorsor = entry[n].Endorsor /\ entry'[n].Active = entry[n].Active
             /\ n # prev /\ n # next => entry'[n] = entry[n]
    <2>1. /\ entry'[m].Prev = Nil /\ entry'[m].Next = Nil /\ entry'[m].Endorsor = entry[m].Endorsor
      BY <1>7, <1>9, ZenonT(60) DEF Entries
    <2>2. ASSUME NEW n \in Masters \ {m}
          PROVE  /\ entry'[n].Prev = IF n = next THEN prev ELSE entry[n].Prev
                 /\ entry'[n].Next = IF n = prev THEN next ELSE entry[n].Next
                 /\ entry'[n].Endorsor = entry[n].Endorsor /\ entry'[n].Active = entry[n].Active
                 /\ n # prev /\ n # next => entry'[n] = entry[n]
      <3>1. entry[n] \in Entries /\ n # Nil
        BY <1>2, <1>9
      <3>2. CASE n = prev
        <4>1. n # next /\ entry'[n] = [entry[n] EXCEPT !.Next = next]
          BY <1>7, <1>8, <3>1, <3>2, ZenonT(60)
        <4>2. QED
          BY <3>1, <3>2, <4>1 DEF Entries
      <3>3. CASE n = next /\ n # prev
        <4>1. entry'[n] = [entry[n] EXCEPT !.Prev = prev]
          BY <1>7, <3>3, ZenonT(60)
        <4>2. QED
          BY <3>1, <3>3, <4>1, ZenonT(60) DEF Entries
      <3>4. CASE n # next /\ n # prev
        BY <1>7, <3>4, ZenonT(60)
      <3>5. QED
        BY <3>2, <3>3, <3>4
    <2>3. QED
      BY <2>1, <2>2, ZenonT(60)
  <1>11. /\ t \in Seq(Masters) /\ Len(t) = L - 1
         /\ \A i \in 1..Len(t) : t[i] = s[pos(i)] /\ pos(i) \in 1..L /\ pos(i) # k
    <2>1. t \in Seq(Masters) /\ Len(t) = L - 1
      BY <1>0, WithoutIs, ZenonT(60)
    <2>2. QED
      BY <1>0, <2>1, SMTT(60) DEF Without
  <1> HIDE DEF t, L
  <1>12. ASSUME NEW i \in 1..Len(t), NEW j \in 1..Len(t), t[i] = t[j] PROVE i = j
    <2>1. pos(i) = pos(j)
      <3>1. pos(i) \in 1..L /\ pos(j) \in 1..L /\ s[pos(i)] = s[pos(j)]
        BY <1>11, <1>12, Zenon
      <3> HIDE DEF pos
      <3>2. QED
        BY <1>1, <3>1, Zenon
    <2>2. QED
      BY <1>0, <1>3, <1>11, <2>1, SMTT(60)
  <1>13. head' = (IF Len(t) = 0 THEN Nil ELSE t[1]) /\ tail' = (IF Len(t) = 0 THEN Nil ELSE t[Len(t)])
    <2>1. Len(t) # 0 /\ 1 \in 1..Len(t) /\ Len(t) \in 1..Len(t)
      BY <1>0, <1>6, <1>11, SMTT(60)
    <2>2. head' = t[1]
      <3>1. CASE k = 1
        <4>1. t[1] = s[2] /\ k # L /\ prev = Nil /\ k + 1 = 2
          BY <1>0, <1>4, <1>6, <1>11, <2>1, <3>1, SMTT(60)
        <4>2. QED
          BY <1>4, <1>7, <4>1, ZenonT(60)
      <3>2. CASE k # 1
        <4>1. t[1] = s[1] /\ prev # Nil /\ head = s[1]
          BY <1>0, <1>1, <1>2, <1>4, <1>6, <1>11, <2>1, <3>2, SMTT(60)
        <4>2. QED
          BY <1>7, <4>1, ZenonT(60)
      <3>3. QED
        BY <3>1, <3>2, ZenonT(60)
    <2>3. tail' = t[Len(t)]
      <3>1. CASE k = L
        <4>1. t[Len(t)] = s[L - 1] /\ k # 1 /\ next = Nil /\ k - 1 = L - 1
          BY <1>0, <1>4, <1>6, <1>11, <2>1, <3>1, SMTT(60)
        <4>2. QED
          BY <1>4, <1>7, <4>1, ZenonT(60)
      <3>2. CASE k # L
        <4>1. t[Len(t)] = s[L] /\ next # Nil /\ tail = s[L]
          BY <1>0, <1>1, <1>2, <1>4, <1>6, <1>11, <2>1, <3>2, SMTT(60)
        <4>2. QED
          BY <1>7, <4>1, ZenonT(60)
      <3>3. QED
        BY <3>1, <3>2, ZenonT(60)
    <2>4. QED
      BY <2>1, <2>2, <2>3, ZenonT(60)
  <1>14. ASSUME NEW i \in 1..Len(t)
         PROVE  /\ entry'[t[i]].Prev = IF i = 1 THEN Nil ELSE t[i - 1]
                /\ entry'[t[i]].Next = IF i = Len(t) THEN Nil ELSE t[i + 1]
                /\ entry'[t[i]].Endorsor # Nil
    <2>1. t[i] = s[pos(i)] /\ pos(i) \in 1..L /\ pos(i) # k /\ s[pos(i)] \in Masters \ {m}
      BY <1>0, <1>1, <1>3, <1>11, ZenonT(60)
    <2>2. t[i] = next <=> pos(i) = k + 1
      BY <1>0, <1>1, <1>2, <1>4, <2>1, SMTT(60)
    <2>3. t[i] = prev <=> pos(i) = k - 1
      <3>1. CASE k = 1
        BY <1>0, <1>2, <1>4, <2>1, <3>1, SMTT(60)
      <3>2. CASE k # 1
        <4>1. k - 1 \in 1..L /\ prev = s[k - 1]
          BY <1>0, <1>4, <3>2, SMTT(60)
        <4> HIDE DEF pos
        <4>2. QED
          BY <1>1, <2>1, <4>1, Zenon
      <3>3. QED
        BY <3>1, <3>2, ZenonT(60)
    <2>4. entry'[t[i]].Prev = IF i = 1 THEN Nil ELSE t[i - 1]
      <3>1. CASE i = k
        <4>1. entry'[t[i]].Prev = IF k = 1 THEN Nil ELSE s[k - 1]
          BY <1>4, <1>10, <2>1, <2>2, <3>1, ZenonT(60)
        <4>2. i # 1 => t[i - 1] = s[k - 1]
          BY <1>0, <1>11, <3>1, SMTT(60)
        <4>3. QED
          BY <3>1, <4>1, <4>2, ZenonT(60)
      <3>2. CASE i # k
        <4>1. pos(i) # k + 1
          BY <1>0, <1>3, <1>11, <3>2, SMTT(60)
        <4>2. entry'[t[i]].Prev = entry[s[pos(i)]].Prev
          BY <1>10, <2>1, <2>2, <4>1, SMTT(60)
        <4>3. entry[s[pos(i)]].Prev = IF pos(i) = 1 THEN Nil ELSE s[pos(i) - 1]
          BY <1>1, <2>1, Zenon
        <4>4. (pos(i) = 1 <=> i = 1) /\ (i # 1 => t[i - 1] = s[pos(i) - 1])
          BY <1>0, <1>3, <1>11, <3>2, SMTT(60)
        <4>5. QED
          BY <4>2, <4>3, <4>4, Zenon
      <3>3. QED
        BY <3>1, <3>2, ZenonT(60)
    <2>5. entry'[t[i]].Next = IF i = Len(t) THEN Nil ELSE t[i + 1]
      <3>1. CASE i = k - 1
        <4>1. entry'[t[i]].Next = IF k = L THEN Nil ELSE s[k + 1]
          BY <1>4, <1>10, <2>1, <2>3, <3>1, SMTT(60)
        <4>2. (i = Len(t) <=> k = L) /\ (i # Len(t) => t[i + 1] = s[k + 1])
          BY <1>0, <1>11, <3>1, SMTT(60)
        <4>3. QED
          BY <4>1, <4>2, Zenon
      <3>2. CASE i # k - 1
        <4>1. pos(i) # k - 1
          BY <1>0, <1>3, <1>11, <3>2, SMTT(60)
        <4>2. entry'[t[i]].Next = entry[s[pos(i)]].Next
          BY <1>10, <2>1, <2>3, <4>1, SMTT(60)
        <4>3. entry[s[pos(i)]].Next = IF pos(i) = L THEN Nil ELSE s[pos(i) + 1]
          BY <1>1, <2>1, Zenon
        <4>4. (pos(i) = L <=> i = Len(t)) /\ (i # Len(t) => t[i + 1] = s[pos(i) + 1])
          <5>1. Len(t) = L - 1 /\ i \in Nat /\ i # k - 1 /\ pos(i) # k
            BY <1>0, <1>11, <3>2, SMTT(60)
          <5>2. i # Len(t) => i + 1 \in 1..Len(t)
            BY <1>0, <1>11, SMTT(60)
          <5>3. i # Len(t) => t[i + 1] = s[pos(i + 1)]
            BY <1>11, <5>2, Zenon
          <5>4. pos(i + 1) = pos(i) + 1
            BY <1>0, <5>1, SMTT(60)
          <5>5. pos(i) = L <=> i = Len(t)
            BY <1>0, <1>3, <5>1, SMTT(60)
          <5> HIDE DEF pos
          <5>6. QED
            BY <5>3, <5>4, <5>5, Zenon
        <4>5. QED
          BY <4>2, <4>3, <4>4, Zenon
      <3>3. QED
        BY <3>1, <3>2
    <2>6. entry'[t[i]].Endorsor # Nil
      <3> HIDE DEF pos
      <3>1. entry[s[pos(i)]].Endorsor # Nil
        BY <1>1, <2>1, Zenon
      <3>2. entry'[s[pos(i)]].Endorsor = entry[s[pos(i)]].Endorsor
        <4> DEFINE n == s[pos(i)]
        <4>1. n \in Masters \ {m}
          BY <2>1, Zenon
        <4> HIDE DEF n
        <4>2. entry'[n].Endorsor = entry[n].Endorsor
          BY <1>10, <4>1, ZenonT(60)
        <4>3. QED
          BY <4>2, Zenon DEF n
      <3>3. QED
        BY <2>1, <3>1, <3>2, Zenon
    <2>7. QED
      BY <2>4, <2>5, <2>6, ZenonT(60)
  <1>15. ASSUME NEW n \in Masters, \A i \in 1..Len(t) : t[i] # n PROVE ~IsLinked(n)'
    <2>1. CASE n = m
      BY <1>10, <2>1, ZenonT(60) DEF IsLinked
    <2>2. CASE n # m
      <3>1. ASSUME NEW j \in 1..L, s[j] = n PROVE FALSE
        <4>1. j # k
          BY <1>3, <2>2, <3>1, ZenonT(60)
        <4>2. CASE j < k
          <5>1. j \in 1..Len(t) /\ t[j] = s[j]
            BY <1>0, <1>3, <1>11, <4>2, SMTT(60)
          <5>2. QED
            BY <1>15, <3>1, <5>1, ZenonT(60)
        <4>3. CASE j > k
          <5>1. j - 1 \in 1..Len(t) /\ t[j - 1] = s[j]
            BY <1>0, <1>3, <1>11, <4>3, SMTT(60)
          <5>2. QED
            BY <1>15, <3>1, <5>1, ZenonT(60)
        <4>4. QED
          BY <1>0, <4>1, <4>2, <4>3, SMTT(60)
      <3>2. ~IsLinked(n)
        BY <1>1, <3>1, ZenonT(60)
      <3>3. n # prev /\ n # next
        <4>1. k # 1 => k - 1 \in 1..L
          BY <1>0
        <4>2. k # L => k + 1 \in 1..L
          BY <1>0
        <4>3. QED
          BY <1>2, <1>4, <3>1, <4>1, <4>2, ZenonT(60)
      <3>4. QED
        BY <1>10, <2>2, <3>2, <3>3, ZenonT(60) DEF IsLinked
    <2>3. QED
      BY <2>1, <2>2, ZenonT(60)
  <1>16. \A n \in Masters : entry'[n].Endorsor = entry[n].Endorsor
    BY <1>10, Zenon
  <1>17. ASSUME NEW n \in Masters PROVE IsEmpty(n)' <=> IsEmpty(n)
    <2>1. CASE n \in {m, prev, next}
      <3>1. \E i \in 1..L : s[i] = n
        BY <1>0, <1>2, <1>3, <1>4, <2>1, SMTT(60)
      <3>2. entry[n].Endorsor # Nil
        BY <1>1, <3>1, ZenonT(60)
      <3>3. QED
        BY <1>16, <3>2, SMTT(60) DEF IsEmpty, EmptyEntry
    <2>2. CASE n \notin {m, prev, next}
      BY <1>10, <2>2 DEF IsEmpty
    <2>3. QED
      BY <2>1, <2>2, ZenonT(60)
  <1>18. \A n \in Masters : entry'[n].Endorsor = Nil => IsEmpty(n)'
    BY <1>1, <1>16, <1>17, Zenon
  <1>19. Thread(t)'
    BY <1>12, <1>13, <1>14, <1>15, <1>18, ZenonT(60) DEF Thread, t
  <1>20. \A i \in 1..L : i # k => Seen(s[i])' = Seen(s[i])
    <2>1. \A i \in 1..L : i # k => s[i] \in Masters \ {m}
      BY <1>0, <1>1, <1>3, ZenonT(60)
    <2>2. QED
      BY <1>10, <2>1, ZenonT(60) DEF Seen
  <1>21. QED
    BY <1>3, <1>6, <1>17, <1>19, <1>20, ZenonT(60) DEF t, L

\* Update leaves the thread as it is.
LEMMA UpdateThread ==
  ASSUME NEW m \in Masters, NEW active \in BOOLEAN, NEW s \in Seq(Masters), TypeOK, Thread(s), Update(m, active)
  PROVE  /\ Thread(s)' /\ Len(s) > 1
         /\ \E k \in 1..Len(s) :
              /\ s[k] = m /\ Seen(m)' = [Seen(m) EXCEPT !.Active = active]
              /\ \A i \in 1..Len(s) : i # k => Seen(s[i])' = Seen(s[i])
         /\ \A n \in Masters : IsEmpty(n)' <=> IsEmpty(n)
  <1> DEFINE L == Len(s)
  <1>0. L \in Nat /\ \A i \in 1..L : s[i] \in Masters
    OBVIOUS
  <1>1. /\ \A i, j \in 1..L : s[i] = s[j] => i = j
        /\ head = (IF L = 0 THEN Nil ELSE s[1]) /\ tail = (IF L = 0 THEN Nil ELSE s[L])
        /\ \A i \in 1..L : /\ entry[s[i]].Prev = IF i = 1 THEN Nil ELSE s[i - 1]
                           /\ entry[s[i]].Next = IF i = L THEN Nil ELSE s[i + 1]
                           /\ entry[s[i]].Endorsor # Nil
        /\ \A n \in Masters : (\A i \in 1..L : s[i] # n) => ~IsLinked(n)
        /\ \A n \in Masters : entry[n].Endorsor = Nil => IsEmpty(n)
    BY Zenon DEF Thread
  <1>2. /\ head' = head /\ tail' = tail /\ IsLinked(m)
        /\ entry' = [entry EXCEPT ![m].Active = active]
    BY DEF Update
  <1>3. /\ \A n \in Masters : /\ entry'[n].Prev = entry[n].Prev /\ entry'[n].Next = entry[n].Next
                              /\ entry'[n].Endorsor = entry[n].Endorsor
                              /\ n # m => entry'[n] = entry[n]
        /\ entry'[m].Active = active
    BY <1>2 DEF TypeOK, Entries
  <1>4. PICK k \in 1..L : s[k] = m
    BY <1>1, <1>2
  <1> HIDE DEF L
  <1>5. L > 1
    BY <1>0, <1>1, <1>2, <1>4, SMTT(60) DEF IsLinked
  <1>6. ASSUME NEW n \in Masters PROVE IsEmpty(n)' <=> IsEmpty(n)
    <2>1. CASE n = m
      <3>1. entry[n].Endorsor # Nil
        BY <1>1, <1>4, <2>1, ZenonT(60)
      <3>2. QED
        BY <1>3, <3>1, SMTT(60) DEF IsEmpty, EmptyEntry
    <2>2. CASE n # m
      BY <1>3, <2>2 DEF IsEmpty
    <2>3. QED
      BY <2>1, <2>2, ZenonT(60)
  <1>7. \A n \in Masters : IsLinked(n)' <=> IsLinked(n)
    BY <1>3, Zenon DEF IsLinked
  <1>8. /\ \A i \in 1..L : /\ entry'[s[i]].Prev = IF i = 1 THEN Nil ELSE s[i - 1]
                           /\ entry'[s[i]].Next = IF i = L THEN Nil ELSE s[i + 1]
                           /\ entry'[s[i]].Endorsor # Nil
        /\ \A n \in Masters : (\A i \in 1..L : s[i] # n) => ~IsLinked(n)'
        /\ \A n \in Masters : entry'[n].Endorsor = Nil => IsEmpty(n)'
    <2>1. ASSUME NEW i \in 1..L
          PROVE  /\ entry'[s[i]].Prev = IF i = 1 THEN Nil ELSE s[i - 1]
                 /\ entry'[s[i]].Next = IF i = L THEN Nil ELSE s[i + 1]
                 /\ entry'[s[i]].Endorsor # Nil
      <3>1. s[i] \in Masters
        BY <1>0
      <3>2. /\ entry'[s[i]].Prev = entry[s[i]].Prev /\ entry'[s[i]].Next = entry[s[i]].Next
            /\ entry'[s[i]].Endorsor = entry[s[i]].Endorsor
        BY <1>3, <3>1, Zenon
      <3>3. QED
        BY <1>1, <3>2, ZenonT(60)
    <2>2. QED
      BY <1>1, <1>3, <1>6, <1>7, <2>1, Zenon
  <1>9. Thread(s)'
    BY <1>1, <1>2, <1>8, Zenon DEF Thread, L
  <1>10. Seen(m)' = [Seen(m) EXCEPT !.Active = active]
    BY <1>3, SMTT(60) DEF Seen
  <1>11. \A i \in 1..L : i # k => Seen(s[i])' = Seen(s[i])
    <2>1. \A i \in 1..L : i # k => s[i] \in Masters \ {m}
      BY <1>0, <1>1, <1>4, ZenonT(60)
    <2>2. QED
      BY <1>3, <2>1, ZenonT(60) DEF Seen
  <1>12. QED
    BY <1>4, <1>5, <1>6, <1>9, <1>10, <1>11, ZenonT(60) DEF L

\* Append as a function of positions.
LEMMA AppendIs ==
  ASSUME NEW S, NEW a \in Seq(S), NEW c
  PROVE  Append(a, c) = [i \in 1..(Len(a) + 1) |-> IF i \in 1..Len(a) THEN a[i] ELSE c]
  <1> DEFINE U == S \cup {c}
             d == Append(a, c)
             f == [i \in 1..(Len(a) + 1) |-> IF i \in 1..Len(a) THEN a[i] ELSE c]
  <1>1. a \in Seq(U) /\ c \in U /\ Len(a) \in Nat
    OBVIOUS
  <1> HIDE DEF U
  <1>2. d \in Seq(U) /\ Len(d) = Len(a) + 1 /\ \A i \in 1..(Len(a) + 1) : d[i] = f[i]
    BY <1>1, SMTT(60)
  <1>3. f \in [1..(Len(a) + 1) -> U]
    BY <1>1, SMTT(60)
  <1>4. f \in Seq(U) /\ Len(f) = Len(a) + 1
    BY <1>1, <1>3, SMTT(60)
  <1> HIDE DEF d, f
  <1>5. d = f
    BY <1>2, <1>4, SMTT(60)
  <1>6. QED
    BY <1>5 DEF d, f

\* Every step is a step of the abstract list or leaves it alone.
LEMMA StepThread ==
  ASSUME Threaded, [Next]_vars, TypeOK'
  PROVE  Threaded' /\ [Abstract!Next]_(Abstract!vars)
  <1> DEFINE Listed(s) == [i \in 1..Len(s) |-> Seen(s[i])]
             known == { n \in Masters : ~IsEmpty(n) }
  <1>1. PICK s \in Seq(Masters) : Thread(s)
    BY DEF Threaded
  <1>2. TypeOK
    BY DEF Threaded
  <1>3. AllCandidates = Listed(s)
    BY <1>1, <1>2, Walk, ZenonT(60) DEF Walks
  <1>4. \A t \in Seq(Masters) : Thread(t)' => AllCandidates' = Listed(t)'
    BY WalkAfter, ZenonT(60) DEF Walks
  <1>0. Len(s) \in Nat /\ Len(Listed(s)) = Len(s) /\ DOMAIN Listed(s) = 1..Len(s)
        /\ \A i \in 1..Len(s) : Listed(s)[i] = Seen(s[i]) /\ Listed(s)[i].NodeMaster = s[i]
    BY SMTT(60) DEF Seen
  <1>5. ASSUME NEW m \in Masters, NEW e \in Endorsors, Add(m, e)
        PROVE  Threaded' /\ Abstract!Add(m, e)
    <2> DEFINE t == Append(s, m)
               c == [NodeMaster |-> m, Endorsor |-> e, Active |-> TRUE]
    <2>1. /\ t \in Seq(Masters) /\ Thread(t)' /\ Seen(m)' = c
          /\ \A i \in 1..Len(s) : Seen(s[i])' = Seen(s[i])
          /\ \A n \in Masters : IsEmpty(n)' <=> IsEmpty(n) /\ n # m
      BY <1>1, <1>2, <1>5, AddThread, SMTT(60)
    <2>2. AllCandidates' = [i \in 1..Len(t) |-> Seen(t[i])']
      BY <1>4, <2>1, ZenonT(60)
    <2>3. Len(t) = Len(s) + 1 /\ t[Len(s) + 1] = m /\ \A i \in 1..Len(s) : t[i] = s[i]
      OBVIOUS
    <2> HIDE DEF t, c
    <2>4. AllCandidates' = Append(AllCandidates, c)
      <3>1. AllCandidates' = [i \in 1..(Len(s) + 1) |-> IF i \in 1..Len(s) THEN Seen(s[i]) ELSE c]
        BY <1>0, <2>1, <2>2, <2>3, SMTT(60)
      <3>2. AllCandidates \in Seq({ Seen(s[i]) : i \in 1..Len(s) })
        BY <1>0, <1>3, SMTT(60)
      <3> HIDE DEF Listed
      <3>3. Append(AllCandidates, c)
              = [i \in 1..(Len(s) + 1) |-> IF i \in 1..Len(s) THEN AllCandidates[i] ELSE c]
        BY <1>0, <1>3, <3>2, AppendIs, SMTT(60)
      <3>4. QED
        BY <1>0, <1>3, <3>1, <3>3
    <2>5. m \notin known /\ known' = known \cup {m}
      BY <1>5, <2>1, ZenonT(60) DEF Add
    <2>6. QED
      BY <2>1, <2>4, <2>5, ZenonT(60) DEF Threaded, Abstract!Add, c
  <1>6. ASSUME NEW m \in Masters, Revoke(m)
        PROVE  Threaded' /\ Abstract!Revoke(m)
    <2>1. PICK k \in 1..Len(s) :
           /\ s[k] = m /\ Len(s) > 1 /\ Thread(Without(s, k))'
           /\ \A i \in 1..Len(s) : i # k => Seen(s[i])' = Seen(s[i])
           /\ \A n \in Masters : IsEmpty(n)' <=> IsEmpty(n)
      BY <1>1, <1>2, <1>6, RevokeThread, ZenonT(60)
    <2> DEFINE t == Without(s, k)
               A == AllCandidates
    <2>2. t \in Seq(Masters) /\ Len(t) = Len(s) - 1
      BY WithoutIs, ZenonT(60)
    <2>3. A' = [i \in 1..Len(t) |-> Seen(t[i])']
      BY <1>4, <2>1, <2>2
    <2>4. \A i \in 1..(Len(s) - 1) : Seen(t[i])' = IF i < k THEN Listed(s)[i] ELSE Listed(s)[i + 1]
      BY <1>0, <2>1, <2>2 DEF Without
    <2>5. A' = Without(A, k)
      <3> HIDE DEF t, Listed
      <3>1. QED
        BY <1>0, <1>3, <2>2, <2>3, <2>4 DEF Without
    <2>6. Without(A, k) = SubSeq(A, 1, k - 1) \o SubSeq(A, k + 1, Len(A))
      <3>1. A \in Seq({ A[i] : i \in 1..Len(s) }) /\ k \in 1..Len(A)
        BY <1>0, <1>3
      <3> HIDE DEF A
      <3>2. QED
        BY Zenon, <3>1, WithoutIs
    <2>7. Len(A) > 1 /\ k \in DOMAIN A /\ A[k].NodeMaster = m
      BY <1>0, <1>3, <2>1
    <2>8. known' = known
      BY <2>1
    <2>9. QED
      BY <2>1, <2>2, <2>5, <2>6, <2>7, <2>8, ZenonT(60) DEF Threaded, Abstract!Revoke
  <1>7. ASSUME NEW m \in Masters, NEW active \in BOOLEAN, Update(m, active)
        PROVE  Threaded' /\ Abstract!Update(m, active)
    <2> DEFINE A == AllCandidates
    <2>1. Thread(s)' /\ Len(s) > 1 /\ \A n \in Masters : IsEmpty(n)' <=> IsEmpty(n)
      BY <1>1, <1>2, <1>7, UpdateThread
    <2>2. PICK k \in 1..Len(s) :
              /\ s[k] = m /\ Seen(m)' = [Seen(m) EXCEPT !.Active = active]
              /\ \A i \in 1..Len(s) : i # k => Seen(s[i])' = Seen(s[i])
      BY <1>1, <1>2, <1>7, UpdateThread
    <2>3. A' = [i \in 1..Len(s) |-> Seen(s[i])']
      BY <1>4, <2>1
    <2>4. A' = [A EXCEPT ![k].Active = active]
      <3>1. \A i \in 1..Len(s) : Seen(s[i])' = IF i = k THEN [Listed(s)[k] EXCEPT !.Active = active] ELSE Listed(s)[i]
        BY <1>0, <2>2
      <3>2. A = [i \in 1..Len(s) |-> A[i]]
        BY <1>3
      <3> HIDE DEF Listed
      <3>3. QED
        BY Zenon, <1>3, <2>3, <3>1, <3>2
    <2>5. Len(A) > 1 /\ k \in DOMAIN A /\ A[k].NodeMaster = m
      BY <1>0, <1>3, <2>1, <2>2
    <2>6. known' = known
      BY <2>1
    <2>7. QED
      BY Zenon, <2>1, <2>4, <2>5, <2>6 DEF Threaded, Abstract!Update
  <1>8. CASE Next
    BY <1>5, <1>6, <1>7, <1>8, Zenon DEF Next, Abstract!Next
  <1>9. CASE UNCHANGED vars
    <2>1. Threaded'
      BY <1>9 DEF vars, Threaded, TypeOK, Thread, IsLinked, IsEmpty
    <2>2. AllCandidates' = AllCandidates /\ known' = known
      BY <1>9 DEF vars, AllCandidates, Pointer, IsEmpty
    <2>3. QED
      BY <2>1, <2>2 DEF Abstract!vars
  <1>10. QED
    BY <1>8, <1>9, ZenonT(60)

\* The linked entries implement the abstract list of candidates: AllCandidates, read
\* through the links, changes only as Append, the removal of one candidate and the change
\* of one flag would change a sequence, whatever the node masters.
THEOREM ListImplemented == Spec => ImplementsCandidateList
  <1>1. Inv => TypeOK
    BY DEF Inv
  <1>2. Threaded /\ TypeOK' /\ [Next]_vars => Threaded' /\ [Abstract!Next]_(Abstract!vars)
    BY StepThread
  <1>3. Spec => []Threaded
    BY InitThread, ListStaysLinked, <1>1, <1>2, PTL DEF Spec
  <1>4. QED
    BY InitThread, ListStaysLinked, <1>1, <1>2, <1>3, PTL DEF Spec, ImplementsCandidateList, Abstract!Spec

-----------------------------------------------------------------------------
(* Announcements. *)

\* A fetch under way.
FetchSet == [peer : Peers, id : Blocks, phase : {"asking", "sending", "done"}]

\* The fetches of a block.
FetchesOf(F, b) == { f \in F : f.id = b }

\* The fetches F are those the loop knows of: one at most of a peer, the peers in P, and
\* of every block as many as C says.
Tallied(F, P, C) ==
  /\ F \in SUBSET FetchSet /\ IsFiniteSet(F)
  /\ \A f, g \in F : f.peer = g.peer => f = g
  /\ P = { f.peer : f \in F }
  /\ \A b \in Blocks : C[b] = Cardinality(FetchesOf(F, b))

\* The blocks S are valid, and with a block its parent is among them.
Rooted(S) == S \subseteq Valid /\ Genesis \in S /\ \A b \in S : Parent[b] \in S

\* The queue keeps its limit.
Bounded(Q) == Q \subseteq Blocks /\ IsFiniteSet(Q) /\ Cardinality(Q) <= FutureLimit

\* The ticker under way: what was ready when it began, and has still to come, is in the
\* queue; the rest of it is stored and gone from the queue.
Passing ==
  /\ ticking \subseteq futureBlocks
  /\ due \subseteq stored \cup ticking /\ due \cap futureBlocks \subseteq ticking
  /\ \A b \in due : b \in Valid /\ Time[b] <= now /\ Parent[b] \in stored \cup due

PropagationIInv ==
  /\ now \in Nat
  /\ rpc \in [Peers -> [kind : {"none", "block", "id"}, id : Blocks]]
  /\ fetchingBlockIDs \in [Blocks -> 0..maxFetches]
  /\ Tallied(fetches, fetchingPeers, fetchingBlockIDs)
  /\ Rooted(stored)
  /\ Bounded(futureBlocks)
  /\ Passing

-----------------------------------------------------------------------------
\* The fetches of a block are finitely many.
LEMMA TalliedParts ==
  ASSUME NEW F, NEW P, NEW C, Tallied(F, P, C), NEW b \in Blocks
  PROVE  IsFiniteSet(FetchesOf(F, b)) /\ C[b] = Cardinality(FetchesOf(F, b)) /\ C[b] \in Nat
  <1>1. FetchesOf(F, b) \subseteq F
    BY DEF FetchesOf
  <1>2. IsFiniteSet(FetchesOf(F, b))
    BY <1>1, FS_Subset DEF Tallied
  <1>3. QED
    BY <1>2, FS_CardinalityType DEF Tallied

\* A fetch of a peer that has none is counted.
LEMMA FetchAdded ==
  ASSUME NEW F, NEW P, NEW C \in [Blocks -> 0..maxFetches], Tallied(F, P, C),
         NEW f \in FetchSet, f.peer \notin P, C[f.id] < maxFetches
  PROVE  LET D == [C EXCEPT ![f.id] = @ + 1]
         IN  /\ Tallied(F \cup {f}, P \cup {f.peer}, D)
             /\ D \in [Blocks -> 0..maxFetches]
  <1> DEFINE G == F \cup {f}
             D == [C EXCEPT ![f.id] = @ + 1]
  <1>1. f \notin F /\ \A g \in F : g.peer # f.peer
    BY DEF Tallied
  <1>2. f.id \in Blocks /\ maxFetches \in Nat
    BY PropagationAssumption DEF FetchSet
  <1>3. G \in SUBSET FetchSet /\ IsFiniteSet(G)
    BY FS_AddElement DEF Tallied
  <1>4. \A g, h \in G : g.peer = h.peer => g = h
    BY <1>1 DEF Tallied
  <1>5. P \cup {f.peer} = { g.peer : g \in G }
    BY DEF Tallied
  <1>6. ASSUME NEW b \in Blocks PROVE D[b] = Cardinality(FetchesOf(G, b))
    <2> DEFINE X == FetchesOf(F, b)
    <2>1. IsFiniteSet(X) /\ C[b] = Cardinality(X) /\ C[b] \in Nat
      BY TalliedParts
    <2>2. CASE b = f.id
      <3>1. FetchesOf(G, b) = X \cup {f} /\ f \notin X
        BY <1>1, <2>2 DEF FetchesOf
      <3> HIDE DEF X, G
      <3>2. Cardinality(X \cup {f}) = Cardinality(X) + 1
        BY Zenon, <2>1, <3>1, FS_AddElement
      <3>3. D[b] = C[b] + 1
        BY <2>2
      <3>4. QED
        BY <2>1, <3>1, <3>2, <3>3
    <2>3. CASE b # f.id
      <3>1. FetchesOf(G, b) = X
        BY <2>3 DEF FetchesOf
      <3>2. D[b] = C[b]
        BY <2>3
      <3>3. QED
        BY <2>1, <3>1, <3>2
    <2>4. QED
      BY <2>2, <2>3
  <1>7. D \in [Blocks -> 0..maxFetches]
    BY <1>2
  <1>8. QED
    BY Zenon, <1>3, <1>4, <1>5, <1>6, <1>7 DEF Tallied

\* A fetch that ends is not counted any more.
LEMMA FetchRemoved ==
  ASSUME NEW F, NEW P, NEW C \in [Blocks -> 0..maxFetches], Tallied(F, P, C), NEW f \in F
  PROVE  LET D == [C EXCEPT ![f.id] = IF @ > 1 THEN @ - 1 ELSE 0]
         IN  /\ Tallied(F \ {f}, P \ {f.peer}, D)
             /\ D \in [Blocks -> 0..maxFetches]
  <1> DEFINE G == F \ {f}
             D == [C EXCEPT ![f.id] = IF @ > 1 THEN @ - 1 ELSE 0]
  <1>1. f.id \in Blocks /\ maxFetches \in Nat
    BY PropagationAssumption DEF Tallied, FetchSet
  <1>2. G \in SUBSET FetchSet /\ IsFiniteSet(G)
    BY FS_RemoveElement DEF Tallied
  <1>3. \A g, h \in G : g.peer = h.peer => g = h
    BY DEF Tallied
  <1>4. P \ {f.peer} = { g.peer : g \in G }
    BY DEF Tallied
  <1>5. ASSUME NEW b \in Blocks PROVE D[b] = Cardinality(FetchesOf(G, b))
    <2> DEFINE X == FetchesOf(F, b)
    <2>1. IsFiniteSet(X) /\ C[b] = Cardinality(X) /\ C[b] \in Nat
      BY TalliedParts
    <2>2. CASE b = f.id
      <3>1. FetchesOf(G, b) = X \ {f} /\ f \in X
        BY <2>2 DEF FetchesOf
      <3> HIDE DEF X, G
      <3>2. Cardinality(X \ {f}) = Cardinality(X) - 1 /\ Cardinality(X \ {f}) \in Nat
        BY <2>1, <3>1, FS_RemoveElement, FS_CardinalityType
      <3>3. D[b] = IF C[b] > 1 THEN C[b] - 1 ELSE 0
        BY <2>2
      <3>4. QED
        BY <2>1, <3>1, <3>2, <3>3
    <2>3. CASE b # f.id
      <3>1. FetchesOf(G, b) = X
        BY <2>3 DEF FetchesOf
      <3>2. D[b] = C[b]
        BY <2>3
      <3>3. QED
        BY <2>1, <3>1, <3>2
    <2>4. QED
      BY <2>2, <2>3
  <1>6. D \in [Blocks -> 0..maxFetches]
    BY <1>1
  <1>7. QED
    BY <1>2, <1>3, <1>4, <1>5, <1>6 DEF Tallied

\* A fetch that goes on is the same to the loop.
LEMMA FetchReplaced ==
  ASSUME NEW F, NEW P, NEW C, Tallied(F, P, C), NEW f \in F,
         NEW phase \in {"asking", "sending", "done"}
  PROVE  Tallied((F \ {f}) \cup {[f EXCEPT !.phase = phase]}, P, C)
  <1> DEFINE g == [f EXCEPT !.phase = phase]
             E == F \ {f}
             G == E \cup {g}
  <1>0. f \in FetchSet
    BY DEF Tallied
  <1>1. g \in FetchSet /\ g.peer = f.peer /\ g.id = f.id
    BY <1>0 DEF FetchSet
  <1> HIDE DEF g
  <1>2. g \notin E /\ \A h \in E : h.peer # g.peer
    BY <1>1 DEF Tallied
  <1>3. G \in SUBSET FetchSet /\ IsFiniteSet(G)
    BY Zenon, <1>1, FS_RemoveElement, FS_AddElement DEF Tallied
  <1>4. \A h, k \in G : h.peer = k.peer => h = k
    BY <1>2 DEF Tallied
  <1>5. P = { h.peer : h \in G }
    BY <1>1 DEF Tallied
  <1>6. ASSUME NEW b \in Blocks PROVE C[b] = Cardinality(FetchesOf(G, b))
    <2> DEFINE X == FetchesOf(F, b)
    <2>1. IsFiniteSet(X) /\ C[b] = Cardinality(X) /\ C[b] \in Nat
      BY TalliedParts
    <2>2. CASE b = f.id
      <3>1. FetchesOf(G, b) = (X \ {f}) \cup {g} /\ f \in X /\ g \notin X \ {f}
        BY <1>1, <1>2, <2>2 DEF FetchesOf
      <3> HIDE DEF X, G
      <3>2. IsFiniteSet(X \ {f}) /\ Cardinality(X \ {f}) = Cardinality(X) - 1
        BY <2>1, <3>1, FS_RemoveElement
      <3>3. Cardinality((X \ {f}) \cup {g}) = Cardinality(X \ {f}) + 1
        BY Zenon, <3>1, <3>2, FS_AddElement
      <3>4. QED
        BY <2>1, <3>1, <3>2, <3>3
    <2>3. CASE b # f.id
      <3>1. FetchesOf(G, b) = X
        BY <1>1, <2>3 DEF FetchesOf
      <3>2. QED
        BY <2>1, <3>1
    <2>4. QED
      BY <2>2, <2>3
  <1>7. QED
    BY Zenon, <1>3, <1>4, <1>5, <1>6 DEF Tallied, g

-----------------------------------------------------------------------------
(* The queue. *)

\* processBlock stores valid blocks whose parent is stored.
LEMMA VerdictOk ==
  ASSUME NEW b \in Blocks, Rooted(stored), Verdict(b) = "ok"
  PROVE  Rooted(stored \cup {b})
  <1>1. b \in Valid /\ Parent[b] \in stored
    BY DEF Verdict
  <1>2. QED
    BY <1>1 DEF Rooted

\* A block put in the queue: the queue keeps its limit.
LEMMA QueuedBounded ==
  ASSUME Bounded(futureBlocks), NEW b \in Blocks, Queued(b)
  PROVE  Bounded(futureBlocks')
  <1> DEFINE Q == futureBlocks
  <1>1. IsFiniteSet(Q) /\ Cardinality(Q) \in Nat /\ FutureLimit \in Nat /\ Cardinality(Q) <= FutureLimit
    BY FS_CardinalityType, PropagationAssumption DEF Bounded
  <1>2. IsFiniteSet(Q \cup {b}) /\ Cardinality(Q \cup {b}) = IF b \in Q THEN Cardinality(Q) ELSE Cardinality(Q) + 1
    BY <1>1, FS_AddElement
  <1>3. CASE b \in Q \/ Cardinality(Q) < FutureLimit
    <2>1. futureBlocks' = Q \cup {b}
      BY <1>3 DEF Queued
    <2>2. Cardinality(Q \cup {b}) <= FutureLimit
      BY <1>1, <1>2, <1>3
    <2>3. QED
      BY <1>2, <2>1, <2>2 DEF Bounded
  <1>4. CASE ~(b \in Q \/ Cardinality(Q) < FutureLimit)
    <2>1. PICK d \in Q \cup {b} : futureBlocks' = (Q \cup {b}) \ {d}
      BY <1>4 DEF Queued
    <2>2. IsFiniteSet((Q \cup {b}) \ {d}) /\ Cardinality((Q \cup {b}) \ {d}) = Cardinality(Q \cup {b}) - 1
      BY <1>2, <2>1, FS_RemoveElement
    <2>3. Cardinality((Q \cup {b}) \ {d}) <= FutureLimit
      BY <1>1, <1>2, <2>2
    <2>4. QED
      BY <2>1, <2>2, <2>3 DEF Bounded
  <1>5. QED
    BY <1>3, <1>4

\* A block put in the queue: nothing else gets into it.
LEMMA QueuedOnly ==
  ASSUME NEW b, Queued(b)
  PROVE  futureBlocks' \subseteq futureBlocks \cup {b}
  BY Zenon DEF Queued

\* Whatever house keeping does with a new block.
LEMMA NewBlockKeeps ==
  ASSUME Rooted(stored), Bounded(futureBlocks), Passing, NEW b \in Blocks, NewBlock(b), UNCHANGED now
  PROVE  Rooted(stored') /\ Bounded(futureBlocks') /\ Passing'
  <1>0. ticking = {} /\ UNCHANGED <<ticking, due>>
    BY Zenon DEF NewBlock, tick
  <1>1. CASE Verdict(b) = "ok" /\ stored' = stored \cup {b} /\ UNCHANGED <<futureBlocks, lost>>
    <2>1. Rooted(stored') /\ Bounded(futureBlocks')
      BY <1>1, VerdictOk
    <2>2. QED
      BY <1>0, <1>1, <2>1, Zenon DEF Passing
  <1>2. CASE b \notin stored /\ Queued(b) /\ UNCHANGED stored
    <2>1. Rooted(stored') /\ Bounded(futureBlocks')
      BY <1>2, QueuedBounded
    <2>2. b \notin due /\ due \cap futureBlocks = {}
      BY <1>0, <1>2 DEF Passing
    <2>3. due \cap futureBlocks' = {}
      BY <1>2, <2>2, QueuedOnly
    <2>4. QED
      BY <1>0, <1>2, <2>1, <2>3 DEF Passing
  <1>3. CASE UNCHANGED <<stored, futureBlocks, lost>>
    BY <1>0, <1>3 DEF Passing
  <1>4. Verdict(b) = "future" \/ Verdict(b) = "parent missing" => b \notin stored
    BY DEF Verdict
  <1>5. QED
    BY Zenon, <1>1, <1>2, <1>3, <1>4 DEF NewBlock

\* The ticker goes on while the clock runs and others store blocks.
LEMMA PassingStays ==
  ASSUME Passing, UNCHANGED <<futureBlocks, ticking, due>>, stored \subseteq stored',
         now \in Nat, now' \in Nat, now <= now'
  PROVE  Passing'
  <1>1. ASSUME NEW b \in due PROVE Time[b] <= now'
    <2>1. Time[b] \in Nat /\ Time[b] <= now
      BY PropagationAssumption DEF Passing
    <2>2. QED
      BY <2>1
  <1>2. QED
    BY <1>1, Zenon DEF Passing

\* The ticker begins.
LEMMA FutureTickKeeps ==
  ASSUME Passing, FutureTick
  PROVE  Passing'
  <1>1. /\ ticking' = futureBlocks /\ due' = Ready
        /\ UNCHANGED <<stored, now, futureBlocks>>
    BY DEF FutureTick
  <1>2. Ready \subseteq futureBlocks
    BY DEF Ready
  <1>3. ASSUME NEW b \in Ready
        PROVE  b \in Valid /\ Time[b] <= now /\ Parent[b] \in stored \cup Ready
    <2>1. PICK S \in SUBSET futureBlocks :
            /\ b \in S
            /\ \A a \in S : a \in Valid /\ Time[a] <= now /\ Parent[a] \in stored \cup S
      BY DEF Ready
    <2>2. S \subseteq Ready
      BY <2>1 DEF Ready
    <2>3. QED
      BY <2>1, <2>2
  <1>4. QED
    BY <1>1, <1>2, <1>3 DEF Passing

\* One block of the ticker.  If it was ready when the ticker began, it goes in now: its
\* parent has a lower number, so that it is not among those still to come.
LEMMA FutureBlockKeeps ==
  ASSUME Rooted(stored), Bounded(futureBlocks), Passing, now \in Nat, NEW b \in ticking, FutureBlock(b)
  PROVE  Rooted(stored') /\ Bounded(futureBlocks') /\ Passing'
  <1>1. /\ \A a \in ticking : Number[b] <= Number[a]
        /\ ticking' = ticking \ {b} /\ UNCHANGED <<now, due>>
        /\ stored' = IF Verdict(b) = "ok" THEN stored \cup {b} ELSE stored
        /\ futureBlocks' = IF Verdict(b) \in {"ok", "known"} THEN futureBlocks \ {b} ELSE futureBlocks
    BY DEF FutureBlock
  <1>2. b \in futureBlocks /\ b \in Blocks
    BY DEF Passing, Bounded
  <1>3. Rooted(stored')
    BY <1>1, <1>2, VerdictOk
  <1>4. Bounded(futureBlocks')
    <2>1. futureBlocks' \in SUBSET futureBlocks /\ IsFiniteSet(futureBlocks)
      BY <1>1 DEF Bounded
    <2>2. IsFiniteSet(futureBlocks') /\ Cardinality(futureBlocks') <= Cardinality(futureBlocks)
      BY <2>1, FS_Subset
    <2>3. Cardinality(futureBlocks) \in Nat /\ Cardinality(futureBlocks') \in Nat /\ FutureLimit \in Nat
      BY <2>1, <2>2, FS_CardinalityType, PropagationAssumption
    <2>4. QED
      BY <2>1, <2>2, <2>3 DEF Bounded
  <1>5. b \in due => Verdict(b) \in {"ok", "known"}
    <2> SUFFICES ASSUME b \in due, b \notin stored PROVE Verdict(b) = "ok"
      BY DEF Verdict
    <2>1. b \in Valid /\ Time[b] <= now /\ Parent[b] \in stored \cup due /\ Parent[b] \in Blocks
      BY <1>2, PropagationAssumption DEF Passing
    <2>2. b # Genesis
      BY DEF Rooted
    <2>3. Number[b] = Number[Parent[b]] + 1 /\ Number[Parent[b]] \in Nat
      BY <1>2, <2>1, <2>2, PropagationAssumption
    <2>4. Parent[b] \notin ticking
      <3> SUFFICES ASSUME Parent[b] \in ticking PROVE FALSE
        OBVIOUS
      <3>1. Number[b] <= Number[Parent[b]]
        BY <1>1
      <3>2. QED
        BY <2>3, <3>1
    <2>5. Parent[b] \in stored
      BY <2>1, <2>4 DEF Passing
    <2>6. ~(Time[b] > now)
      <3>1. Time[b] \in Nat
        BY <1>2, PropagationAssumption
      <3>2. QED
        BY <2>1, <3>1
    <2>7. QED
      BY <2>1, <2>5, <2>6, Zenon DEF Verdict
  <1>6. b \in due => b \in stored' /\ b \notin futureBlocks'
    <2>1. Verdict(b) = "known" => b \in stored
      BY DEF Verdict
    <2>2. QED
      BY <1>1, <1>5, <2>1
  <1>7. stored \subseteq stored' /\ futureBlocks' \subseteq futureBlocks /\ futureBlocks \ {b} \subseteq futureBlocks'
    BY <1>1
  <1>8. Passing'
    BY <1>1, <1>6, <1>7 DEF Passing
  <1>9. QED
    BY <1>3, <1>4, <1>8

-----------------------------------------------------------------------------
(* The invariant. *)

\* An idle node satisfies the invariant.
LEMMA PropagationInitIInv == PropagationInit => PropagationIInv
  <1> SUFFICES ASSUME PropagationInit PROVE PropagationIInv
    OBVIOUS
  <1>1. rpc \in [Peers -> [kind : {"none", "block", "id"}, id : Blocks]]
    BY PropagationAssumption DEF PropagationInit, none
  <1>2. fetchingBlockIDs \in [Blocks -> 0..maxFetches]
    BY PropagationAssumption DEF PropagationInit
  <1>3. Tallied(fetches, fetchingPeers, fetchingBlockIDs)
    <2>1. \A b \in Blocks : FetchesOf({}, b) = {}
      BY DEF FetchesOf
    <2>2. IsFiniteSet({}) /\ Cardinality({}) = 0
      BY FS_EmptySet
    <2>3. \A b \in Blocks : fetchingBlockIDs[b] = Cardinality(FetchesOf({}, b))
      BY <2>1, <2>2 DEF PropagationInit
    <2>4. QED
      BY <2>2, <2>3 DEF Tallied, PropagationInit
  <1>4. Rooted(stored)
    BY PropagationAssumption DEF Rooted, PropagationInit
  <1>5. Bounded(futureBlocks)
    BY FS_EmptySet, PropagationAssumption DEF Bounded, PropagationInit
  <1>6. Passing /\ now \in Nat
    BY DEF Passing, PropagationInit
  <1>7. QED
    BY <1>1, <1>2, <1>3, <1>4, <1>5, <1>6 DEF PropagationIInv

\* Every step of peers, loop, fetches, clock and ticker keeps the invariant.
LEMMA PropagationNextIInv == PropagationIInv /\ [PropagationNext]_propagationVars => PropagationIInv'
  <1> SUFFICES ASSUME PropagationIInv, [PropagationNext]_propagationVars PROVE PropagationIInv'
    OBVIOUS
  <1> DEFINE Wait == [kind : {"none", "block", "id"}, id : Blocks]
  <1>0. /\ rpc \in [Peers -> Wait] /\ fetchingBlockIDs \in [Blocks -> 0..maxFetches]
        /\ Tallied(fetches, fetchingPeers, fetchingBlockIDs)
        /\ Rooted(stored) /\ Bounded(futureBlocks) /\ Passing /\ now \in Nat
    BY DEF PropagationIInv
  <1>n. none \in Wait
    BY PropagationAssumption DEF none
  <1>q. fetches \subseteq FetchSet
    BY <1>0 DEF Tallied
  <1>w. ASSUME UNCHANGED <<futureBlocks, ticking, due>>, stored \subseteq stored', UNCHANGED now \/ now' = now + 1
        PROVE  Passing' /\ now' \in Nat
    <2>1. now' \in Nat /\ now <= now'
      BY <1>0, <1>w
    <2>2. QED
      BY <1>0, <1>w, <2>1, PassingStays
  <1>1. CASE Clock
    <2>1. UNCHANGED <<stored, rpc, fetchingPeers, fetchingBlockIDs, fetches, futureBlocks, ticking, due>> /\ now' = now + 1
      BY <1>1 DEF Clock, announce, queue, tick
    <2>2. Passing' /\ now' \in Nat
      BY <1>w, <2>1
    <2>3. QED
      BY <1>0, <2>1, <2>2 DEF PropagationIInv
  <1>2. ASSUME NEW p \in Peers, NEW kind \in {"block", "id"}, NEW b \in Blocks, Message(p, kind, b)
        PROVE  PropagationIInv'
    <2>1. rpc' \in [Peers -> Wait]
      BY <1>0, <1>2 DEF Message
    <2>2. UNCHANGED <<stored, now, fetchingPeers, fetchingBlockIDs, fetches, futureBlocks, ticking, due>>
      BY <1>2 DEF Message, announce, queue, tick
    <2>3. Passing' /\ now' \in Nat
      BY <1>w, <2>2
    <2>4. QED
      BY <1>0, <2>1, <2>2, <2>3 DEF PropagationIInv
  <1>3. ASSUME NEW p \in Peers, Announced(p) PROVE PropagationIInv'
    <2> DEFINE b == rpc[p].id
               f == [peer |-> p, id |-> b, phase |-> "asking"]
    <2>1. rpc' \in [Peers -> Wait] /\ UNCHANGED <<stored, now, futureBlocks, ticking, due>>
      BY <1>0, <1>3, <1>n DEF Announced, queue, tick
    <2>2. b \in Blocks
      BY <1>0
    <2>3. f \in FetchSet /\ f.peer = p /\ f.id = b
      BY <2>2 DEF FetchSet
    <2>4. /\ fetchingBlockIDs' \in [Blocks -> 0..maxFetches]
          /\ Tallied(fetches', fetchingPeers', fetchingBlockIDs')
      <3>1. CASE p \notin fetchingPeers /\ fetchingBlockIDs[b] < maxFetches
        <4>1. /\ fetches' = fetches \cup {f} /\ fetchingPeers' = fetchingPeers \cup {f.peer}
              /\ fetchingBlockIDs' = [fetchingBlockIDs EXCEPT ![f.id] = @ + 1]
          BY Zenon, <1>3, <3>1 DEF Announced
        <4> HIDE DEF f, b
        <4>2. QED
          BY Zenon, <1>0, <2>3, <3>1, <4>1, FetchAdded
      <3>2. CASE ~(p \notin fetchingPeers /\ fetchingBlockIDs[b] < maxFetches)
        BY <1>0, <1>3, <3>2 DEF Announced, announce
      <3>3. QED
        BY <3>1, <3>2
    <2>5. Passing' /\ now' \in Nat
      BY <1>w, <2>1
    <2>6. QED
      BY <1>0, <2>1, <2>4, <2>5 DEF PropagationIInv
  <1>4. ASSUME NEW p \in Peers, Feed(p) PROVE PropagationIInv'
    <2>1. rpc' \in [Peers -> Wait] /\ UNCHANGED <<now, announce, fetches>> /\ NewBlock(rpc[p].id)
      BY <1>0, <1>4, <1>n DEF Feed
    <2>2. Rooted(stored') /\ Bounded(futureBlocks') /\ Passing'
      BY <1>0, <2>1, NewBlockKeeps
    <2>3. QED
      BY <1>0, <2>1, <2>2 DEF PropagationIInv, announce
  <1>5. ASSUME NEW f \in fetches, Ask(f) PROVE PropagationIInv'
    <2>1. PICK phase \in {"sending", "done"} :
            fetches' = (fetches \ {f}) \cup {[f EXCEPT !.phase = phase]}
      BY <1>5 DEF Ask
    <2>2. Tallied(fetches', fetchingPeers, fetchingBlockIDs)
      BY Zenon, <1>0, <2>1, FetchReplaced
    <2>3. UNCHANGED <<stored, now, rpc, fetchingPeers, fetchingBlockIDs, futureBlocks, ticking, due>>
      BY <1>5 DEF Ask, announce, queue, tick
    <2>4. Passing' /\ now' \in Nat
      BY <1>w, <2>3
    <2>5. QED
      BY <1>0, <2>2, <2>3, <2>4 DEF PropagationIInv
  <1>6. ASSUME NEW f \in fetches, FetchDone(f) PROVE PropagationIInv'
    <2>1. /\ fetches' = fetches \ {f} /\ fetchingPeers' = fetchingPeers \ {f.peer}
          /\ fetchingBlockIDs' = [fetchingBlockIDs EXCEPT ![f.id] = IF @ > 1 THEN @ - 1 ELSE 0]
      BY <1>6 DEF FetchDone
    <2>2. /\ fetchingBlockIDs' \in [Blocks -> 0..maxFetches]
          /\ Tallied(fetches', fetchingPeers', fetchingBlockIDs')
      BY Zenon, <1>0, <2>1, FetchRemoved
    <2>3. UNCHANGED <<stored, now, rpc, futureBlocks, ticking, due>>
      BY <1>6 DEF FetchDone, queue, tick
    <2>4. Passing' /\ now' \in Nat
      BY <1>w, <2>3
    <2>5. QED
      BY <1>0, <2>2, <2>3, <2>4 DEF PropagationIInv
  <1>7. ASSUME NEW f \in fetches, FeedFetched(f) PROVE PropagationIInv'
    <2>1. /\ fetches' = (fetches \ {f}) \cup {[f EXCEPT !.phase = "done"]} /\ NewBlock(f.id)
          /\ UNCHANGED <<now, rpc, announce>>
      BY <1>7 DEF FeedFetched
    <2>2. Tallied(fetches', fetchingPeers, fetchingBlockIDs)
      BY Zenon, <1>0, <2>1, FetchReplaced
    <2>3. f.id \in Blocks
      BY <1>q DEF FetchSet
    <2>4. Rooted(stored') /\ Bounded(futureBlocks') /\ Passing'
      BY <1>0, <2>1, <2>3, NewBlockKeeps
    <2>5. QED
      BY <1>0, <2>1, <2>2, <2>4 DEF PropagationIInv, announce
  <1>8. CASE FutureTick
    <2>1. Passing'
      BY <1>0, <1>8, FutureTickKeeps
    <2>2. QED
      BY <1>0, <1>8, <2>1 DEF PropagationIInv, FutureTick, announce
  <1>9. ASSUME NEW b \in ticking, FutureBlock(b) PROVE PropagationIInv'
    <2>1. Rooted(stored') /\ Bounded(futureBlocks') /\ Passing'
      BY <1>0, <1>9, FutureBlockKeeps
    <2>2. UNCHANGED <<now, rpc, fetchingPeers, fetchingBlockIDs, fetches>>
      BY <1>9 DEF FutureBlock, announce
    <2>3. QED
      BY <1>0, <2>1, <2>2 DEF PropagationIInv
  <1>10. ASSUME NEW b \in Blocks, Elsewhere(b) PROVE PropagationIInv'
    <2>1. Rooted(stored') /\ stored \subseteq stored'
      BY <1>0, <1>10, VerdictOk DEF Elsewhere
    <2>2. UNCHANGED <<now, rpc, fetchingPeers, fetchingBlockIDs, fetches, futureBlocks, ticking, due>>
      BY <1>10 DEF Elsewhere, announce, queue, tick
    <2>3. Passing' /\ now' \in Nat
      BY <1>w, <2>1, <2>2
    <2>4. QED
      BY <1>0, <2>1, <2>2, <2>3 DEF PropagationIInv
  <1>11. CASE UNCHANGED propagationVars
    <2>1. UNCHANGED <<stored, now, rpc, fetchingPeers, fetchingBlockIDs, fetches, futureBlocks, ticking, due>>
      BY <1>11 DEF propagationVars
    <2>2. Passing' /\ now' \in Nat
      BY <1>w, <2>1
    <2>3. QED
      BY <1>0, <2>1, <2>2 DEF PropagationIInv
  <1>12. QED
    BY <1>1, <1>2, <1>3, <1>4, <1>5, <1>6, <1>7, <1>8, <1>9, <1>10, <1>11 DEF PropagationNext

\* One fetch of a peer: there are as many fetches as peers fetched from.
LEMMA FetchesLikePeers ==
  ASSUME NEW F, NEW P, NEW C, Tallied(F, P, C)
  PROVE  Cardinality(F) = Cardinality(P)
  <1> DEFINE m == [f \in F |-> f.peer]
  <1>1. IsFiniteSet(F) /\ P = { f.peer : f \in F } /\ \A f, g \in F : f.peer = g.peer => f = g
    BY DEF Tallied
  <1>2. m \in Injection(F, P)
    BY <1>1 DEF Injection, IsInjective
  <1>3. m \in Surjection(F, P)
    BY <1>1 DEF Surjection
  <1>4. ExistsBijection(F, P)
    BY <1>2, <1>3, Zenon DEF ExistsBijection, Bijection
  <1>5. QED
    BY <1>1, <1>4, FS_Bijection

\* The loop's counters, its fetches and the queue of early blocks agree in every state.
THEOREM PropagationIInvariant == PropagationSpec => []PropagationIInv
  <1>1. QED
    BY PropagationInitIInv, PropagationNextIInv, PTL DEF PropagationSpec

\* Whatever is announced by however many peers, and in whatever order fetches end: the
\* counters of announcementLoop are the fetches under way, and the queue and the
\* repository are what house keeping takes them for.
THEOREM FetchesStayCounted == PropagationSpec => []FetchesCounted
  <1>1. PropagationIInv => FetchesCounted
    <2> SUFFICES ASSUME PropagationIInv PROVE FetchesCounted
      OBVIOUS
    <2>1. /\ fetchingBlockIDs \in [Blocks -> 0..maxFetches]
          /\ Tallied(fetches, fetchingPeers, fetchingBlockIDs)
          /\ Rooted(stored) /\ Bounded(futureBlocks) /\ Passing
      BY DEF PropagationIInv
    <2>2. PropagationTypeOK
      BY <2>1 DEF PropagationTypeOK, Rooted, Bounded, Passing
    <2>3. \A b \in Blocks : fetchingBlockIDs[b] = Cardinality({ f \in fetches : f.id = b })
      BY <2>1 DEF Tallied, FetchesOf
    <2>4. fetchingPeers = { f.peer : f \in fetches }
      BY <2>1 DEF Tallied
    <2>5. Cardinality(fetches) = Cardinality(fetchingPeers)
      BY <2>1, FetchesLikePeers
    <2>6. QED
      BY Zenon, <2>2, <2>3, <2>4, <2>5 DEF FetchesCounted
  <1>2. QED
    BY <1>1, PropagationIInvariant, PTL

\* Once the ticker has gone through a queue of any length and any branches, all that was
\* ready in it at the beginning is stored and has left it, whatever the sync process and
\* the packer stored in between (futureTicker in houseKeeping).
THEOREM QueueStaysDrained == PropagationSpec => []QueueDrains
  <1>1. PropagationIInv => QueueDrains
    BY DEF PropagationIInv, Passing, QueueDrains
  <1>2. QED
    BY <1>1, PropagationIInvariant, PTL
=============================================================================
