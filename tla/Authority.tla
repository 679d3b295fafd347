----------------------------- MODULE Authority -----------------------------
(***************************************************************************)
(* The storage of the Authority contract (sharer/authority/authority.go):  *)
(* one entry per node master, doubly linked through Prev and Next, and the *)
(* two pointers head and tail.  Each native method is one action; a method *)
(* that returns false changes nothing, so its action is not enabled.       *)
(*                                                                         *)
(* The identity of a candidate is left out: the contract requires it, like *)
(* the endorsor, to be non-zero, so the endorsor alone tells an empty      *)
(* entry from one in use.                                                  *)
(***************************************************************************)
EXTENDS Integers, Sequences, FiniteSets

CONSTANTS
  Masters,     \* node master addresses
  Endorsors,   \* endorsor addresses
  Nil          \* the nil pointer, and the zero address of an endorsor

ASSUME AuthorityAssumption ==
  /\ IsFiniteSet(Masters)
  /\ Nil \notin Masters
  /\ Nil \notin Endorsors

VARIABLES
  entry,   \* the entry stored for each node master
  head,    \* first node master of the list, or Nil
  tail     \* last node master of the list, or Nil

vars == <<entry, head, tail>>

EmptyEntry == [Endorsor |-> Nil, Active |-> FALSE, Prev |-> Nil, Next |-> Nil]

IsEmpty(m) == entry[m] = EmptyEntry

IsLinked(m) == entry[m].Prev # Nil \/ entry[m].Next # Nil

Init ==
  /\ entry = [m \in Masters |-> EmptyEntry]
  /\ head = Nil
  /\ tail = Nil

Add(m, e) ==
  /\ IsEmpty(m)
  /\ entry' = [n \in Masters |->
                 IF n = m THEN [Endorsor |-> e, Active |-> TRUE, Prev |-> tail, Next |-> Nil]
                 ELSE IF n = tail THEN [entry[n] EXCEPT !.Next = m]
                 ELSE entry[n]]
  /\ tail' = m
  /\ head' = IF tail = Nil THEN m ELSE head

\* Mutant: the next entry keeps its link to the revoked one.
Revoke_KeepsBackLink(m) ==
  /\ IsLinked(m)
  /\ LET prev == entry[m].Prev
         next == entry[m].Next
     IN  /\ head' = IF prev = Nil THEN next ELSE head
         /\ tail' = IF next = Nil THEN prev ELSE tail
         /\ entry' = [n \in Masters |->
                        IF n = m THEN [entry[m] EXCEPT !.Active = FALSE, !.Prev = Nil, !.Next = Nil]
                        ELSE IF n = prev THEN [entry[n] EXCEPT !.Next = next]
                        ELSE entry[n]]

Revoke(m) ==
  /\ IsLinked(m)
  /\ LET prev == entry[m].Prev
         next == entry[m].Next
     IN  /\ head' = IF prev = Nil THEN next ELSE head
         /\ tail' = IF next = Nil THEN prev ELSE tail
         /\ entry' = [n \in Masters |->
                        IF n = m THEN [entry[m] EXCEPT !.Active = FALSE, !.Prev = Nil, !.Next = Nil]
                        ELSE IF n = prev THEN [entry[n] EXCEPT !.Next = next]
                        ELSE IF n = next THEN [entry[n] EXCEPT !.Prev = prev]
                        ELSE entry[n]]

\* Mutant: Update asks whether the entry exists instead of whether it is linked.
Update_Unlinked(m, active) ==
  /\ ~IsEmpty(m)
  /\ entry' = [entry EXCEPT ![m].Active = active]
  /\ UNCHANGED <<head, tail>>

Update(m, active) ==
  /\ IsLinked(m)
  /\ entry' = [entry EXCEPT ![m].Active = active]
  /\ UNCHANGED <<head, tail>>

Next ==
  \E m \in Masters :
    \/ \E e \in Endorsors : Add(m, e)
    \/ Revoke(m)
    \/ \E active \in BOOLEAN : Update(m, active)

Spec == Init /\ [][Next]_vars

-----------------------------------------------------------------------------
(* What the readers of the contract see. *)

\* Get: whether a node master is listed.
Get(m) == IsLinked(m) \/ head = m

\* The walk of AllCandidates: the i-th pointer it follows from head.
Pointer ==
  LET p[i \in 1..Cardinality(Masters) + 1] ==
        IF i = 1 THEN head
        ELSE IF p[i - 1] = Nil THEN Nil ELSE entry[p[i - 1]].Next
  IN  p

AllCandidates ==
  LET n == Cardinality({ i \in DOMAIN Pointer : Pointer[i] # Nil })
  IN  [ i \in 1..n |-> [ NodeMaster |-> Pointer[i],
                         Endorsor   |-> entry[Pointer[i]].Endorsor,
                         Active     |-> entry[Pointer[i]].Active ] ]

-----------------------------------------------------------------------------
Entries ==
  [ Endorsor : Endorsors \cup {Nil}, Active : BOOLEAN,
    Prev : Masters \cup {Nil}, Next : Masters \cup {Nil} ]

TypeOK ==
  /\ entry \in [Masters -> Entries]
  /\ head \in Masters \cup {Nil}
  /\ tail \in Masters \cup {Nil}

\* The links agree with each other and with head and tail: every Next has its
\* Prev and the reverse, only head has no Prev and only tail no Next among the
\* linked entries, and the two pointers are nil together.
LinksAgree ==
  /\ head = Nil <=> tail = Nil
  /\ head # Nil => entry[head].Prev = Nil
  /\ tail # Nil => entry[tail].Next = Nil
  /\ \A m \in Masters :
       /\ entry[m].Next # Nil => entry[m].Next # m /\ entry[entry[m].Next].Prev = m
       /\ entry[m].Prev # Nil => entry[m].Prev # m /\ entry[entry[m].Prev].Next = m
       /\ IsLinked(m) => /\ entry[m].Prev = Nil => m = head
                         /\ entry[m].Next = Nil => m = tail

\* The inductive invariant: besides the links, an entry that is empty is neither
\* head nor tail, and a lone head is the tail.
Inv ==
  /\ TypeOK
  /\ LinksAgree
  /\ \A m \in Masters : m \in {head, tail} \/ IsLinked(m) => entry[m].Endorsor # Nil
  /\ head # Nil => (entry[head].Next = Nil => head = tail)
  /\ tail # Nil => (entry[tail].Prev = Nil => head = tail)

Abstract ==
  INSTANCE CandidateList WITH list  <- AllCandidates,
                              known <- { m \in Masters : ~IsEmpty(m) }

\* The linked entries implement the abstract list of candidates.
ImplementsCandidateList == Abstract!Spec
=============================================================================
