--------------------------- MODULE CandidateList ---------------------------
(***************************************************************************)
(* What the Authority contract promises: an ordered list of candidates.    *)
(* A node master enters it once and for good: revoked, it may not be added *)
(* again.  The last candidate of the list is neither revoked nor updated.  *)
(***************************************************************************)
EXTENDS Sequences, Naturals

CONSTANTS Masters, Endorsors

VARIABLES
  list,    \* sequence of [NodeMaster, Endorsor, Active]
  known    \* the node masters ever added

vars == <<list, known>>

Candidate == [NodeMaster : Masters, Endorsor : Endorsors, Active : BOOLEAN]

Init == list = <<>> /\ known = {}

Add(m, e) ==
  /\ m \notin known
  /\ known' = known \cup {m}
  /\ list' = Append(list, [NodeMaster |-> m, Endorsor |-> e, Active |-> TRUE])

Revoke(m) ==
  /\ Len(list) > 1
  /\ \E i \in DOMAIN list :
       /\ list[i].NodeMaster = m
       /\ list' = SubSeq(list, 1, i - 1) \o SubSeq(list, i + 1, Len(list))
  /\ UNCHANGED known

Update(m, active) ==
  /\ Len(list) > 1
  /\ \E i \in DOMAIN list :
       /\ list[i].NodeMaster = m
       /\ list' = [list EXCEPT ![i].Active = active]
  /\ UNCHANGED known

Next ==
  \E m \in Masters :
    \/ \E e \in Endorsors : Add(m, e)
    \/ Revoke(m)
    \/ \E active \in BOOLEAN : Update(m, active)

Spec == Init /\ [][Next]_vars
=============================================================================
