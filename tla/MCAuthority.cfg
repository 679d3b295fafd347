SPECIFICATION Spec
CONSTANTS
  Masters = {m1, m2, m3, m4}
  Endorsors = {e1}
  Nil = Nil
INVARIANT Inv
PROPERTIES ImplementsCandidateList
CHECK_DEADLOCK FALSE
