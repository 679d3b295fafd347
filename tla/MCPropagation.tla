--------------------------- MODULE MCPropagation ----------------------------
\* A branch of three blocks, of which the first two are early, and a bad block.
EXTENDS Propagation

MCBlocks == {"g", "a", "b", "c", "x"}
MCParent == [g |-> "g", a |-> "g", b |-> "a", c |-> "b", x |-> "g"]
MCNumber == [g |-> 0, a |-> 1, b |-> 2, c |-> 3, x |-> 1]
MCTime   == [g |-> 0, a |-> 1, b |-> 2, c |-> 2, x |-> 1]
MCValid  == {"g", "a", "b", "c"}

=============================================================================
