---------------------------- MODULE MCBlockSync -----------------------------
\* Two branches that part at different depths: g-a1-a2-a3-a4, and b2-b3-b4-b5 on a1.
EXTENDS BlockSync

MCBlocks == {"g", "a1", "a2", "a3", "a4", "b2", "b3", "b4", "b5"}
MCChain == [ g |-> {"g"}, a1 |-> {"g", "a1"}, a2 |-> {"g", "a1", "a2"}, a3 |-> {"g", "a1", "a2", "a3"},
             a4 |-> {"g", "a1", "a2", "a3", "a4"},
             b2 |-> {"g", "a1", "b2"}, b3 |-> {"g", "a1", "b2", "b3"}, b4 |-> {"g", "a1", "b2", "b3", "b4"},
             b5 |-> {"g", "a1", "b2", "b3", "b4", "b5"} ]
MCScore == [ g |-> 0, a1 |-> 2, a2 |-> 4, a3 |-> 6, a4 |-> 8, b2 |-> 3, b3 |-> 5, b4 |-> 7, b5 |-> 9 ]
MCLocal == {"a1", "a2", "a3", "a4"}
=============================================================================
