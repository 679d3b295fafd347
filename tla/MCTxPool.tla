------------------------------ MODULE MCTxPool ------------------------------
\* a1 and a2 are two signatures of one body.
EXTENDS TxPool

MCId == [t \in Txs |-> "ida"]
MCOrigin == [t \in Txs |-> "ann"]
MCPrice == [t \in Txs |-> IF t = "a1" THEN 2 ELSE 1]

\* a1 executable and a2 waiting, or a1 refused and a2 executable.
MCVerdicts == { [t \in Txs |-> IF t = "a1" THEN "executable" ELSE "pending"],
                [t \in Txs |-> IF t = "a1" THEN "bad" ELSE "executable"] }
=============================================================================
