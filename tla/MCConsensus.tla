---------------------------- MODULE MCConsensus ----------------------------
\* Two listed candidates and one that may be added, two slots, a cache of two.
EXTENDS Consensus

MCMasters == {"m1", "m2", "m3"}
MCEndorsor == [m \in MCMasters |-> CASE m = "m1" -> "e1" [] m = "m2" -> "e2" [] OTHER -> "e3"]
MCGenesis == << [NodeMaster |-> "m1", Endorsor |-> "e1", Active |-> TRUE],
                [NodeMaster |-> "m2", Endorsor |-> "e2", Active |-> TRUE] >>
\* Transfers, a change of the endorsement, a new candidate, revocations.
MCBodies ==
  { [op |-> "none"], [op |-> "transfer", e |-> "e1", enough |-> FALSE],
    [op |-> "transfer", e |-> "e1", enough |-> TRUE], [op |-> "params", rich |-> {"e1", "e3"}],
    [op |-> "add", m |-> "m3"], [op |-> "revoke", m |-> "m1"], [op |-> "revoke", m |-> "m2"] }
MCHash == [n \in 0..MaxBlocks |-> [t \in 1..LastTime |-> (n + t) % 3]]
=============================================================================
