------------------------------- MODULE MCNode -------------------------------
\* A trunk of three blocks and a fork of one that beats the trunk's second block, so
\* the best chain gets shorter before the third block, of equal score, wins it back.
EXTENDS Node

MCBlocks == {"g", "a1", "a2", "a3", "b1"}
MCParent == [b \in MCBlocks \ {"g"} |->
  CASE b = "a1" -> "g" [] b = "a2" -> "a1" [] b = "a3" -> "a2" [] b = "b1" -> "g"]
MCScore == [b \in MCBlocks |->
  CASE b = "g" -> 0 [] b = "a1" -> 1 [] b = "a2" -> 2 [] b = "a3" -> 3 [] b = "b1" -> 3]
MCRank == [b \in MCBlocks |->
  CASE b = "g" -> 0 [] b = "a1" -> 1 [] b = "a3" -> 2 [] b = "b1" -> 3 [] b = "a2" -> 4]
=============================================================================
