----------------------------- MODULE Repository -----------------------------
(***************************************************************************)
(* What the goroutines that bring blocks in share: the node's repository   *)
(* (chain/repository.go), as the set of the blocks it holds.               *)
(***************************************************************************)
CONSTANTS
  Blocks,
  Genesis

VARIABLE stored
=============================================================================
