------------------------------ MODULE MCPruner ------------------------------
\* Enough blocks for two cycles of the pruner and a fork of two blocks.
EXTENDS Pruner
=============================================================================
