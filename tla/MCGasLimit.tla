---------------------------- MODULE MCGasLimit ------------------------------
\* A word of 40 values, with targets below the floor and at both ends of it.
EXTENDS GasLimit

MCTargets == {0, 1, 5, 13, 39, 40}
MCSpeeds == {0, 9, 30, 40}
=============================================================================
