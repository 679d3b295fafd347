---------------------------- MODULE MCPoalChain ----------------------------
\* Three proposers, two-second slots, four slots; every hash.
EXTENDS PoalChain

MCAddrs == <<"p1", "p2", "p3">>
=============================================================================
