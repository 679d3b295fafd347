---------------------------- MODULE MCAuthority ----------------------------
\* Four node masters, one endorsor: lists of every shape up to length four.
EXTENDS Authority
=============================================================================
