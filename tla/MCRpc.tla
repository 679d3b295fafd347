------------------------------- MODULE MCRpc --------------------------------
\* Two callers, two calls and two ids, so that the second call may draw the first one's
\* id again, and up to two answers to each call.
EXTENDS Rpc
=============================================================================
