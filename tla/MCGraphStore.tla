---------------------------- MODULE MCGraphStore ----------------------------
\* Concurrent clients on one database.
EXTENDS GraphStoreRefinement, MCGraphCalls
=============================================================================
