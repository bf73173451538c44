---------------------------- MODULE MCGraphRetry ----------------------------
\* One client that repeats its calls.
EXTENDS GraphStoreRetry, MCGraphCalls
=============================================================================
