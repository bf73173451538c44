--------------------------- MODULE MCConnManager ---------------------------
\* Two or three goroutines on one to three projects.
EXTENDS ConnManager, TLC

\* Goroutines are interchangeable: used by the runs without liveness.
Symmetry == Permutations(Goroutines)

=============================================================================
