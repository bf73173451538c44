--------------------------- MODULE MCEmbeddingDims ---------------------------
(* Sizes 2, 3 and 4 for a small, a middling and a large model or database.   *)
EXTENDS EmbeddingDims

Explicit == [dims : Sizes, native : {0, 2, 4}]
NoModel == [dims : {2, 4}, native : {0}]
===============================================================================
