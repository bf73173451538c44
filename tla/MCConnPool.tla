----------------------------- MODULE MCConnPool -----------------------------
(* Two callers under limits that are too small, just too small, and enough.  *)
EXTENDS ConnPool

One(text) == [rows |-> FALSE, text |-> text, skips |-> FALSE]
RowsOf(text, skips) == [rows |-> TRUE, text |-> text, skips |-> skips]

MCTexts == {"recent", "observations"}

\* read_graph and search_nodes; neighbors and walk; a call with a lookup or a transaction.
MCCalls == { <<RowsOf("recent", TRUE), One("-")>>,
             <<One("-"), RowsOf("-", FALSE)>>,
             <<One("-")>> }
=============================================================================
