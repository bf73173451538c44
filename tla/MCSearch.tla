------------------------------ MODULE MCSearch ------------------------------
(* Local, remote and in-memory databases, and every kind of search.        *)
EXTENDS Search

MCConfigs == {[remote |-> TRUE, memory |-> FALSE, bm25 |-> TRUE],
              [remote |-> FALSE, memory |-> TRUE, bm25 |-> TRUE],
              [remote |-> FALSE, memory |-> FALSE, bm25 |-> TRUE],
              [remote |-> FALSE, memory |-> FALSE, bm25 |-> FALSE]}

\* A database that takes all of the code's statements, one without bm25, SQLite as it is,
\* and one without extensions.
MCOffers == {Feature, {"topK", "fts5", "definition"}, {"topK", "fts5", "bm25"}, {}}

\* SQLite as it is.
SQLite == {{"topK", "fts5", "bm25"}}

Ask(kind, valid, match) == [kind |-> kind, valid |-> valid, match |-> match]

MCQueries == { Ask("text", TRUE, "none"), Ask("text", TRUE, "malformed"),
               Ask("text", TRUE, "syntax"),
               Ask("vector", TRUE, "none"), Ask("vector", FALSE, "none") }
=============================================================================
