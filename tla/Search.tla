------------------------------- MODULE Search -------------------------------
(***************************************************************************)
(* SearchNodes of one project: which way of searching a call takes.  Text  *)
(* is searched in the FTS5 index, ranked by bm25 or by name, or with LIKE; *)
(* vectors through the index (vector_top_k) or by a scan.  What the        *)
(* database offers is probed once, by the call that opens the handle and   *)
(* while other calls already use it, and kept in dm.capsByProject; a call  *)
(* that finds a feature gone falls back.  The rows found and their pages   *)
(* are left out: vector_top_k is approximate, and rows of equal distance   *)
(* or rank come in any order.                                              *)
(*                                                                         *)
(* The graph does not change here (GraphReads has the commits of other     *)
(* sessions).  The database is modelled by its contract: a statement on    *)
(* something that is not there is refused, when it is prepared by a local  *)
(* file and when it is executed by a remote server or a cached statement.  *)
(***************************************************************************)
EXTENDS Integers

CONSTANTS
    Callers,     \* goroutines that search
    Configs,     \* [remote, memory, bm25: BOOLEAN]: config.URL and BM25_ENABLE
    Offers,      \* what the database may offer when it is opened: subsets of Feature
    Queries,     \* the searches
    Timeouts     \* BOOLEAN: may a probe run out of its half second, or fail otherwise?

\* match is how MATCH takes a text: it reads it, finds an unknown column or a malformed
\* expression in it, or reports a syntax error of FTS5.
Query == [kind : {"text", "vector"}, valid : BOOLEAN,
          match : {"none", "malformed", "syntax"}]

\* What a database may have.  "definition" and "alias" are two tolerances of its FTS5:
\* that it takes the options in ensureFTSSchema's tokenize = '...' as they are written,
\* and that bm25() takes the alias of the table for its name.  SQLite's takes neither.
Feature == {"topK", "fts5", "definition", "bm25", "alias", "table"}
Method == {"bm25", "byName", "like", "topK", "exact"}

ASSUME SearchAssumption ==
    /\ Configs \subseteq [remote : BOOLEAN, memory : BOOLEAN, bm25 : BOOLEAN]
    /\ Offers \subseteq SUBSET Feature
    /\ Queries \subseteq Query
    /\ Timeouts \in BOOLEAN

VARIABLES
    config,
    engine,      \* the features the database has now
    opened,      \* has a call opened the handle?
    flags,       \* dm.capsByProject
    prepared,    \* the methods whose statement is in dm.stmtCache, where that matters
    call         \* what each caller is doing

vars == <<config, engine, opened, flags, prepared, call>>

CapFlags == [checked : BOOLEAN, topK : BOOLEAN, fts : BOOLEAN]
NoFlags == [checked |-> FALSE, topK |-> FALSE, fts |-> FALSE]

\* caps is the caller's copy of the flags.
\* History: steady, has the database stayed as it was since the flags were copied?
NoQuery == [kind |-> "text", valid |-> FALSE, match |-> "none"]
Searching(pc, query, caps, method) ==
    [pc |-> pc, query |-> query, caps |-> caps, method |-> method, steady |-> TRUE]
Idle == Searching("idle", NoQuery, NoFlags, "like")

\* Callers, flags and features keep their types.
TypeOK ==
    /\ config \in Configs
    /\ engine \subseteq Feature
    /\ opened \in BOOLEAN
    /\ flags \in CapFlags
    /\ prepared \subseteq Method
    /\ call \in [Callers ->
          [pc : {"idle", "probeTopK", "probeFTS", "create", "publish", "caps", "try",
                 "rows", "relations"},
           query : Queries \cup {NoQuery}, caps : CapFlags, method : Method,
           steady : BOOLEAN]]

Init ==
    /\ config \in Configs /\ engine \in Offers
    /\ opened = FALSE
    /\ flags = NoFlags
    /\ prepared = {}
    /\ call = [c \in Callers |-> Idle]

-----------------------------------------------------------------------------

At(c, pc) == call[c].pc = pc
Becomes(c, state) == call' = [call EXCEPT ![c] = state]
Goto(c, pc) == Becomes(c, [call[c] EXCEPT !.pc = pc])
FallsTo(c, m) == Becomes(c, [call[c] EXCEPT !.method = m])
Answer(c) == Becomes(c, Idle)

\* A search begins; the first of all opens the handle.
Begin(c) ==
    /\ At(c, "idle")
    /\ \E q \in Queries :
          Becomes(c, Searching(IF opened THEN "caps" ELSE "probeTopK", q, NoFlags, "like"))
    /\ opened' = TRUE
    /\ UNCHANGED <<config, engine, flags, prepared>>

\* A vector of the wrong size is refused.  (An empty query never gets this far.)
Refuse(c) ==
    /\ At(c, "caps") /\ ~call[c].query.valid
    /\ Answer(c)
    /\ UNCHANGED <<config, engine, opened, flags, prepared>>

-----------------------------------------------------------------------------
(* detectCapabilitiesForProject: outside dm.mu, the handle is public        *)

\* A probe may miss a feature that is there.
Seen(f) == IF f \notin engine THEN {FALSE} ELSE IF Timeouts THEN BOOLEAN ELSE {TRUE}

\* A database in memory is not probed.
SkipProbe(c) ==
    /\ At(c, "probeTopK") /\ config.memory
    /\ flags' = [checked |-> TRUE, topK |-> FALSE, fts |-> flags.fts]
    /\ Goto(c, "caps")
    /\ UNCHANGED <<config, engine, opened, prepared>>

ProbeTopK(c) ==
    /\ At(c, "probeTopK") /\ ~config.memory
    /\ \E seen \in Seen("topK") :
          Becomes(c, Searching("probeFTS", call[c].query, [NoFlags EXCEPT !.topK = seen], "like"))
    /\ UNCHANGED <<config, engine, opened, flags, prepared>>

\* With the module there, ensureFTSSchema drops the index ...
ProbeFTS(c) ==
    /\ At(c, "probeFTS")
    /\ \E seen \in Seen("fts5") :
          /\ Goto(c, IF seen THEN "create" ELSE "publish")
          /\ engine' = IF seen THEN engine \ {"table"} ELSE engine
    /\ UNCHANGED <<config, opened, flags, prepared>>

\* ... and builds it again, if the engine takes its definition; the flag tells whether it
\* is there in the end.
CreateIndex(c) ==
    /\ At(c, "create")
    /\ \E built \in Seen("definition") :
          engine' = IF built THEN engine \cup {"table"} ELSE engine
    /\ LET caps == [call[c].caps EXCEPT !.fts = "table" \in engine']
       IN  Becomes(c, Searching("publish", call[c].query, caps, "like"))
    /\ UNCHANGED <<config, opened, flags, prepared>>

Publish(c) ==
    /\ At(c, "publish")
    /\ flags' = [call[c].caps EXCEPT !.checked = TRUE]
    /\ Goto(c, "caps")
    /\ UNCHANGED <<config, engine, opened, prepared>>

-----------------------------------------------------------------------------
(* the choice of a method *)

TextMethod == IF config.bm25 THEN "bm25" ELSE "byName"

CopyCaps(c) ==
    /\ At(c, "caps") /\ call[c].query.valid
    /\ LET m == IF call[c].query.kind = "text" THEN (IF flags.fts THEN TextMethod ELSE "like")
                ELSE (IF flags.topK THEN "topK" ELSE "exact")
       IN  Becomes(c, Searching("try", call[c].query, flags, m))
    /\ UNCHANGED <<config, engine, opened, flags, prepared>>

-----------------------------------------------------------------------------
(* a statement, refused or not *)

\* What a statement is refused for, in SQLite's words, or "none".
ErrorOf(m, q) ==
    CASE m = "topK" /\ "topK" \notin engine -> "no topK"
      [] m \in {"bm25", "byName"} /\ "table" \notin engine -> "no table"
      [] m \in {"bm25", "byName"} /\ "table" \in engine /\ "fts5" \notin engine -> "no module"
      [] m = "bm25" /\ {"table", "fts5"} \subseteq engine /\ "bm25" \notin engine -> "no bm25"
      [] m = "bm25" /\ {"table", "fts5", "bm25"} \subseteq engine /\ "alias" \notin engine
            -> "no column"
      [] OTHER -> IF m \in {"bm25", "byName"} THEN q.match ELSE "none"

\* A local file refuses a statement when it is prepared; a remote server, or a statement
\* prepared before, when it is executed, where the text of MATCH is read.
AtPrepare(m, error) ==
    ~config.remote /\ m \notin prepared /\ error \notin {"none", "malformed", "syntax"}

\* A statement that was prepared is kept, whatever becomes of its execution.
Caching(m, error) ==
    prepared' = IF config.remote \/ AtPrepare(m, error) THEN prepared
                ELSE prepared \cup ({m} \ {"like", "exact"})

\* The errors that are answered with another method; only for bm25 also while preparing.
Forgiven(m, error) ==
    /\ error \notin {"none", "syntax"}
    /\ m = "bm25" \/ (m \in {"byName", "topK"} /\ ~AtPrepare(m, error))

Meets(c, error) == At(c, "try") /\ error = ErrorOf(call[c].method, call[c].query)

\* The statement runs.
Found(c) ==
    /\ Meets(c, "none")
    /\ Caching(call[c].method, "none")
    /\ Goto(c, "rows")
    /\ UNCHANGED <<config, engine, opened, flags>>

\* Mutant: without bm25 the index is given up.
NoBm25Like(c) ==
    /\ Meets(c, "no bm25")
    /\ FallsTo(c, "like")
    /\ UNCHANGED <<config, engine, opened, flags, prepared>>

\* "no such function: bm25": the same search ordered by name.
NoBm25(c) ==
    /\ Meets(c, "no bm25")
    /\ FallsTo(c, "byName")
    /\ UNCHANGED <<config, engine, opened, flags, prepared>>

\* Mutant: the search is tried once more as it was.
NoModuleAgain(c) ==
    /\ Meets(c, "no module") /\ Forgiven(call[c].method, "no module")
    /\ UNCHANGED vars

\* Mutant: the caller's own copy of the flags is written back.
NoModuleStale(c) ==
    /\ Meets(c, "no module") /\ Forgiven(call[c].method, "no module")
    /\ flags' = [call[c].caps EXCEPT !.fts = FALSE]
    /\ FallsTo(c, "like")
    /\ UNCHANGED <<config, engine, opened, prepared>>

\* "no such module: fts5": LIKE, from now on.
NoModule(c) ==
    /\ Meets(c, "no module") /\ Forgiven(call[c].method, "no module")
    /\ flags' = [flags EXCEPT !.fts = FALSE]
    /\ FallsTo(c, "like")
    /\ UNCHANGED <<config, engine, opened, prepared>>

\* The index is gone, bm25 was given an alias, or MATCH cannot read the text: LIKE this once.
ThisOnce(c) ==
    LET m == call[c].method
        error == ErrorOf(m, call[c].query)
    IN /\ At(c, "try") /\ error \in {"no table", "no column", "malformed"} /\ Forgiven(m, error)
       /\ Caching(m, error)
       /\ FallsTo(c, "like")
       /\ UNCHANGED <<config, engine, opened, flags>>

\* "no such function: vector_top_k": the scan, from now on.
NoTopK(c) ==
    /\ Meets(c, "no topK") /\ Forgiven("topK", "no topK")
    /\ flags' = [flags EXCEPT !.topK = FALSE]
    /\ FallsTo(c, "exact")
    /\ UNCHANGED <<config, engine, opened, prepared>>

\* Any other refusal is the answer.
NotForgiven(c) ==
    LET m == call[c].method
        error == ErrorOf(m, call[c].query)
    IN /\ At(c, "try") /\ error # "none" /\ ~Forgiven(m, error)
       /\ Caching(m, error)
       /\ Answer(c)
       /\ UNCHANGED <<config, engine, opened, flags>>

-----------------------------------------------------------------------------
(* the answer *)

\* The rows become entities; those whose observations cannot be read are left out, as in
\* GraphReads, and what is known of the search is no longer needed.
ReadRows(c) ==
    /\ At(c, "rows")
    /\ Becomes(c, [Idle EXCEPT !.pc = "relations"])
    /\ UNCHANGED <<config, engine, opened, flags, prepared>>

ReadRelations(c) ==
    /\ At(c, "relations")
    /\ Answer(c)
    /\ UNCHANGED <<config, engine, opened, flags, prepared>>

\* Any statement may fail for another reason, and the search with it: while it is prepared
\* or when it is.
Fault(c) ==
    /\ call[c].pc \in {"try", "rows", "relations"}
    /\ Answer(c)
    /\ \/ At(c, "try") /\ Caching(call[c].method, ErrorOf(call[c].method, call[c].query))
       \/ UNCHANGED prepared
    /\ UNCHANGED <<config, engine, opened, flags>>

\* Another process on the same file runs its own ensureFTSSchema, or the remote server
\* is replaced by one that offers less.
DatabaseChanges ==
    /\ \/ engine' = engine \ {"table"}
       \/ "definition" \in engine /\ engine' = engine \cup {"table"}
       \/ config.remote /\ \E offer \in Offers : engine' = engine \cap (offer \cup {"table"})
    /\ engine' # engine
    /\ call' = [c \in Callers |-> [call[c] EXCEPT !.steady = call[c].pc \notin {"try", "rows"}]]
    /\ UNCHANGED <<config, opened, flags, prepared>>

-----------------------------------------------------------------------------

Work(c) ==
    \/ Refuse(c) \/ SkipProbe(c) \/ ProbeTopK(c) \/ ProbeFTS(c) \/ CreateIndex(c) \/ Publish(c)
    \/ CopyCaps(c) \/ Found(c) \/ NoBm25(c) \/ NoModule(c) \/ ThisOnce(c) \/ NoTopK(c)
    \/ NotForgiven(c) \/ ReadRows(c) \/ ReadRelations(c)

Next == DatabaseChanges \/ \E c \in Callers : Begin(c) \/ Work(c) \/ Fault(c)

Spec == Init /\ [][Next]_vars

\* Every statement returns or fails.
FairSpec == Spec /\ \A c \in Callers : WF_vars(Work(c))

-----------------------------------------------------------------------------
(* properties *)

\* The best method for a search k, of those its flags allow and the database has; a text
\* that MATCH or bm25 trips over is searched with LIKE.
Best(k) ==
    IF k.query.kind = "vector" THEN (IF k.caps.topK /\ "topK" \in engine THEN "topK" ELSE "exact")
    ELSE IF ~(k.caps.fts /\ k.query.match = "none" /\ {"table", "fts5"} \subseteq engine) THEN "like"
    ELSE IF ~config.bm25 \/ "bm25" \notin engine THEN "byName"
    ELSE IF "alias" \in engine THEN "bm25" ELSE "like"

\* A search that finds its rows in a database that stays as it is has taken the best way
\* it offers and the flags allow: the chain of attempts has not fallen too far.
\* (Where NotForgiven answers with an error instead, a method was left in most cases.)
AnswersByBestMethod ==
    \A c \in Callers : At(c, "rows") /\ call[c].steady => call[c].method = Best(call[c])

\* Flags are raised by the one probe alone; afterwards they only fall, although several
\* calls turn them off at once, each from a copy of its own.
FlagsOnlyFall ==
    [][ /\ flags.checked => flags'.checked /\ (flags'.fts => flags.fts) /\ (flags'.topK => flags.topK)
        /\ ~flags.checked /\ (flags'.fts \/ flags'.topK) => flags'.checked ]_vars

\* Every search is answered, whatever the database loses meanwhile.
SearchEnds == \A c \in Callers : ~At(c, "idle") ~> At(c, "idle")

\* README.md:417 and 423: text goes to the index first, and is ranked by bm25 where the
\* database has the function.
TextIsRankedByBM25 ==
    \A c \in Callers :
        /\ At(c, "rows") /\ call[c].steady
        /\ call[c].query.kind = "text" /\ call[c].query.match = "none"
        /\ config.bm25 /\ ~config.memory /\ {"fts5", "bm25"} \subseteq engine
        => call[c].method = "bm25"

=============================================================================
