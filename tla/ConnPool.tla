------------------------------ MODULE ConnPool ------------------------------
(***************************************************************************)
(* The database/sql pools of one project's handles, each limited by        *)
(* DB_MAX_OPEN_CONNS, under the calls that DBManager serves at once.       *)
(*                                                                         *)
(* A call runs a few statements, each in a function that fetches the       *)
(* handle with getDB first and so passes dm.mu.  Most take a connection    *)
(* and give it back.  The reads of entities do not: they keep the row set  *)
(* of the entities open, and with it a connection, while                   *)
(* getEntityObservations fetches the handle again and asks its pool for a  *)
(* second connection for every row.  Close waits for statements in use,    *)
(* with the lock of the statement cache in hand, and for dm.mu; a call     *)
(* that comes to getDB after it opens the project anew.                    *)
(*                                                                         *)
(* database/sql is modelled by its contract: a goroutine that finds no     *)
(* connection waits until one is returned, any of those waiting may be     *)
(* served next, and a handle that is closed turns the waiting ones away    *)
(* and closes connections as they come back.  The read sections of dm.mu   *)
(* wait for nothing, so they are single steps.                             *)
(***************************************************************************)
EXTENDS Integers, Sequences, FiniteSets

CONSTANTS
    Callers,      \* goroutines serving calls
    Limits,       \* values of DB_MAX_OPEN_CONNS; 0 is no limit
    Texts,        \* SQL texts that go through getPreparedStmt
    Direct,       \* a statement that does not
    ObsText,      \* the text of getEntityObservations
    Calls,        \* the calls, as sequences of stages, each with a getDB of its own
    MaxRows,      \* bound of the model: entities a read finds
    Closes        \* is Close called while calls are served?

\* rows: the row set stays open over the observations of its rows; skips: an entity
\* whose observations cannot be read is left out, and the read goes on.
Stage == [rows : BOOLEAN, text : Texts \cup {Direct}, skips : BOOLEAN]

ASSUME PoolAssumption ==
    /\ IsFiniteSet(Callers)
    /\ Limits \subseteq Nat
    /\ ObsText \in Texts /\ Direct \notin Texts
    /\ Calls \subseteq Seq(Stage) \ {<<>>}
    /\ MaxRows \in Nat
    /\ Closes \in BOOLEAN

\* Handles are numbered in the order they are opened; 0 is none.
VARIABLES
    maxOpen,      \* the limit in force
    multi,        \* multi-project mode: the project is opened by its first call
    mu,           \* dm.mu: free, held by a call that opens the project, or left locked
    dbs,          \* the handle in dm.dbs
    made,         \* the handles opened so far
    closed,       \* the handles 1..closed are closed
    outer,        \* the handle each caller's open row set has a connection of
    inner,        \* the handle each caller's statement or transaction has a connection of
    cached,       \* dm.stmtCache: the handle each text is prepared on
    closing,      \* how far Close has come; it holds stmtMu at "stmts"
    call          \* what each caller is doing, and the handle its statement is for

locks == <<mu, dbs, made, closed>>
vars == <<maxOpen, multi, locks, outer, inner, cached, closing, call>>

Idle == [todo |-> <<>>, task |-> "idle", left |-> 0, on |-> 0]

\* The variables have their types, and no handle is in use that was never opened.
TypeOK ==
    /\ maxOpen \in Limits /\ multi \in BOOLEAN
    /\ mu \in {"free", "held", "leaked"}
    /\ made \in Nat /\ dbs \in {0, made} /\ closed \in 0..made
    /\ outer \in [Callers -> 0..made] /\ inner \in [Callers -> 0..made]
    /\ cached \in [Texts -> 0..made]
    /\ closing \in {"no", "stmts", "handle", "done"}
    /\ call \in [Callers -> [todo : Seq(Stage), left : 0..MaxRows, on : 0..made,
                             task : {"idle", "getdb", "lock", "open", "detect", "lookup",
                                     "prepare", "store", "query", "fetch"}]]

\* NewDBManager opens the project in single-project mode, before any call.
Init ==
    /\ maxOpen \in Limits /\ multi \in BOOLEAN
    /\ mu = "free"
    /\ made = (IF multi THEN 0 ELSE 1) /\ dbs = made /\ closed = 0
    /\ outer = [c \in Callers |-> 0] /\ inner = [c \in Callers |-> 0]
    /\ cached = [t \in Texts |-> 0]
    /\ closing = "no"
    /\ call = [c \in Callers |-> Idle]

-----------------------------------------------------------------------------

At(c, task) == call[c].task = task
Goto(c, task) == call' = [call EXCEPT ![c].task = task]
GotoOn(c, task, h) == call' = [call EXCEPT ![c].task = task, ![c].on = h]

\* On to the next function that calls getDB, or to the next row.
Fresh(c, task, todo, left) ==
    call' = [call EXCEPT ![c] = [todo |-> todo, task |-> task, left |-> left, on |-> 0]]

Return(c) == call' = [call EXCEPT ![c] = Idle]

Observations == [rows |-> FALSE, text |-> ObsText, skips |-> FALSE]

HasRows(c) == outer[c] # 0

\* The statement c runs: of the observations while a row set is open.
Stmt(c) == IF HasRows(c) THEN Observations ELSE Head(call[c].todo)

RowSets(h) == {c \in Callers : outer[c] = h}
InUse(h) == Cardinality(RowSets(h)) + Cardinality({c \in Callers : inner[c] = h})

Free(h) == maxOpen = 0 \/ InUse(h) < maxOpen

Closed(h) == h <= closed

\* c is in db.PrepareContext, stmt.QueryContext or db.QueryRow and has no connection
\* for it yet.
Asks(c) == call[c].task \in {"prepare", "query", "detect"} /\ inner[c] = 0

StmtsLocked == closing = "stmts"

\* The statement c was on is over.
NextStage(c) ==
    LET rest == Tail(call[c].todo)
    IN  IF rest = <<>> THEN Return(c) ELSE Fresh(c, "getdb", rest, 0)

-----------------------------------------------------------------------------
(* getDB *)

Invoke(c) ==
    /\ At(c, "idle")
    /\ \E stages \in Calls : Fresh(c, "getdb", stages, 0)
    /\ UNCHANGED <<maxOpen, multi, locks, outer, inner, cached, closing>>

\* Under the read lock.
GetDB(c) ==
    /\ At(c, "getdb")
    /\ mu = "free"
    /\ GotoOn(c, IF dbs = 0 THEN "lock" ELSE "lookup", dbs)
    /\ UNCHANGED <<maxOpen, multi, locks, outer, inner, cached, closing>>

\* Under the write lock.  If the project was opened meanwhile, the second look returns
\* with dm.mu locked.
Lock(c) ==
    /\ At(c, "lock")
    /\ mu = "free"
    /\ mu' = IF dbs = 0 THEN "held" ELSE "leaked"
    /\ GotoOn(c, IF dbs = 0 THEN "open" ELSE "lookup", dbs)
    /\ UNCHANGED <<maxOpen, multi, dbs, made, closed, outer, inner, cached, closing>>

\* The schema is laid; the handle is published under stmtMu.
OpenProject(c) ==
    /\ At(c, "open")
    /\ ~StmtsLocked
    /\ made' = made + 1 /\ dbs' = made'
    /\ mu' = "free"
    /\ GotoOn(c, "detect", made')
    /\ UNCHANGED <<maxOpen, multi, closed, outer, inner, cached, closing>>

\* The size of the embeddings and the capabilities are read from the new handle.
Detect(c) ==
    /\ At(c, "detect") /\ inner[c] # 0
    /\ inner' = [inner EXCEPT ![c] = 0]
    /\ Goto(c, "lookup")
    /\ UNCHANGED <<maxOpen, multi, locks, outer, cached, closing>>

-----------------------------------------------------------------------------
(* a statement *)

\* getPreparedStmt looks in the cache, where it may find a statement of another
\* handle; a direct query does not.
Lookup(c) ==
    LET t == Stmt(c).text
    IN  /\ At(c, "lookup")
        /\ \/ t = Direct /\ Goto(c, "query")
           \/ /\ t # Direct /\ ~StmtsLocked
              /\ IF cached[t] = 0 THEN Goto(c, "prepare") ELSE GotoOn(c, "query", cached[t])
        /\ UNCHANGED <<maxOpen, multi, locks, outer, inner, cached, closing>>

Take(c) ==
    /\ Asks(c)
    /\ Free(call[c].on) /\ ~Closed(call[c].on)
    /\ inner' = [inner EXCEPT ![c] = call[c].on]
    /\ UNCHANGED <<maxOpen, multi, locks, outer, cached, closing, call>>

Prepare(c) ==
    /\ At(c, "prepare") /\ inner[c] # 0
    /\ inner' = [inner EXCEPT ![c] = 0]
    /\ Goto(c, "store")
    /\ UNCHANGED <<maxOpen, multi, locks, outer, cached, closing>>

\* Mutant: Lock with the read lock still in hand.
StoreUpgrading(c) == At(c, "store") /\ UNCHANGED vars

\* Under stmtMu; the connection has gone back to the pool.
Store(c) ==
    /\ At(c, "store")
    /\ ~StmtsLocked
    /\ cached' = [cached EXCEPT ![Stmt(c).text] = call[c].on]
    /\ Goto(c, "query")
    /\ UNCHANGED <<maxOpen, multi, locks, outer, inner, closing>>

\* A statement that is read to its end at once, or a transaction.
Run(c) ==
    /\ At(c, "query") /\ inner[c] # 0 /\ ~Stmt(c).rows
    /\ inner' = [inner EXCEPT ![c] = 0]
    /\ IF HasRows(c) THEN Fresh(c, "fetch", call[c].todo, call[c].left) ELSE NextStage(c)
    /\ UNCHANGED <<maxOpen, multi, locks, outer, cached, closing>>

\* The rows of the entities: their row set takes the connection over.
OpenRows(c) ==
    /\ At(c, "query") /\ inner[c] # 0 /\ Stmt(c).rows
    /\ inner' = [inner EXCEPT ![c] = 0]
    /\ outer' = [outer EXCEPT ![c] = inner[c]]
    /\ \E n \in 0..MaxRows : Fresh(c, "fetch", call[c].todo, n)
    /\ UNCHANGED <<maxOpen, multi, locks, cached, closing>>

\* Mutant: one row too many.
FetchPast(c) ==
    /\ At(c, "fetch")
    /\ Fresh(c, "getdb", call[c].todo, call[c].left - 1)
    /\ UNCHANGED <<maxOpen, multi, locks, outer, inner, cached, closing>>

Fetch(c) ==
    /\ At(c, "fetch")
    /\ call[c].left > 0
    /\ Fresh(c, "getdb", call[c].todo, call[c].left - 1)
    /\ UNCHANGED <<maxOpen, multi, locks, outer, inner, cached, closing>>

\* rows.Next, at the end, closes the row set.
EndRows(c) ==
    /\ At(c, "fetch")
    /\ call[c].left = 0
    /\ outer' = [outer EXCEPT ![c] = 0]
    /\ NextStage(c)
    /\ UNCHANGED <<maxOpen, multi, locks, inner, cached, closing>>

Skips(c) == HasRows(c) /\ Head(call[c].todo).skips

\* Mutant: an error return without rows.Close.
GiveUpOpen(c) ==
    /\ inner' = [inner EXCEPT ![c] = 0]
    /\ mu' = IF At(c, "open") THEN "free" ELSE mu
    /\ IF At(c, "detect") THEN Goto(c, "lookup")
       ELSE IF Skips(c) THEN Fresh(c, "fetch", call[c].todo, call[c].left)
       ELSE Return(c)
    /\ UNCHANGED <<maxOpen, multi, dbs, made, closed, outer, cached, closing>>

\* Mutant: the error returns of getDB without dm.mu.Unlock.
GiveUpHolding(c) ==
    /\ inner' = [inner EXCEPT ![c] = 0]
    /\ IF At(c, "detect") THEN Goto(c, "lookup") /\ UNCHANGED outer
       ELSE IF Skips(c) THEN Fresh(c, "fetch", call[c].todo, call[c].left) /\ UNCHANGED outer
       ELSE Return(c) /\ outer' = [outer EXCEPT ![c] = 0]
    /\ UNCHANGED <<maxOpen, multi, locks, cached, closing>>

\* An error.  What is detected is left unknown; the entity is skipped; or the call
\* returns the error, and its deferred rows.Close and Rollback give the connections back.
GiveUp(c) ==
    /\ inner' = [inner EXCEPT ![c] = 0]
    /\ mu' = IF At(c, "open") THEN "free" ELSE mu
    /\ IF At(c, "detect") THEN Goto(c, "lookup") /\ UNCHANGED outer
       ELSE IF Skips(c) THEN Fresh(c, "fetch", call[c].todo, call[c].left) /\ UNCHANGED outer
       ELSE Return(c) /\ outer' = [outer EXCEPT ![c] = 0]
    /\ UNCHANGED <<maxOpen, multi, dbs, made, closed, cached, closing>>

\* The project cannot be initialized, a statement fails, or the caller's context is
\* cancelled, also while it waits for a connection.
Fail(c) == call[c].task \in {"open", "detect", "prepare", "query"} /\ GiveUp(c)

\* rows.Err: the row set breaks off, and the call with it.
BreakOff(c) ==
    /\ At(c, "fetch")
    /\ outer' = [outer EXCEPT ![c] = 0]
    /\ Return(c)
    /\ UNCHANGED <<maxOpen, multi, locks, inner, cached, closing>>

\* The handle is closed: conn() returns an error.
TurnedAway(c) == Asks(c) /\ Closed(call[c].on) /\ GiveUp(c)

-----------------------------------------------------------------------------
(* Close *)

BeginClose ==
    /\ Closes
    /\ closing = "no"
    /\ closing' = "stmts"
    /\ UNCHANGED <<maxOpen, multi, locks, outer, inner, cached, call>>

\* Some call is inside stmt.QueryContext with the statement cached for t.
InQuery(t) ==
    \E c \in Callers : At(c, "query") /\ Stmt(c).text = t /\ call[c].on = cached[t]

\* stmt.Close waits for the calls inside stmt.QueryContext, those waiting for a
\* connection included.
CloseStmt(t) ==
    /\ StmtsLocked
    /\ cached[t] # 0
    /\ ~InQuery(t)
    /\ cached' = [cached EXCEPT ![t] = 0]
    /\ UNCHANGED <<maxOpen, multi, locks, outer, inner, closing, call>>

\* Mutant: the loop over the cache returns without unlocking stmtMu.
EndStmtsLocked == StmtsLocked /\ UNCHANGED vars

EndStmts ==
    /\ StmtsLocked
    /\ \A t \in Texts : cached[t] = 0
    /\ closing' = "handle"
    /\ UNCHANGED <<maxOpen, multi, locks, outer, inner, cached, call>>

CloseHandle ==
    /\ closing = "handle"
    /\ mu = "free"
    /\ closing' = "done"
    /\ dbs' = 0 /\ closed' = made
    /\ UNCHANGED <<maxOpen, multi, mu, made, outer, inner, cached, call>>

-----------------------------------------------------------------------------

Progress(c) ==
    \/ OpenProject(c) \/ Detect(c)
    \/ Lookup(c) \/ Prepare(c) \/ Store(c) \/ Run(c) \/ OpenRows(c) \/ Fetch(c)
    \/ EndRows(c) \/ TurnedAway(c)

\* The steps that wait for what others have: a connection, or dm.mu.
Get(c) == Take(c) \/ GetDB(c) \/ Lock(c)

CloseStep == EndStmts \/ CloseHandle \/ \E t \in Texts : CloseStmt(t)

Next ==
    \/ \E c \in Callers : Invoke(c) \/ Get(c) \/ Progress(c) \/ Fail(c) \/ BreakOff(c)
    \/ BeginClose \/ CloseStep

Spec == Init /\ [][Next]_vars

\* Goroutines run and SQLite answers.  A returned connection goes to one of the
\* waiting goroutines, picked at random, and a mutex that starves a goroutine is
\* handed to it, so none is passed over for ever.  Nothing obliges a statement to
\* fail, a caller to call or Close to be called.
FairSpec ==
    /\ Spec
    /\ \A c \in Callers : WF_vars(Progress(c)) /\ SF_vars(Get(c))
    /\ SF_vars(CloseStep)

-----------------------------------------------------------------------------
(* properties *)

\* Every connection in use has a call that will give it back: an idle caller, and one
\* between two statements, holds none, on every error path and over Close and a new
\* handle; and never more than the limit are in use.  (The deferred rows.Close and
\* Rollback; conn.go:126.)
NothingLeaks ==
    /\ \A c \in Callers :
          /\ inner[c] # 0 => call[c].task \in {"prepare", "query", "detect"}
          /\ HasRows(c) => ~At(c, "idle") /\ Head(call[c].todo).rows
    /\ \A h \in 1..made : maxOpen > 0 => InUse(h) <= maxOpen

\* One connection more than there are calls at once is enough.
Roomy == maxOpen = 0 \/ maxOpen > Cardinality(Callers)

\* dm.mu was left locked by getDB: every later getDB waits for ever.
LeftLocked == mu = "leaked"

CanStep(c) ==
    \/ inner[c] # 0
    \/ At(c, "fetch")
    \/ call[c].task \in {"getdb", "lock"} /\ mu = "free"
    \/ At(c, "lookup") /\ Stmt(c).text = Direct
    \/ call[c].task \in {"open", "lookup", "store"} /\ ~StmtsLocked
    \/ Asks(c) /\ (Free(call[c].on) \/ Closed(call[c].on))

CloseCanStep ==
    \/ StmtsLocked /\ ((\A t \in Texts : cached[t] = 0)
                       \/ \E t \in Texts : cached[t] # 0 /\ ~InQuery(t))
    \/ closing = "handle" /\ mu = "free"

\* Some callers are not done, and neither they nor Close can go on.
Stuck ==
    /\ \E c \in Callers : ~At(c, "idle")
    /\ \A c \in Callers : ~At(c, "idle") => ~CanStep(c)
    /\ ~CloseCanStep

\* Calls and Close wait for each other for ever only when getDB has left dm.mu locked,
\* or every connection of the project's handle is held by the open row set of a call
\* that waits for a second one.  A roomy pool excludes the second; single-project mode,
\* whose default project is open from the start, the first, until Close.
StuckOnRowSets ==
    /\ LeftLocked => multi \/ closing = "done"
    /\ Stuck => \/ LeftLocked
                \/ /\ ~Roomy
                   /\ \A c \in Callers : inner[c] = 0
                   /\ dbs # 0 /\ Cardinality(RowSets(dbs)) = maxOpen

\* With a roomy pool, and unless dm.mu is left locked, every call ends, and so does Close.
CallsEnd == Roomy => \A c \in Callers : ~At(c, "idle") ~> At(c, "idle") \/ LeftLocked
CloseEnds == Roomy => (closing = "stmts" ~> closing = "done" \/ LeftLocked)

=============================================================================
