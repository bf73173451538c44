# A verification of mcp-memory-libsql-go

mcp-memory-libsql-go is an MCP server that keeps a knowledge graph (entities with observations, typed
relations between them, one embedding per entity) in libSQL databases, one per project. This directory holds
TLA+ models of the code that decides what the graph contains and what callers are told, the TLC runs that
check them on small instances, and TLAPS proofs of the theorems that hold for every instance. Paths are
relative to the repository; line numbers are those of the commit the models were written from.

## The system

| part | code | state | operations | how it meets the others |
|---|---|---|---|---|
| Graph mutations | `internal/database/entities_crud.go`, `relations.go`, `database.go` | the three tables of a project's database | create/update/delete entities, add/delete observations, create/update/delete relations | one goroutine per tool call; transactions of calls meet at SQLite's write lock |
| Schema | `schema.go`, `conn.go:198-221` | tables, foreign keys, AUTOINCREMENT, the delete trigger | `initialize` | the trigger does half of every entity delete |
| Connection manager | `conn.go`, `stmt_cache.go`, `database.go` (Close, PoolStats) | `dbs`, `stmtCache`, `mu`, `stmtMu`; the connections of each handle | `getDB`, `getPreparedStmt`, `Close`, `PoolStats` | every operation starts with `getDB`; the metrics ticker and `health_check` call `PoolStats` |
| Graph reads | `graph.go`, `database.go:208-304` | none; several queries per call | open, read graph, neighbors, walk, shortest path | each query sees the latest commit, so a call sees several states |
| Search | `search.go`, `capabilities.go` | capability flags per project | text, vector and hybrid search | reads; flags are shared by all calls of a project |
| Embeddings | `internal/embeddings`, `vectors.go`, `conn.go:148-157` | provider, `config.EmbeddingDims` | `Embed`, `WrapToDims`, vector codec | `getDB` rewrites the provider and the dimension when it opens a database |
| Tool server | `internal/server/server.go` | handler table, token files | one handler per tool, `ValidateProjectAuth`, `Run`, `RunSSE` | admits a call, then one DBManager operation |
| Library API | `pkg/memory` | a DBManager | thin wrappers | lets an empty project name through |
| Prompts, config, errors, metrics, entry points | the rest | constants, counters | | not modelled |

What is hard in it: calls run side by side and meet in SQLite (write lock, snapshots, foreign keys), in
`DBManager`'s mutexes and in the pool of connections of a handle; several operations look something up
before their transaction begins; batches fail in the middle; a commit on a remote server may succeed and be
reported as failed; clients send calls again; what the database offers is probed once and may be gone later;
reads are made of several queries with commits in between; the process may die at any statement.

What makes each part correct: mutations are atomic, never leave a dangling row and never reuse a row id;
every call is answered; a project has one handle, which is never lost or used after it was replaced, and
`getDB` returns; every connection comes back, and calls wait for each other for ever in known cases only; a
traversal of an unchanging graph is exact and always ends; a search takes the best method there is, and
ends; the embedding dimension in force is that of the stored column.

## Modules

| module | extends / instantiates | what it is |
|---|---|---|
| `GraphTables` | | the tables of one database and the SQL statements issued against them, as operators |
| `GraphStore` | `GraphTables` | every operation that changes the graph, step by step, by concurrent clients |
| `KnowledgeGraph` | | the abstract specification: a graph that changes by whole calls |
| `GraphStoreRefinement` | `GraphStore`, instance of `KnowledgeGraph` | the refinement mapping |
| `GraphStoreRetry` | `GraphStoreRefinement` | a history variable: the last call answered ok and the graph it left |
| `GraphStoreProofs` | `GraphStore`, `TLAPS` | lemmas on the statements; the theorems on the store |
| `GraphStoreRefinementProofs` | `GraphStoreRefinement`, `GraphStoreProofs` | the store implements `KnowledgeGraph` |
| `ConnManager` | | `getDB`, the statement cache, `PoolStats`, `Close` |
| `ConnManagerProofs` | `ConnManager`, `TLAPS` | its theorems |
| `ConnPool` | | the limited pools of connections of one project's handles, under concurrent calls and `Close` |
| `ConnPoolProofs` | `ConnPool`, `TLAPS` | its theorems |
| `GraphReads` | | one read call beside committing sessions |
| `GraphReadsProofs` | `GraphReads`, `TLAPS` | its theorems |
| `Search` | | the ways of searching, the capability flags and the fallbacks |
| `SearchProofs` | `Search`, `TLAPS` | its theorems |
| `EmbeddingDims` | | the size of embeddings across projects, opens and restarts |
| `EmbeddingDimsProofs` | `EmbeddingDims`, `TLAPS` | its types; its properties for one project |
| `ToolServer` | | what a handler does around its calls of `DBManager`: the project, its token, one or two calls, an answer |
| `ToolServerProofs` | `ToolServer`, `TLAPS` | its theorems |
| `MCGraphCalls`, `MC*` | | constants of the instances TLC checks; `MCGraphMenus` adds the choice of a menu of calls |

The definitions named "Mutant" are plausible mistakes that a property is known to catch; no specification
uses them. `PROJECT.json` maps every definition that models code to the lines it models.

### GraphTables and GraphStore

State: `db`, the committed tables of one project (sets of rows, with the two AUTOINCREMENT counters);
`writer`, the holder of SQLite's write lock; `session`, per goroutine the call it serves, its loop index,
the view of its transaction, the row count so far and its last answer.

A step is one round of a call's loop (the statements for one entity, one relation or one chunk), a `COMMIT`,
or a statement outside a transaction. Within a round the statements of one transaction are taken together:
nothing else can see them, the transaction holds the write lock or is refused it by the first of them, and
the failure of any of them rolls all of them back (`Fail`).

| action | code |
|---|---|
| `CreateEntity`, `CommitEntity`, `EndCreateEntities` | `entities_crud.go:52-177`: a transaction per entity; an empty observation (`HasEmpty`) is met only after the upsert, the delete and the observations before it, and rolls them back |
| `UpdateEntity` | `entities_crud.go:180-281`: one transaction; an update that asks for nothing takes no write lock |
| `LookupForAdd`, `AddObservations` | `database.go:307-354`: the lookup is before `BeginTx` |
| `LookupForDelete`, `DeleteEntity` | `database.go:357-385`: two statements, no transaction |
| `DeleteEntities`, `DeleteRelations` | `database.go:422-500` |
| `DeleteAllObservations`, `DeleteIdChunk`, `DeleteContentChunk` | `database.go:503-621` |
| `CreateRelation`, `UpdateRelation`, `DeleteRelation` | `relations.go:13-126`, `database.go:388-419` |
| `EmptyBatch`, `CommitBatch` | the early return and the `Commit` the batch operations share |
| `Refuse`, `Locked`, `Fault` | the error returns: the code's own and the constraints'; "database is locked"; I/O, provider, context |
| `Crash` | the process dies: sessions and lock are gone, `db` stays |

SQLite is modelled by its contract: a transaction reads a snapshot, may write only while no other holds the
lock and nothing was committed since its snapshot, and its commit makes its view the database. With
`LostAcks` a commit takes effect and is reported as an error, as a remote libSQL server's answer can be
lost. Foreign keys are a constant, because the code relies on the driver's default.

Abstracted: names, types and contents are members of a small set with a blank, a padded and plain strings,
because `TrimSpace` and the empty check decide what is refused; embeddings and timestamps are left out. The
provider call of `CreateEntities` can only fail (`Fault`).

### KnowledgeGraph and the refinement

`KnowledgeGraph` has no tables, transactions or locks: entities with a type and numbered observations, a bag
of links, and per client the call in progress. `Perform` applies a whole call, and a batch is the `Stages` of
the graph after each of its items, or nothing; `StoreNext` applies one entity of `CreateEntities`, the one
operation that is not atomic. The mapping reads the committed tables back (the rows of an entity are its
observations, their ids the order in which `getEntityObservations` lists them; links are counted); open
transactions have no image, so every statement before a commit must be a stutter. Ids are part of the graph
because `DeleteObservations` takes them from clients; what a reader sees without them is `Contents` in
`GraphStoreRetry`.

### ConnManager

`holder`, `readers` and `blocked` are `dm.mu` (a goroutine blocked in `Lock` keeps new readers out, as
`sync.RWMutex` documents); `dbs`, `stmt` and `caps` are the maps; `live` the handles open in the driver;
`call` where each goroutine is. `Lookup`, `AskLock`/`GetLock`, `FoundOnRecheck`, `RefuseEmptyName`,
`OpenHandle`, `InitializeFails`, `Publish` and `Probe` are `getDB` (`conn.go:55-165`); `CacheHit`,
`CacheMiss`, `StoreStmt` are `getPreparedStmt` (`stmt_cache.go:12-37`), three critical sections of `stmtMu`,
which is never held while another lock is wanted and so has no variable of its own; then come `PoolStats`
and the two parts of `Close` (`database.go:61-70,624-663`). `FoundOnRecheck` and `RefuseEmptyName` leave
`dm.mu` locked, as the code does.

### ConnPool

The handles of one project are numbered as they are opened: `dbs` is the one in `dm.dbs`, `made` how many
there were, and those up to `closed` are closed. `mu` is `dm.mu`: free, held by the call that opens the
project, or left locked. `outer` and `inner` say of which handle a caller holds a connection, for an open
row set and for the statement in progress; `maxOpen` is `DB_MAX_OPEN_CONNS` (`conn.go:125-128`, 0 for no
limit); `cached` the handle each text in the statement cache is prepared on; `closing` how far `Close` has
come; `call` what a call has yet to run. A call is a sequence of stages, each in a function of its own that
begins with `getDB`: `GetEntity` has two in turn, a mutation a lookup and a transaction, and the reads of
entities (`database.go:270-304`, `graph.go:26-43`, `search.go:243-278,387-418`) a row set that stays open
while `getEntityObservations` fetches the handle again (`entities_crud.go:20`) and runs a statement for
every row. So a read that `Close` overtakes opens the project anew in the middle of its rows, and two of
them may meet on the double check that returns with `dm.mu` locked.

| action | code |
|---|---|
| `GetDB`, `Lock`, `OpenProject`, `Detect` | `getDB` (`conn.go:55-165`): the look under the read lock, the one under the write lock, opening and publishing, the queries that read the size and the capabilities |
| `Lookup`, `Prepare`, `Store` | `getPreparedStmt` (`stmt_cache.go:12-37`) |
| `Take`, `TurnedAway` | `database/sql`: a connection is free, or the handle was closed |
| `Run`, `OpenRows`, `Fetch`, `EndRows` | a statement; a row set, from its query to its last row |
| `Fail`, `BreakOff` | an error: the project is not opened, the entity is skipped, or the call returns, and its deferred `Close` and `Rollback` run |
| `BeginClose`, `CloseStmt`, `EndStmts`, `CloseHandle` | `Close` (`database.go:624-651`), which waits for statements in use while it holds `stmtMu`, and then for `dm.mu` |

In single-project mode the handle is that of the default project, which `NewDBManager` opens. Read sections
of `dm.mu` wait for nothing inside and are single steps. A text that two calls prepare at once is one entry
of the cache, and the statement it displaces, which nobody closes, is forgotten. SQLite's write lock is left
out (a transaction is one statement that succeeds or fails).

### GraphReads

One call (`read`) and its statement counter `pc`; the variables of the searches (`level`, `visited`,
`depth`, `parent`); the answer (`ents`, `rels`, `path`). Each `SELECT` is a step that sees `graph` as it
then is. `Store`, `Forget`, `Link` and `Unlink` are the commits of `GraphStore` as a reader sees them, and
may come between any two statements. `ever` (links the graph had at some moment of the call) and `always`
(what it had at every moment) are history variables: they appear in no guard.

### Search

`config` is what decides about extensions (a remote server, a database in memory, `BM25_ENABLE`); `engine`
the features the database has now, with two tolerances of its FTS5 that the code's statements depend on;
`flags` the project's record in `dm.capsByProject`; `prepared` the methods whose statement is in the cache
(a cached statement is refused when it is executed and not when it is prepared, which decides whether the
code forgives it); `call` the searches in progress, each with its copy of the flags.

| action | code |
|---|---|
| `Begin`, `Refuse`, `CopyCaps` | the beginning of `SearchNodes`, `SearchSimilar`, `SearchEntities`: `search.go:175-196,281-325,451-530` |
| `SkipProbe`, `ProbeTopK`, `ProbeFTS`, `CreateIndex`, `Publish` | `detectCapabilitiesForProject` and `ensureFTSSchema` (`capabilities.go:18-63`, `database.go:167-205`), in the call that opened the handle, while others use it |
| `Found` | the statement runs |
| `NoBm25`, `NoModule`, `ThisOnce`, `NoTopK`, `NotForgiven` | the branches for a refused statement (`search.go:206-235,330-368`) |
| `ReadRows`, `ReadRelations`, `Fault` | the rest of the call |
| `DatabaseChanges` | another process rebuilds the index; the remote server is replaced by one that offers less |

A statement that was prepared is kept even when its execution is refused (`Caching`). The rows a method
finds, and how they are cut into pages, are left out: `vector_top_k` is an approximate index, entities of
equal distance or rank come in any order, so nothing exact can be said of them.

### EmbeddingDims

`disk` is the N of each database's `F32_BLOB(N)`, `config` is `dm.config.EmbeddingDims`, `provider` the
length of the provider's vectors and how many of their components still come from the model. `Open` is the
locked part of `getDB`; `AdoptConfig` and `AdoptProvider` are `conn.go:148-157`, two assignments after the
lock is released; `DetectNothing` is a `detectDBEmbeddingDims` whose queries fail (it looks at the error of
neither, `conn.go:173,191`) and which answers 0, so that nothing is adopted until the next restart;
`BeginCreate` and `Insert` are what `CreateEntities` does with vectors, with the provider's answer between
them; `Restart` starts a process with other environment variables on the same databases. `undetected` is a
history variable: the projects whose size this process could not read.

### ToolServer

`pc`, `call` and `answer` are the tool calls in flight; `file` the `.auth_token` of each project; `writing`
the token a call is about to write; `mu` and `dbs` are `dm.mu` and the names in `dm.dbs`, `opened` the names
a database was ever opened under; `config` the mode and the two environment toggles. `written` and `known`
are history variables.

A name and a project are two things: `ValidateProjectAuth` trims the name before it looks for the token file
(`database.go:109`), while the handler passes it on as it was sent (`server.go:537-543`) and `getDB` opens
`<ProjectsDir>/<name>/libsql.db` (`conn.go:77`). `Trim` is a constant, so `TokenProject` and `ProjectOf` are
what the code makes of a name; a name is taken to be one element of a path.

| action | code |
|---|---|
| `Receive`, `RefuseUnnamed` | the beginning of every handler (`server.go:529-541`), `getProjectName`, the early returns of `ValidateProjectAuth` (`database.go:99-112`) |
| `Admit`, `Refuse`, `TakeToken`, `DrawToken`, `RefuseWithoutToken` | what `os.ReadFile` finds (`database.go:117-163`) |
| `Truncate`, `Write` | `os.WriteFile`: open with `O_TRUNC`, write at the start of the file |
| `FileFault` | a failing `MkdirAll`, `ReadFile` or `WriteFile` |
| `CreateEntities` ... `ShortestPath` | the handlers (`server.go:523-1171`): their call of `DBManager`, or an answer without one |
| `Health`, `PoolStats` | `health_check` (`server.go:1053-1078`), which reads the statistics of the pools under `dm.mu` (`database.go:61-70`) |
| `GetDB`, `Lock`, `OpenProject`, `GetDBAgain` | `getDB` (`conn.go:55-147`) at the beginning of each function of `DBManager`, with the double check that leaves `dm.mu` locked |
| `Finish`, `FinishEntities` | the call of `DBManager` is over; `open_nodes` may go on to a second one (`server.go:861-875`) |
| `Crash` | the process is killed and started again |

What a call of `DBManager` does between two `getDB` is the subject of the other modules.

## What the runs check

| run | what it shows | bounds |
|---|---|---|
| `menus` | calls on entities and observations, on relations and pruning, or repeated calls: each takes effect whole or not at all and is answered accordingly (`CallsAreAtomic`, the refinement); the transaction that writes is on top of all commits (`WriterIsCurrent`); no row dangles (`RefIntegrity`), ids are handed out once (`IdsNeverReused`); repeating an answered call of the idempotent operations changes nothing (`RetryIsIdempotent`) | 2 clients, menus of 13, 16 and 9 calls, chunks of 2, faults, crashes, lost commit answers |
| `calls_end` | with a driver that does not enforce foreign keys: every call is answered (`EveryCallEnds`) and what `UpdateRelations` commits still links only what exists (`UpdatedRelationsAreLinked`) | 2 clients, 15 calls that cover every operation, one of them a batch of relinks that commits or is refused as its entities come and go, faults and crashes, fairness |
| `retry_links` | repeating `create_relations` stores it again: **finding** | 1 client |
| `handles` | `NoHandleLost`, `MapIsSound`, `MapIsGuarded`; statements on open handles are those of the project's handle (`StmtIsCurrent`) | 3 goroutines, 3 project names, 3 handles, `Close` |
| `lock_leak` | `getDB` may never return: **finding** | 2 goroutines, 1 project |
| `pool` | every connection in use belongs to a call that gives it back (`NothingLeaks`); calls are stuck only when open row sets hold the whole pool or `dm.mu` was left locked (`StuckOnRowSets`), and otherwise, with one connection more than there are calls, they end (`CallsEnd`), as `Close` does (`CloseEnds`) | 2 callers without end, limits 1 to 3, 3 kinds of call, 1 row, both modes, failures anywhere, `Close` and the handle opened after it |
| `reads` | walk, neighbors and open_nodes answer with exactly the ball around the seeds, shortest_path with a shortest path, walk stops at its limit; beside commits without end: what stayed is found, what never was is not, parts that are read apart hang together (`AnswerHangsTogether`), the call ends | all graphs on 4 names and 8 relations; beside commits 3 names, 4 relations, any number of commits |
| `search` | a search that finds its rows in a database that stays as it is has taken the best method it has and the flags allow (`AnswersByBestMethod`); the flags only fall (`FlagsOnlyFall`); every search ends (`SearchEnds`) | 2 callers without end, 4 configurations, 4 offers, 5 kinds of query, features lost at any moment |
| `search_ranked` | with SQLite's FTS5 and bm25 text is never searched by the index: **finding** | 1 caller, SQLite as it is |
| `dims_single` | one project: creates are refused only for a client's wrong size and stored vectors stay readable, unless the database's size could not be read and the environment has another (`Mismatched`); what is kept of a vector is what fits | sizes 2, 3, 4; any number of restarts and failed detections |
| `dims_projects` | two projects of different sizes: the last one opened decides for both: **finding** | sizes 2, 3, 4 |
| `admission` | first calls race to initialise a project's token: once settled it stays (`TokenKept`) and alone decides who goes on (`TokenDecides`); what may be in the file (`TokenIsWhole`); whatever name a database was opened under, its calls are judged by a file that exists (`DataHasATokenFile`); every call is answered unless `dm.mu` was left locked (`CallsAreAnswered`) | 2 calls at a time without end, all 17 tools, 4 environments, 2 projects, one of them also under a name with a space, a name of spaces, 3 tokens and none, one crash or failing file operation |

Why the bounds are enough. `MaxRows` stops new growing calls once that many rows were numbered; the calls of
a run need two or three rows to meet, and the deletes, which need no new rows, go on without bound.
`MaxParams` is 2 for the code's 500: batches of one, two, three and four items give a short chunk, a full
one, a full and a short one, and two full ones. `menus` is one run with a variable that picks a menu and
keeps it: the menus do not multiply each other's states. Two clients suffice for every conflict, since a
transaction meets only the current lock holder and the last commit. Three handles let a project be opened,
fail, be closed and be opened again while another is in use. In a graph of four names a walk of depth three
has a last round that adds something and cycles of length one to four. Three sizes make a model or client
vector shorter than, equal to and longer than the database. Two callers and limits of one, two and three
connections are the cases of `StuckOnRowSets`: one call that waits for itself, two that wait for each other,
and one connection to spare (with no limit nobody waits for a connection); one row is enough for a second
connection, and more rows repeat the round of the first; two callers meet on the double check of `getDB`, at
the first call in multi-project mode and after `Close` in either. `ConnPoolProofs` shows for the safety
properties that other limits, more callers or more rows would find nothing else. The four offers are all
features, no bm25, SQLite as it is, and none; the probes may also miss what is there. Tokens of one and of
two characters can overwrite each other wholly and in part; two calls at a time are enough for one to read
between the other's truncation and write, or to open a project while the other waits to, and calls follow
each other without bound.

Fairness. `FairSpec` of `GraphStore` has weak fairness on each client's `Work`: Go runs every goroutine that
can run, and the driver answers every statement. Failures are not part of `Work`: a call must end although
nothing obliges a statement to fail. Clients need not call. `GraphReads` has weak fairness on the read's own
steps, failures excepted, and none on the other sessions; `Search` on each caller's, while the database may
change without end. `ConnManager`'s has weak fairness on each goroutine and strong fairness on getting the
lock, which is what `RWMutex` gives (a blocked writer is woken when the readers before it leave, and readers
that wait are let in after a writer). `ConnPool` has weak fairness on each caller's progress
and strong fairness on getting a connection, on passing `dm.mu` and on `Close`: `database/sql` hands a
returned connection to one of those that wait, picked at random, so that none is passed over for ever, and
Go's mutexes go to the one that has waited longest when it waits too long; statements need not fail and
contexts need not be cancelled. `ToolServer` has weak fairness on each call, strong fairness on passing
`dm.mu`, which `getDB` and `PoolStats` need, and strong fairness on the end of a call of `DBManager`, which
fetches the handle only finitely often; waiting for connections is the subject of `ConnPool`. The
liveness properties of these two modules except the state in which `getDB` has left `dm.mu` locked
(`LeftLocked`), which is finding 1.

`CHECK_DEADLOCK FALSE` is used where the model may stop for good reason: a read that has been answered
(`GraphReads`), handles used up or the lock leaked (`ConnManager`), calls that wait for each other's
connections or at the leaked lock (`ConnPool`, where `StuckOnRowSets` says exactly when), all calls waiting
at the leaked lock (`ToolServer`).

## What is proved

All theorems hold for every value of the constants that the named assumptions allow.

`GraphStoreProofs` proves, for any clients, calls, chunk size, faults, lost answers and foreign key setting:
`TypeCorrect`, `Integrity` (`RefIntegrity`), `WriterCurrent`, `IdsFresh` and `RelinkedExist`
(`UpdatedRelationsAreLinked`). The assumptions are those of `GraphTables` and `GraphStore`: `Trim` is
idempotent and keeps the empty string, requests are well-formed. That the committed tables are sound is not
inductive: a `COMMIT` replaces them by a view. So the invariant `Inv` also says that every view is sound and
that the lock holder's view *follows* the database, that is, adds rows only under numbers never used. The
first part of the module shows once for each statement that it takes sound tables to sound tables that
follow them (for a delete this is where the trigger is needed); the second lifts that to rounds, to the two
ways of ending a transaction, and to each action. `RelinkedExist` needs one conjunct more (`RelinkInv`):
what a relinking lock holder's view has and the database has not joins entities of the view; nobody else can
change the database meanwhile, so that it is still true when the view becomes the database.

`GraphStoreRefinementProofs` proves `Atomicity`: with foreign keys enforced, `Spec => CallsAreAtomic`, for
any clients, calls, chunk size and interleaving, with faults, lost answers and crashes. It goes in three parts.
(1) The statements: a lemma `Image...` for each says that the tables it leaves, read back as a graph, are the
graph before with the effect `KnowledgeGraph` names (`ImageUpdated`, `ImageForgotten`, `ImageLinked`,
`ImagePruned` and so on); the numbering of new rows by rank meets the numbering of a list by position in
`NonBlankListed`: the store skips the positions of blank texts, the abstract graph drops them from the list.
(2) The rounds: the invariant `Sim` says of the transaction of each call how far it has brought the
graph: to which of the batch's `Stages`, or by which names and rows of the chunks so far (`PrunedSoFar`,
`UpdatedSoFar`, with the counts that are answered). `Inv` gives what the mapping needs of the tables, above
all that ids are keys (`HaveKeys`, a part of `Sound`), without which two rows would be one note. (3) The steps:
each action is a step of `KnowledgeGraph` or a stutter (the lemmas `...Simulated`); the lock holder's view
becomes the database by `COMMIT`, where `WriterIsCurrent` is what makes the call take effect on the graph of
that instant and not of its beginning. `ForeignKeys` is a hypothesis because it is needed: without the
constraint `AddObservations` can commit rows whose entity was deleted since its lookup, and
`CreateRelations`, which looks nothing up, rows that join entities nobody created; the abstract graph has no
such rows. The code relies on the driver's default here, as the run `menus` does.

`ConnManagerProofs` proves all five safety properties of `handles` for any number of goroutines, projects
and handles, in both modes, with `Close` at any time. Besides the properties its invariant says who holds
the lock at which point (`LockIsHeld`), that the handle being initialised is in no map
(`NewHandleIsPrivate`), that handle numbers in use are below the next one (`HandlesAreKnown`), and that a
goroutine about to prepare a statement has its project's handle or a closed one (`CallsAreCurrent`); the
last is what `StmtIsCurrent` needs, since the cache is filled after the lock is gone. The leaked lock does
not endanger safety, which is why these are theorems although `getDB` may hang.

`ToolServerProofs` proves the five safety properties of `admission` for any number of calls, names,
projects, tokens, environments, faults and crashes, and any `Trim` that keeps a trimmed name. Each step
leaves the files alone, is one half of `os.WriteFile`, or is a crash. The invariant says that a call past
the check, or past its truncation, has a file under the trimmed name (`PassedTheFile`; with
`CallsHaveAProject` it gives `DataHasATokenFile`, whose databases are those of the names as they were sent),
that what was settled when a call came still is (`KnownIsSettled`; it is kept because a writer's project is
by definition not settled, and it gives `TokenDecides`), and that a file is empty or holds a written token
as long as these have one length (`FileIsWhole`).

`ConnPoolProofs` proves the three safety properties of `pool` for any number of callers, any limits, any
calls and any number of rows, in both modes, with `Close` at any time and handles opened after it. The
invariant says for each point of a call which of its two connections it may hold (`NothingLeaks` is a part
of it), so that the number in use of a handle is a sum of two cardinalities below the limit, and who has
`dm.mu` (`LocksInv`): at most one handle is open, the one in the map, the lock is held by the one call that
opens the project, and it is left locked only by a call that had found the project unopened, which in
single-project mode, for the default project, is after `Close`. That a deadlock needs the leak or a full
pool of row sets is then a counting argument: nobody holds `dm.mu`, since who opens the project waits for
`stmtMu` alone and `Close`, which has that, waits for a call at a query, of which there is none while
nothing is open; so some caller asks for a connection of the open handle and there is none free; a stuck
caller holds at most the connection of its row set, so all of the limit are in row sets, and there are no
more of those than callers.

`SearchProofs` proves `AnswersByBestMethod` and `FlagsOnlyFall` for any number of callers and any databases.
The invariant (`Right`, for each caller) relates the method a search has come to with the flags it copied
and, while the database stays as it is, with what the database has; `OnTheWay` says how far it may have
fallen, and `OneProbe` that the flags are down until the one probe publishes them. `AnswersByBestMethod` is
where the chain of attempts ends.

`EmbeddingDimsProofs` proves the types in general, and for one project with `EMBEDDING_DIMS` set
(`~MultiProject`, `DimsAreSet`) `ReadsFit`, `RefusedOnlyForSize` and `KeepsWhatFits`. The hypotheses are
needed: with several projects `ReadsFit` is finding 3, and without `EMBEDDING_DIMS` every create is refused.
So is the exception both make (`Mismatched`): a process that could not read the database's size goes on with
its environment's. The invariant ties the size of the column, the configured size and the length of the
provider's vectors together, at the steps between the two assignments of `getDB` as well, where they differ,
and after a failed detection, where size and provider stay those of the environment (`AsStarted`).

`GraphReadsProofs` proves all six safety properties of `reads` on every finite set of names, for any seeds,
depth, direction and limit, beside any commits. Its invariant `ReadInv` relates the variables of a search to
two graphs that no step of the code looks at, the links there were at some moment (`ever`) and those there
were throughout (`always`). After d rounds an expansion has visited at least `Lasting(d)` and at most
`Reached(d)`, the balls of radius d in `always` and in `ever` (`GatherInv`); a link committed halfway through
enlarges the one, a deletion shrinks the other, and both keep the invariant, because a ball grows with its
links (`BallOfMore`). The shortest path search records parents: every recorded parent is one round nearer to
the start by a link that was there (`Records`), so that the walk back ends at the start and is a path
(`PathLeads`), and a node no round has visited is farther away in `always` (`SearchInv`); together that gives
`PathIsShortest`. `WalkIsBounded` (`WalkStopsAtLimit`): between two rounds a walk has not reached its limit or
has only its seeds (`BelowLimit`), and a round adds at most what the limit has left, or one entity.

Recursion. `Ball`, `PathTo`, `NonBlank` and `Stages` are recursive functions, of which TLAPS
unfolds nothing. The proofs show that the function can be built step by step (`BallExists`, `TracesExist`,
`KeptExists`, `StagesExist`) and reason about its steps. The induction they need is stated of a set of
naturals (`SetInduction`, from the least element that `WellFoundedInduction` gives), as the library's own
induction theorems take an operator, which none of the provers can instantiate. The modules that need it
prove it each.

Only model-checked: the liveness properties (`EveryCallEnds`, `ReadEnds`, `CallsAreAnswered`, `CallsEnd`,
`CloseEnds`, `SearchEnds`) and the counterexample to `GetDBReturns`, which need fairness and `ENABLED`;
`RetryIsIdempotent`, which is about the calls the instance repeats and sorts rows into lists;
the counterexamples of the findings.

## Findings

1. `lock_leak`, `conn.go:66-76`: two early returns of `getDB` leave `dm.mu` locked. Two first calls on
   one project in multi-project mode, or one with an empty name through `pkg/memory`, block every later
   call, `health_check` and `Close` included. In single-project mode `NewDBManager` opens the default
   project first; there it takes two calls that name another project, or two reads that `Close` overtook
   (`entities_crud.go:20`).
2. `retry_links`, `relations.go:44`: repeating `create_relations` stores each relation again.
3. `dims_projects`, `conn.go:151`: the size of the last database opened is used for all projects.
4. `search_ranked`, `database.go:179`: SQLite refuses the tokenizer option in the definition of
   `fts_observations`, and would refuse `bm25(f)` (`search.go:311`), which names the table by its alias. So
   text is always searched by `LIKE`, never ranked.

Also seen, without a run of their own. The limit of `Walk` (`mcp_types.go:149`, "Optional limit on entities
returned") is compared after an entity is added and only with relations' ends, so that the answer may exceed
it by the seeds and by one (`graph.go:222-226`; `WalkStopsAtLimit` is the exact bound). Two first calls with
tokens of different length may leave in the file the shorter one over the end of the longer one, a token
nobody has (`database.go:144`; `TokenIsWhole` says when that cannot be). `open_nodes` returns relations with
one end among the entities while `mcp_types.go:131` says "among"; the entities of a shortest path may be
fewer than its nodes when one is deleted meanwhile (`graph.go:322`), and with direction `in` its hops are
reported from the side they were followed; `ReadGraph` is not a snapshot; with `EMBEDDING_DIMS` unset and a
provider configured every create is refused (`provider.go:88-94`, `conn.go:149`, `entities_crud.go:63`)
though `README.md:535` says outputs are adapted; adapting twice loses components (the exact loss is
`KeepsWhatFits`). With `DB_MAX_OPEN_CONNS` (`README.md:503`) no greater than the number of reads of entities
at once, these wait for each other for ever, and with 1 a single read waits for itself (`StuckOnRowSets`).
When the size of a database cannot be read at its opening (`conn.go:173,191` ignore the errors) the
environment's stays in force, stored vectors of the database's size are refused (`vectors.go:86`) and so are
creates, though `README.md:497` says existing databases take precedence and `README.md:535` that outputs are
adapted; nothing is logged (`Mismatched`). In multi-project mode the name ` proj` passes with the token of
`proj` (`database.go:109`) and opens a database of its own in a directory without a token file
(`conn.go:77`). Two calls that miss the same text overwrite one prepared statement, which is never closed
(`stmt_cache.go:34`). In search: `HYBRID_SEARCH` is read (`conn.go:37`) and announced to clients
(`server.go:403`), but `SearchNodes` (`search.go:421-423`) does not consult the strategy it installs, so
that the hybrid one (`search.go:18-161`) is never reached; a text that FTS5 calls a syntax error is answered
with an error (`search.go:344,366`), though `README.md:422` says "On FTS parse errors (e.g., exotic syntax),
the server auto-downgrades to LIKE"; a statement refused while it is prepared is forgiven only for bm25
(`search.go:206-209,349-352` return the error), though `README.md:415` says "Text search gracefully falls
back to LIKE when FTS5 is unavailable; vector search falls back when vector_top_k is missing" (`NotForgiven`
is both); the triggers' `'delete'` command (`database.go:186,189`) is one that FTS5 takes only for tables
without content of their own, so that, were the index built, every delete of an observation would fail; a
hybrid page is fused from `limit + offset` results of each kind (`search.go:86-161`), so that pages can
repeat or skip an entity.

## Not modelled

Ranking, wording and formats; timestamps; indexes; idle and lifetime limits of connections; the HTTP clients
of the embedding providers; prompts, metrics, configuration and entry points, which keep no state that an
operation reads back; in a handler, the normalisation of limits, offsets and null lists; the hybrid
strategy, which nothing calls, and the translation of queries for FTS5 and `LIKE` (`buildFTSMatchExpr`),
which is text processing; that `Close` leaves `capsByProject` as it is; the shutdown of the tool server
(`Run`, `RunSSE`), where the process ends with its calls.

## Plan

Done, in this order because each is needed by the calls of the next: `GraphTables`, `GraphStore` and their
proofs; `KnowledgeGraph` and the refinement; `ConnManager` and its proofs; `GraphReads`; `EmbeddingDims` and
its proofs; `ToolServer` and its proofs; `ConnPool` and its proofs; `Search` and its proofs; the bound on a
walk; the other properties of reads and the refinement as theorems.

Left:

1. `ToolServer`: the shutdown of `Run` and `RunSSE` (`server.go:1174-1272`); the token file under several
   server processes; names of several path elements, which share directories.
2. `HybridRank`: fusion of the two result lists (`search.go:86-161`) as a pure algorithm against its
   definition, once `SearchNodes` reaches it.
3. Theorems: `RetryIsIdempotent` for the operations that are idempotent.
