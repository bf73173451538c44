---------------------------- MODULE ConnManager ----------------------------
(***************************************************************************)
(* DBManager's map of database handles, one per project, opened on first   *)
(* use under dm.mu; the capability record and the cached statement of each *)
(* project; Close and PoolStats.  A goroutine serves one call at a time:   *)
(* getDB, then getPreparedStmt, then the query.  sync.RWMutex as Go        *)
(* documents it: a goroutine blocked in Lock keeps new readers out.        *)
(***************************************************************************)
EXTENDS Integers

CONSTANTS
    Goroutines,
    Projects,        \* project names the calls carry
    EmptyName,       \* "", which the library API lets through
    DefaultProject,
    None,
    MultiProject,    \* config.MultiProjectMode
    Closes,          \* is Close called while calls are served?
    MaxHandles       \* bound of the model: handles opened in a run

ASSUME NoneAssumption == None \notin Goroutines \cup Projects \cup Nat
ASSUME ModeAssumption ==
    /\ MultiProject \in BOOLEAN /\ Closes \in BOOLEAN /\ MaxHandles \in Nat \ {0}
    /\ ~MultiProject => DefaultProject \in Projects

VARIABLES
    holder,      \* the goroutine that holds dm.mu for writing
    readers,     \* the goroutines that hold it for reading
    blocked,     \* the goroutines waiting in Lock
    dbs,         \* dm.dbs: the handle of each project
    opened,      \* number of handles opened so far; a handle is its number
    live,        \* the handles that are open
    caps,        \* the projects whose capabilities have been probed
    stmt,        \* dm.stmtCache: the handle each project's statement was prepared on
    call         \* per goroutine: where it is, its project, its handle

mutex == <<holder, readers, blocked>>
vars == <<mutex, dbs, opened, live, caps, stmt, call>>

Handle == 1..MaxHandles

Idle == [pc |-> "idle", project |-> None, handle |-> None]

\* The lock, the maps and the goroutines keep their types, and no goroutine goes on
\* to a statement without a handle.
TypeOK ==
    /\ holder \in Goroutines \cup {None}
    /\ readers \subseteq Goroutines /\ blocked \subseteq Goroutines
    /\ dbs \in [Projects -> Handle \cup {None}]
    /\ opened \in 0..MaxHandles /\ live \subseteq Handle
    /\ caps \subseteq Projects
    /\ stmt \in [Projects -> Handle \cup {None}]
    /\ call \in [Goroutines ->
                    [pc : {"idle", "lookup", "lock", "waiting", "recheck", "init", "probe",
                           "prepare", "store", "query", "stats", "closing", "closewait", "close"},
                     project : Projects \cup {None}, handle : Handle \cup {None}]]
    /\ \A g \in Goroutines :
            call[g].pc \in {"init", "probe", "prepare", "store", "query"} => call[g].handle # None

\* NewDBManager opens the default project unless in multi-project mode.
Init ==
    /\ holder = None /\ readers = {} /\ blocked = {}
    /\ opened = IF MultiProject THEN 0 ELSE 1
    /\ dbs = [p \in Projects |-> IF ~MultiProject /\ p = DefaultProject THEN 1 ELSE None]
    /\ live = 1..opened
    /\ caps = IF MultiProject THEN {} ELSE {DefaultProject}
    /\ stmt = [p \in Projects |-> None]
    /\ call = [g \in Goroutines |-> Idle]

-----------------------------------------------------------------------------

At(g, pc) == call[g].pc = pc
Goto(g, pc) == call' = [call EXCEPT ![g].pc = pc]
GotoWith(g, pc, h) == call' = [call EXCEPT ![g].pc = pc, ![g].handle = h]
Return(g) == call' = [call EXCEPT ![g] = Idle]

CanRead == holder = None /\ blocked = {}
Unlock == holder' = None /\ UNCHANGED <<readers, blocked>>

\* Lock, for the goroutine at pc from: first it queues, then it gets the lock.
Queue(g, from, to) ==
    /\ At(g, from)
    /\ blocked' = blocked \cup {g}
    /\ Goto(g, to)
    /\ UNCHANGED <<holder, readers, dbs, opened, live, caps, stmt>>

Acquire(g, from, to) ==
    /\ At(g, from)
    /\ holder = None /\ readers = {}
    /\ holder' = g
    /\ blocked' = blocked \ {g}
    /\ Goto(g, to)
    /\ UNCHANGED <<readers, dbs, opened, live, caps, stmt>>

-----------------------------------------------------------------------------
(* getDB *)

Begin(g) ==
    /\ At(g, "idle")
    /\ \E p \in Projects :
            call' = [call EXCEPT ![g] = [pc |-> "lookup", project |-> p, handle |-> None]]
    /\ UNCHANGED <<mutex, dbs, opened, live, caps, stmt>>

\* Mutant: the handle is not checked for presence.
LookupUnchecked(g) ==
    /\ At(g, "lookup")
    /\ CanRead
    /\ GotoWith(g, "prepare", dbs[call[g].project])
    /\ UNCHANGED <<mutex, dbs, opened, live, caps, stmt>>

Lookup(g) ==
    /\ At(g, "lookup")
    /\ CanRead
    /\ LET h == dbs[call[g].project]
       IN  IF h # None THEN GotoWith(g, "prepare", h) ELSE Goto(g, "lock")
    /\ UNCHANGED <<mutex, dbs, opened, live, caps, stmt>>

AskLock(g) == Queue(g, "lock", "waiting")
GetLock(g) == Acquire(g, "waiting", "recheck")

\* Another goroutine has opened the project meanwhile: its handle is returned.
\* dm.mu stays locked.
FoundOnRecheck(g) ==
    /\ At(g, "recheck")
    /\ dbs[call[g].project] # None
    /\ GotoWith(g, "prepare", dbs[call[g].project])
    /\ UNCHANGED <<mutex, dbs, opened, live, caps, stmt>>

\* dm.mu stays locked here too.
RefuseEmptyName(g) ==
    /\ At(g, "recheck")
    /\ dbs[call[g].project] = None
    /\ MultiProject /\ call[g].project = EmptyName
    /\ Return(g)
    /\ UNCHANGED <<mutex, dbs, opened, live, caps, stmt>>

\* Mutants: without the double check, and giving up the lock before the schema is there.
OpenWithoutRecheck(g) ==
    /\ At(g, "recheck") /\ opened < MaxHandles
    /\ opened' = opened + 1
    /\ live' = live \cup {opened + 1}
    /\ GotoWith(g, "init", opened + 1)
    /\ UNCHANGED <<mutex, dbs, caps, stmt>>

OpenUnlocking(g) ==
    /\ At(g, "recheck") /\ dbs[call[g].project] = None /\ opened < MaxHandles
    /\ opened' = opened + 1
    /\ live' = live \cup {opened + 1}
    /\ GotoWith(g, "init", opened + 1)
    /\ Unlock
    /\ UNCHANGED <<dbs, caps, stmt>>

\* MkdirAll and sql.Open; either may fail, with nothing opened.
OpenHandle(g) ==
    /\ At(g, "recheck")
    /\ dbs[call[g].project] = None
    /\ ~(MultiProject /\ call[g].project = EmptyName)
    /\ \/ /\ opened < MaxHandles
          /\ opened' = opened + 1
          /\ live' = live \cup {opened + 1}
          /\ GotoWith(g, "init", opened + 1)
          /\ UNCHANGED mutex
       \/ Return(g) /\ Unlock /\ UNCHANGED <<opened, live>>
    /\ UNCHANGED <<dbs, caps, stmt>>

\* Mutant: the handle stays open.
InitializeFailsOpen(g) ==
    /\ At(g, "init")
    /\ Return(g)
    /\ Unlock
    /\ UNCHANGED <<dbs, opened, live, caps, stmt>>

\* The schema cannot be created: the new handle is closed.
InitializeFails(g) ==
    /\ At(g, "init")
    /\ live' = live \ {call[g].handle}
    /\ Return(g)
    /\ Unlock
    /\ UNCHANGED <<dbs, opened, caps, stmt>>

Publish(g) ==
    /\ At(g, "init")
    /\ dbs' = [dbs EXCEPT ![call[g].project] = call[g].handle]
    /\ Unlock
    /\ Goto(g, "probe")
    /\ UNCHANGED <<opened, live, caps, stmt>>

\* detectCapabilitiesForProject, outside the lock and after others may use the handle.
Probe(g) ==
    /\ At(g, "probe")
    /\ caps' = caps \cup {call[g].project}
    /\ Goto(g, "prepare")
    /\ UNCHANGED <<mutex, dbs, opened, live, stmt>>

-----------------------------------------------------------------------------
(* getPreparedStmt: read, prepare and store are three critical sections *)

CacheHit(g) ==
    /\ At(g, "prepare")
    /\ stmt[call[g].project] # None
    /\ GotoWith(g, "query", stmt[call[g].project])
    /\ UNCHANGED <<mutex, dbs, opened, live, caps, stmt>>

CacheMiss(g) ==
    /\ At(g, "prepare")
    /\ stmt[call[g].project] = None
    /\ IF call[g].handle \in live THEN Goto(g, "store") ELSE Return(g)
    /\ UNCHANGED <<mutex, dbs, opened, live, caps, stmt>>

\* Mutant: the cache is keyed by the SQL text alone.
StoreStmtForAll(g) ==
    /\ At(g, "store")
    /\ stmt' = [p \in Projects |-> call[g].handle]
    /\ Goto(g, "query")
    /\ UNCHANGED <<mutex, dbs, opened, live, caps>>

StoreStmt(g) ==
    /\ At(g, "store")
    /\ stmt' = [stmt EXCEPT ![call[g].project] = call[g].handle]
    /\ Goto(g, "query")
    /\ UNCHANGED <<mutex, dbs, opened, live, caps>>

Query(g) ==
    /\ At(g, "query")
    /\ Return(g)
    /\ UNCHANGED <<mutex, dbs, opened, live, caps, stmt>>

-----------------------------------------------------------------------------
(* PoolStats, from the ticker and health_check *)

BeginStats(g) ==
    /\ At(g, "idle")
    /\ CanRead
    /\ readers' = readers \cup {g}
    /\ Goto(g, "stats")
    /\ UNCHANGED <<holder, blocked, dbs, opened, live, caps, stmt>>

EndStats(g) ==
    /\ At(g, "stats")
    /\ readers' = readers \ {g}
    /\ Return(g)
    /\ UNCHANGED <<holder, blocked, dbs, opened, live, caps, stmt>>

-----------------------------------------------------------------------------
(* Close: the statements first, under stmtMu; then the handles, under mu *)

CloseStmts(g) ==
    /\ At(g, "idle")
    /\ Closes
    /\ stmt' = [p \in Projects |-> None]
    /\ Goto(g, "closing")
    /\ UNCHANGED <<mutex, dbs, opened, live, caps>>

AskLockToClose(g) == Queue(g, "closing", "closewait")
GetLockToClose(g) == Acquire(g, "closewait", "close")

\* Mutant: the map is not emptied.
CloseHandlesOnly(g) ==
    /\ At(g, "close")
    /\ live' = live \ {dbs[p] : p \in Projects}
    /\ Unlock
    /\ Return(g)
    /\ UNCHANGED <<dbs, opened, caps, stmt>>

CloseHandles(g) ==
    /\ At(g, "close")
    /\ live' = live \ {dbs[p] : p \in Projects}
    /\ dbs' = [p \in Projects |-> None]
    /\ Unlock
    /\ Return(g)
    /\ UNCHANGED <<opened, caps, stmt>>

-----------------------------------------------------------------------------

Serve(g) ==
    \/ Lookup(g) \/ AskLock(g) \/ GetLock(g) \/ FoundOnRecheck(g) \/ RefuseEmptyName(g)
    \/ OpenHandle(g) \/ InitializeFails(g) \/ Publish(g) \/ Probe(g)
    \/ CacheHit(g) \/ CacheMiss(g) \/ StoreStmt(g) \/ Query(g)
    \/ EndStats(g)
    \/ AskLockToClose(g) \/ GetLockToClose(g) \/ CloseHandles(g)

Next == \E g \in Goroutines : Begin(g) \/ BeginStats(g) \/ CloseStmts(g) \/ Serve(g)

Spec == Init /\ [][Next]_vars

\* A goroutine that can run does.  RWMutex wakes a blocked writer once the readers
\* before it have left, so a goroutine waiting in Lock whose turn keeps coming gets
\* the lock.
FairSpec ==
    /\ Spec
    /\ \A g \in Goroutines : WF_vars(Serve(g)) /\ SF_vars(Lookup(g))
                             /\ SF_vars(GetLock(g)) /\ SF_vars(GetLockToClose(g))

-----------------------------------------------------------------------------
(* properties *)

\* No open handle is lost: each is in dbs or still in the hands of the goroutine
\* that holds dm.mu and is initialising it; so a project has at most one, however
\* many calls open it at once, and Close closes them all.
Held(h) == \E g \in Goroutines : call[g].pc = "init" /\ call[g].handle = h /\ holder = g

NoHandleLost == \A h \in live : Held(h) \/ \E p \in Projects : dbs[p] = h

\* Two projects never share a handle, and the map holds no closed one.
MapIsSound ==
    /\ \A p \in Projects : dbs[p] # None => dbs[p] \in live
    /\ \A p, q \in Projects : p # q /\ dbs[p] # None => dbs[p] # dbs[q]

\* dbs is written only while no goroutine reads it and by no two at once (Go's maps
\* do not survive less).
MapIsGuarded ==
    [][ dbs' # dbs => readers = {} /\ \E g \in Goroutines : holder = g /\ call'[g] # call[g] ]_vars

\* The cached statement of a project is of the handle in use, or of one that
\* Close has closed.
StmtIsCurrent == \A p \in Projects : stmt[p] \in live => dbs[p] = stmt[p]

\* getDB comes back with a handle or an error.
InGetDB(g) == call[g].pc \in {"lookup", "lock", "waiting", "recheck", "init"}
GetDBReturns == \A g \in Goroutines : InGetDB(g) ~> ~InGetDB(g)

=============================================================================
