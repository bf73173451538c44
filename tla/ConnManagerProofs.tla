------------------------- MODULE ConnManagerProofs -------------------------
(***************************************************************************)
(* Theorems about ConnManager, for any goroutines, projects and mode.  All *)
(* follow from one inductive invariant, Inv.                               *)
(***************************************************************************)
EXTENDS ConnManager, TLAPS

\* A goroutine that serves a call knows its project.
CallsNameProjects ==
    \A g \in Goroutines :
        call[g].pc \in {"lookup", "lock", "waiting", "recheck", "init", "probe", "prepare",
                        "store", "query"}
            => call[g].project \in Projects

\* The goroutines between Lock and Unlock hold dm.mu.  (A goroutine that holds it
\* may be anywhere: getDB has returns that leave it locked.)
LockIsHeld ==
    /\ holder # None => readers = {}
    /\ \A g \in Goroutines : call[g].pc \in {"recheck", "init", "close"} => holder = g

\* A handle is opened before it is used, so the next one is new to everyone.
HandlesAreKnown ==
    /\ live \subseteq 1..opened
    /\ \A p \in Projects : dbs[p] # None => dbs[p] \in 1..opened
    /\ \A p \in Projects : stmt[p] # None => stmt[p] \in 1..opened
    /\ \A g \in Goroutines : call[g].handle # None => call[g].handle \in 1..opened

\* The handle being initialised is open, is nowhere in the map, and its project has none.
NewHandleIsPrivate ==
    \A g \in Goroutines : call[g].pc = "init" =>
        /\ call[g].handle \in live
        /\ dbs[call[g].project] = None
        /\ \A p \in Projects : dbs[p] # call[g].handle

\* A goroutine about to prepare a statement has its project's handle, or one that
\* Close has closed.
CallsAreCurrent ==
    \A g \in Goroutines :
        call[g].pc \in {"probe", "prepare", "store"} /\ call[g].handle \in live
            => dbs[call[g].project] = call[g].handle

Inv ==
    /\ TypeOK /\ CallsNameProjects /\ LockIsHeld /\ HandlesAreKnown
    /\ NewHandleIsPrivate /\ CallsAreCurrent
    /\ NoHandleLost /\ MapIsSound /\ StmtIsCurrent

-----------------------------------------------------------------------------
(* what the helpers make of call *)

Pc == {"idle", "lookup", "lock", "waiting", "recheck", "init", "probe",
       "prepare", "store", "query", "stats", "closing", "closewait", "close"}
Call == [pc : Pc, project : Projects \cup {None}, handle : Handle \cup {None}]

LEMMA GotoMoves ==
    ASSUME call \in [Goroutines -> Call], NEW g \in Goroutines, NEW pc \in Pc, Goto(g, pc)
    PROVE  /\ call' \in [Goroutines -> Call]
           /\ call'[g].pc = pc
           /\ call'[g].project = call[g].project
           /\ call'[g].handle = call[g].handle
           /\ \A k \in Goroutines \ {g} : call'[k] = call[k]
BY DEF Goto, Call

LEMMA GotoWithMoves ==
    ASSUME call \in [Goroutines -> Call], NEW g \in Goroutines, NEW pc \in Pc,
           NEW h \in Handle \cup {None}, GotoWith(g, pc, h)
    PROVE  /\ call' \in [Goroutines -> Call]
           /\ call'[g].pc = pc
           /\ call'[g].project = call[g].project
           /\ call'[g].handle = h
           /\ \A k \in Goroutines \ {g} : call'[k] = call[k]
BY DEF GotoWith, Call

LEMMA ReturnMoves ==
    ASSUME call \in [Goroutines -> Call], NEW g \in Goroutines, Return(g)
    PROVE  /\ call' \in [Goroutines -> Call]
           /\ call'[g].pc = "idle"
           /\ call'[g].project = None
           /\ call'[g].handle = None
           /\ \A k \in Goroutines \ {g} : call'[k] = call[k]
BY DEF Return, Idle, Call, Pc

-----------------------------------------------------------------------------
(* steps that change neither the handles nor the maps *)

LEMMA QuietStep ==
    ASSUME Inv, NEW g \in Goroutines,
           UNCHANGED <<dbs, opened, live, stmt>>, caps' \in SUBSET Projects,
           holder' \in Goroutines \cup {None}, readers' \in SUBSET Goroutines,
           blocked' \in SUBSET Goroutines,
           holder' = holder \/ holder \in {None, g},
           LockIsHeld',
           call' \in [Goroutines -> Call],
           \A k \in Goroutines \ {g} : call'[k] = call[k],
           call[g].pc # "init", call'[g].pc # "init",
           call'[g].pc \in {"lookup", "lock", "waiting", "recheck", "probe", "prepare", "store",
                            "query"}
               => call'[g].project \in Projects,
           call'[g].pc \in {"probe", "prepare", "store", "query"} => call'[g].handle # None,
           call'[g].handle # None => call'[g].handle \in 1..opened,
           call'[g].pc \in {"probe", "prepare", "store"} /\ call'[g].handle \in live
               => dbs[call'[g].project] = call'[g].handle
    PROVE  Inv'
<1>1. TypeOK'
    BY DEF Inv, TypeOK, Call, Pc
<1>2. CallsNameProjects'
    BY DEF Inv, CallsNameProjects
<1>3. HandlesAreKnown'
    BY DEF Inv, HandlesAreKnown
<1>4. NewHandleIsPrivate'
    BY DEF Inv, NewHandleIsPrivate
<1>5. CallsAreCurrent'
    BY DEF Inv, CallsAreCurrent
<1>6. NoHandleLost'
    <2> SUFFICES ASSUME NEW h \in live, \A p \in Projects : dbs[p] # h
                 PROVE  Held(h)'
        BY DEF NoHandleLost
    <2>1. PICK k \in Goroutines : call[k].pc = "init" /\ call[k].handle = h /\ holder = k
        BY DEF Inv, NoHandleLost, Held
    <2>2. k # g /\ holder' = holder
        BY <2>1, NoneAssumption
    <2> QED
        BY <2>1, <2>2 DEF Held
<1>7. MapIsSound' /\ StmtIsCurrent'
    BY DEF Inv, MapIsSound, StmtIsCurrent
<1> QED
    BY <1>1, <1>2, <1>3, <1>4, <1>5, <1>6, <1>7 DEF Inv

\* A goroutine that takes a lock or waits for one.
LEMMA QueueStep ==
    ASSUME Inv, NEW g \in Goroutines, NEW from \in Pc, NEW to \in Pc, Queue(g, from, to),
           <<from, to>> \in {<<"lock", "waiting">>, <<"closing", "closewait">>}
    PROVE  Inv'
<1>1. call \in [Goroutines -> Call] /\ Goto(g, to)
    BY DEF Inv, TypeOK, Call, Pc, Queue
<1>2. call[g].pc = from
    BY DEF Queue, At
<1>3. LockIsHeld'
    BY <1>1, <1>2, GotoMoves DEF Inv, LockIsHeld, Queue
<1> QED
    BY <1>1, <1>2, <1>3, GotoMoves, QuietStep
    DEF Inv, TypeOK, CallsNameProjects, HandlesAreKnown, Queue

LEMMA AcquireStep ==
    ASSUME Inv, NEW g \in Goroutines, NEW from \in Pc, NEW to \in Pc, Acquire(g, from, to),
           <<from, to>> \in {<<"waiting", "recheck">>, <<"closewait", "close">>}
    PROVE  Inv'
<1>1. call \in [Goroutines -> Call] /\ Goto(g, to)
    BY DEF Inv, TypeOK, Call, Pc, Acquire
<1>2. call[g].pc = from
    BY DEF Acquire, At
<1>3. LockIsHeld'
    BY <1>1, <1>2, GotoMoves, NoneAssumption DEF Inv, LockIsHeld, Acquire
<1> QED
    BY <1>1, <1>2, <1>3, GotoMoves, QuietStep
    DEF Inv, TypeOK, CallsNameProjects, HandlesAreKnown, Acquire

-----------------------------------------------------------------------------
(* getDB *)

LEMMA BeginStep ==
    ASSUME Inv, NEW g \in Goroutines, Begin(g)
    PROVE  Inv'
<1>1. PICK p \in Projects : call' = [call EXCEPT ![g] = [pc |-> "lookup", project |-> p, handle |-> None]]
    BY DEF Begin
<1>2. call \in [Goroutines -> Call] /\ call[g].pc = "idle"
    BY DEF Inv, TypeOK, Call, Pc, Begin, At
<1>3. /\ call' \in [Goroutines -> Call]
      /\ call'[g].pc = "lookup" /\ call'[g].project \in Projects /\ call'[g].handle = None
      /\ \A k \in Goroutines \ {g} : call'[k] = call[k]
    BY <1>1, <1>2 DEF Call, Pc
<1>4. LockIsHeld'
    BY <1>3 DEF Inv, LockIsHeld, Begin, mutex
<1> QED
    BY <1>2, <1>3, <1>4, QuietStep DEF Inv, TypeOK, Begin, mutex

LEMMA LookupStep ==
    ASSUME Inv, NEW g \in Goroutines, Lookup(g)
    PROVE  Inv'
<1> DEFINE h == dbs[call[g].project]
<1>1. call \in [Goroutines -> Call] /\ call[g].pc = "lookup" /\ call[g].project \in Projects
    BY DEF Inv, TypeOK, Call, Pc, Lookup, At, CallsNameProjects
<1>2. h \in Handle \cup {None} /\ (h # None => h \in 1..opened)
    BY <1>1 DEF Inv, TypeOK, HandlesAreKnown
<1>3. LockIsHeld' /\ UNCHANGED <<mutex, dbs, opened, live, caps, stmt>>
    BY <1>1, <1>2, GotoMoves, GotoWithMoves DEF Inv, LockIsHeld, Lookup, mutex, Pc
<1>4. CASE h # None
    <2>1. GotoWith(g, "prepare", h)
        BY <1>4 DEF Lookup
    <2> QED
        BY <1>1, <1>2, <1>3, <1>4, <2>1, GotoWithMoves, QuietStep DEF Inv, TypeOK, mutex, Pc
<1>5. CASE h = None
    <2>1. Goto(g, "lock")
        BY <1>5 DEF Lookup
    <2> QED
        BY <1>1, <1>3, <2>1, GotoMoves, QuietStep DEF Inv, TypeOK, mutex, Pc, HandlesAreKnown
<1> QED
    BY <1>4, <1>5

LEMMA FoundOnRecheckStep ==
    ASSUME Inv, NEW g \in Goroutines, FoundOnRecheck(g)
    PROVE  Inv'
<1> DEFINE h == dbs[call[g].project]
<1>1. call \in [Goroutines -> Call] /\ call[g].pc = "recheck" /\ call[g].project \in Projects
    BY DEF Inv, TypeOK, Call, Pc, FoundOnRecheck, At, CallsNameProjects
<1>2. h \in Handle /\ h \in 1..opened /\ h # None
    BY <1>1 DEF Inv, TypeOK, HandlesAreKnown, FoundOnRecheck
<1>3. GotoWith(g, "prepare", h) /\ UNCHANGED <<mutex, dbs, opened, live, caps, stmt>>
    BY DEF FoundOnRecheck
<1>4. LockIsHeld'
    BY <1>1, <1>2, <1>3, GotoWithMoves DEF Inv, LockIsHeld, mutex, Pc
<1> QED
    BY <1>1, <1>2, <1>3, <1>4, GotoWithMoves, QuietStep DEF Inv, TypeOK, mutex, Pc

\* Every way in which a call ends and no map or handle changes.
LEMMA ReturnStep ==
    ASSUME Inv, NEW g \in Goroutines, Return(g), call[g].pc # "init",
           UNCHANGED <<dbs, opened, live, caps, stmt>>,
           \/ UNCHANGED mutex
           \/ holder = g /\ Unlock
           \/ holder' = holder /\ blocked' = blocked /\ readers' = readers \ {g}
    PROVE  Inv'
<1>1. call \in [Goroutines -> Call]
    BY DEF Inv, TypeOK, Call, Pc
<1>2. /\ call' \in [Goroutines -> Call]
      /\ call'[g].pc = "idle" /\ call'[g].handle = None
      /\ \A k \in Goroutines \ {g} : call'[k] = call[k]
    BY <1>1, ReturnMoves
<1>3. LockIsHeld'
    BY <1>2 DEF Inv, LockIsHeld, mutex, Unlock
<1>4. /\ holder' \in Goroutines \cup {None} /\ readers' \in SUBSET Goroutines
      /\ blocked' \in SUBSET Goroutines /\ (holder' = holder \/ holder \in {None, g})
      /\ caps' \in SUBSET Projects
    BY DEF Inv, TypeOK, mutex, Unlock
<1> QED
    BY <1>2, <1>3, <1>4, QuietStep

LEMMA OpenHandleStep ==
    ASSUME Inv, NEW g \in Goroutines, OpenHandle(g)
    PROVE  Inv'
<1>1. /\ call \in [Goroutines -> Call] /\ call[g].pc = "recheck" /\ holder = g
      /\ call[g].project \in Projects /\ dbs[call[g].project] = None
    BY DEF Inv, TypeOK, Call, Pc, OpenHandle, At, CallsNameProjects, LockIsHeld
<1>2. CASE Return(g) /\ Unlock /\ UNCHANGED <<opened, live>>
    BY <1>1, <1>2, ReturnStep DEF OpenHandle
<1>3. CASE /\ opened < MaxHandles /\ opened' = opened + 1 /\ live' = live \cup {opened + 1}
           /\ GotoWith(g, "init", opened + 1) /\ UNCHANGED mutex
    <2> DEFINE h == opened + 1
    <2>1. /\ opened \in Nat /\ h \in Handle /\ opened' = h /\ live' = live \cup {h}
          /\ 1..opened \subseteq 1..h /\ h \notin 1..opened /\ h \in 1..h /\ h # None
        BY <1>3, ModeAssumption, NoneAssumption DEF Inv, TypeOK, Handle
    <2>2. /\ call' \in [Goroutines -> Call]
          /\ call'[g].pc = "init" /\ call'[g].project = call[g].project /\ call'[g].handle = h
          /\ \A k \in Goroutines \ {g} : call'[k] = call[k]
        BY <1>1, <1>3, <2>1, GotoWithMoves DEF Pc
    <2>3. UNCHANGED <<holder, readers, blocked, dbs, caps, stmt>>
        BY <1>3 DEF OpenHandle, mutex
    <2>4. opened' \in 0..MaxHandles
        BY <1>3, ModeAssumption DEF Inv, TypeOK
    <2> HIDE DEF h
    <2>5. TypeOK'
        BY <2>1, <2>2, <2>3, <2>4 DEF Inv, TypeOK, Call, Pc
    <2>6. CallsNameProjects' /\ LockIsHeld'
        BY <1>1, <2>2, <2>3 DEF Inv, CallsNameProjects, LockIsHeld
    <2>7. HandlesAreKnown'
        BY <2>1, <2>2, <2>3 DEF Inv, HandlesAreKnown
    <2>8. NewHandleIsPrivate'
        BY <1>1, <2>1, <2>2, <2>3 DEF Inv, NewHandleIsPrivate, HandlesAreKnown
    <2>9. CallsAreCurrent'
        BY <2>1, <2>2, <2>3 DEF Inv, CallsAreCurrent, HandlesAreKnown
    <2>10. NoHandleLost'
        <3> SUFFICES ASSUME NEW k \in live', \A p \in Projects : dbs'[p] # k
                     PROVE  Held(k)'
            BY DEF NoHandleLost
        <3>1. \A l \in live : \E p \in Projects : dbs[p] = l
            BY <1>1 DEF Inv, NoHandleLost, Held
        <3>2. k = h
            BY <2>1, <2>3, <3>1
        <3> QED
            BY <1>1, <2>2, <2>3, <3>2 DEF Held
    <2>11. MapIsSound' /\ StmtIsCurrent'
        BY <2>1, <2>3 DEF Inv, MapIsSound, StmtIsCurrent, HandlesAreKnown
    <2> QED
        BY <2>5, <2>6, <2>7, <2>8, <2>9, <2>10, <2>11 DEF Inv
<1> QED
    BY <1>2, <1>3 DEF OpenHandle

LEMMA InitializeFailsStep ==
    ASSUME Inv, NEW g \in Goroutines, InitializeFails(g)
    PROVE  Inv'
<1>1. /\ call \in [Goroutines -> Call] /\ call[g].pc = "init" /\ holder = g
      /\ call[g].handle \in live /\ \A p \in Projects : dbs[p] # call[g].handle
    BY DEF Inv, TypeOK, Call, Pc, InitializeFails, At, LockIsHeld, NewHandleIsPrivate
<1>2. /\ call' \in [Goroutines -> Call]
      /\ call'[g].pc = "idle" /\ call'[g].project = None /\ call'[g].handle = None
      /\ \A k \in Goroutines \ {g} : call'[k] = call[k]
    BY <1>1, ReturnMoves DEF InitializeFails
<1>3. /\ UNCHANGED <<readers, blocked, dbs, opened, caps, stmt>> /\ holder' = None
      /\ live' = live \ {call[g].handle}
    BY DEF InitializeFails, Unlock
<1>4. \A k \in Goroutines \ {g} : call[k].pc \notin {"recheck", "init", "close"}
    BY <1>1 DEF Inv, LockIsHeld
<1>5. TypeOK'
    BY <1>2, <1>3 DEF Inv, TypeOK, Call, Pc
<1>6. CallsNameProjects' /\ LockIsHeld' /\ NewHandleIsPrivate'
    BY <1>2, <1>3, <1>4 DEF Inv, CallsNameProjects, LockIsHeld, NewHandleIsPrivate
<1>7. HandlesAreKnown'
    BY <1>2, <1>3 DEF Inv, HandlesAreKnown
<1>8. CallsAreCurrent'
    BY <1>2, <1>3 DEF Inv, CallsAreCurrent
<1>9. NoHandleLost'
    BY <1>1, <1>3, <1>4 DEF Inv, NoHandleLost, Held
<1>10. MapIsSound' /\ StmtIsCurrent'
    BY <1>1, <1>3 DEF Inv, MapIsSound, StmtIsCurrent
<1> QED
    BY <1>5, <1>6, <1>7, <1>8, <1>9, <1>10 DEF Inv

LEMMA PublishStep ==
    ASSUME Inv, NEW g \in Goroutines, Publish(g)
    PROVE  Inv'
<1> DEFINE h == call[g].handle
           q == call[g].project
<1>1. /\ call \in [Goroutines -> Call] /\ call[g].pc = "init" /\ holder = g
      /\ h \in live /\ \A p \in Projects : dbs[p] # h
      /\ q \in Projects /\ dbs[q] = None
    BY DEF Inv, TypeOK, Call, Pc, Publish, At, LockIsHeld, NewHandleIsPrivate, CallsNameProjects
<1>2. /\ call' \in [Goroutines -> Call]
      /\ call'[g].pc = "probe" /\ call'[g].project = q /\ call'[g].handle = h
      /\ \A k \in Goroutines \ {g} : call'[k] = call[k]
    BY <1>1, GotoMoves DEF Publish, Pc
<1>3. /\ UNCHANGED <<readers, blocked, live, opened, caps, stmt>> /\ holder' = None
      /\ dbs' \in [Projects -> Handle \cup {None}]
      /\ dbs'[q] = h /\ \A p \in Projects \ {q} : dbs'[p] = dbs[p]
    BY <1>1 DEF Publish, Unlock, Inv, TypeOK
<1>4. \A k \in Goroutines \ {g} : call[k].pc \notin {"recheck", "init", "close"}
    BY <1>1 DEF Inv, LockIsHeld
<1>5. h \in 1..opened /\ h # None
    BY <1>1, NoneAssumption DEF Inv, HandlesAreKnown, TypeOK
<1> HIDE DEF h, q
<1>6. TypeOK'
    BY <1>2, <1>3, <1>5 DEF Inv, TypeOK, Call, Pc
<1>7. CallsNameProjects' /\ LockIsHeld' /\ NewHandleIsPrivate'
    BY <1>1, <1>2, <1>3, <1>4 DEF Inv, CallsNameProjects, LockIsHeld, NewHandleIsPrivate
<1>8. HandlesAreKnown'
    BY <1>2, <1>3, <1>5 DEF Inv, HandlesAreKnown
<1>9. ASSUME NEW l \in live PROVE l # None
    BY NoneAssumption DEF Inv, HandlesAreKnown, TypeOK
<1>10. CallsAreCurrent'
    <2> SUFFICES ASSUME NEW k \in Goroutines, call'[k].pc \in {"probe", "prepare", "store"},
                        call'[k].handle \in live
                 PROVE  dbs'[call'[k].project] = call'[k].handle
        BY <1>3 DEF CallsAreCurrent
    <2>1. CASE k = g
        BY <1>2, <1>3, <2>1
    <2>2. CASE k # g
        <3>1. call'[k] = call[k] /\ dbs[call[k].project] = call[k].handle
            BY <1>2, <2>2 DEF Inv, CallsAreCurrent
        <3>2. call[k].project \in Projects /\ call[k].project # q
            BY <1>1, <1>9, <3>1 DEF Inv, CallsNameProjects
        <3> QED
            BY <1>3, <3>1, <3>2
    <2> QED
        BY <2>1, <2>2
<1>11. NoHandleLost'
    <2> SUFFICES ASSUME NEW l \in live PROVE \E p \in Projects : dbs'[p] = l
        BY <1>3 DEF NoHandleLost
    <2>1. CASE Held(l)
        BY <1>1, <1>3, <1>4, <2>1 DEF Held, h
    <2>2. CASE \E p \in Projects : dbs[p] = l
        BY <1>1, <1>3, <1>9, <2>2
    <2> QED
        BY <2>1, <2>2 DEF Inv, NoHandleLost
<1>12. MapIsSound'
    BY <1>1, <1>3 DEF Inv, MapIsSound
<1>13. StmtIsCurrent'
    BY <1>1, <1>3, <1>9 DEF Inv, StmtIsCurrent
<1> QED
    BY <1>6, <1>7, <1>8, <1>10, <1>11, <1>12, <1>13 DEF Inv

LEMMA ProbeStep ==
    ASSUME Inv, NEW g \in Goroutines, Probe(g)
    PROVE  Inv'
<1>1. /\ call \in [Goroutines -> Call] /\ call[g].pc = "probe"
      /\ call[g].project \in Projects /\ call[g].handle # None
    BY DEF Inv, TypeOK, Call, Pc, Probe, At, CallsNameProjects
<1>2. LockIsHeld' /\ caps' \in SUBSET Projects
    BY <1>1, GotoMoves DEF Inv, LockIsHeld, Probe, mutex, Pc, TypeOK
<1> QED
    BY <1>1, <1>2, GotoMoves, QuietStep
    DEF Inv, TypeOK, mutex, Pc, Probe, HandlesAreKnown, CallsAreCurrent

-----------------------------------------------------------------------------
(* getPreparedStmt *)

LEMMA CacheHitStep ==
    ASSUME Inv, NEW g \in Goroutines, CacheHit(g)
    PROVE  Inv'
<1> DEFINE h == stmt[call[g].project]
<1>1. /\ call \in [Goroutines -> Call] /\ call[g].pc = "prepare"
      /\ call[g].project \in Projects
    BY DEF Inv, TypeOK, Call, Pc, CacheHit, At, CallsNameProjects
<1>2. h \in Handle /\ h \in 1..opened /\ h # None
    BY <1>1 DEF Inv, TypeOK, HandlesAreKnown, CacheHit
<1>3. GotoWith(g, "query", h) /\ UNCHANGED <<mutex, dbs, opened, live, caps, stmt>>
    BY DEF CacheHit
<1>4. LockIsHeld'
    BY <1>1, <1>2, <1>3, GotoWithMoves DEF Inv, LockIsHeld, mutex, Pc
<1> QED
    BY <1>1, <1>2, <1>3, <1>4, GotoWithMoves, QuietStep DEF Inv, TypeOK, mutex, Pc

LEMMA CacheMissStep ==
    ASSUME Inv, NEW g \in Goroutines, CacheMiss(g)
    PROVE  Inv'
<1>1. /\ call \in [Goroutines -> Call] /\ call[g].pc = "prepare"
      /\ call[g].project \in Projects /\ call[g].handle # None
      /\ UNCHANGED <<mutex, dbs, opened, live, caps, stmt>>
    BY DEF Inv, TypeOK, Call, Pc, CacheMiss, At, CallsNameProjects
<1>2. CASE Goto(g, "store")
    <2>1. LockIsHeld'
        BY <1>1, <1>2, GotoMoves DEF Inv, LockIsHeld, mutex, Pc
    <2> QED
        BY <1>1, <1>2, <2>1, GotoMoves, QuietStep
        DEF Inv, TypeOK, mutex, Pc, HandlesAreKnown, CallsAreCurrent
<1>3. CASE Return(g)
    BY <1>1, <1>3, ReturnStep
<1> QED
    BY <1>2, <1>3 DEF CacheMiss

LEMMA StoreStmtStep ==
    ASSUME Inv, NEW g \in Goroutines, StoreStmt(g)
    PROVE  Inv'
<1> DEFINE h == call[g].handle
           q == call[g].project
<1>1. /\ call \in [Goroutines -> Call] /\ call[g].pc = "store"
      /\ q \in Projects /\ h # None /\ h \in Handle /\ h \in 1..opened
      /\ h \in live => dbs[q] = h
    BY DEF Inv, TypeOK, Call, Pc, StoreStmt, At, CallsNameProjects, HandlesAreKnown,
           CallsAreCurrent
<1>2. /\ call' \in [Goroutines -> Call]
      /\ call'[g].pc = "query" /\ call'[g].project = q /\ call'[g].handle = h
      /\ \A k \in Goroutines \ {g} : call'[k] = call[k]
    BY <1>1, GotoMoves DEF StoreStmt, Pc
<1>3. /\ UNCHANGED <<holder, readers, blocked, dbs, live, opened, caps>>
      /\ stmt' \in [Projects -> Handle \cup {None}]
      /\ stmt'[q] = h /\ \A p \in Projects \ {q} : stmt'[p] = stmt[p]
    BY <1>1 DEF StoreStmt, Inv, TypeOK, mutex
<1> HIDE DEF h, q
<1>4. TypeOK'
    BY <1>1, <1>2, <1>3 DEF Inv, TypeOK, Call, Pc
<1>5. CallsNameProjects' /\ LockIsHeld' /\ NewHandleIsPrivate'
    BY <1>1, <1>2, <1>3 DEF Inv, CallsNameProjects, LockIsHeld, NewHandleIsPrivate
<1>6. HandlesAreKnown' /\ CallsAreCurrent'
    BY <1>1, <1>2, <1>3 DEF Inv, HandlesAreKnown, CallsAreCurrent
<1>7. NoHandleLost'
    BY <1>1, <1>2, <1>3 DEF Inv, NoHandleLost, Held
<1>8. MapIsSound' /\ StmtIsCurrent'
    BY <1>1, <1>3 DEF Inv, MapIsSound, StmtIsCurrent
<1> QED
    BY <1>4, <1>5, <1>6, <1>7, <1>8 DEF Inv

-----------------------------------------------------------------------------
(* PoolStats and Close *)

LEMMA BeginStatsStep ==
    ASSUME Inv, NEW g \in Goroutines, BeginStats(g)
    PROVE  Inv'
<1>1. call \in [Goroutines -> Call] /\ call[g].pc = "idle" /\ Goto(g, "stats")
    BY DEF Inv, TypeOK, Call, Pc, BeginStats, At
<1>2. LockIsHeld'
    BY <1>1, GotoMoves DEF Inv, LockIsHeld, BeginStats, CanRead, Pc
<1> QED
    BY <1>1, <1>2, GotoMoves, QuietStep DEF Inv, TypeOK, Pc, BeginStats, HandlesAreKnown

\* Close empties the statement cache first, holding no lock of the map.
LEMMA CloseStmtsStep ==
    ASSUME Inv, NEW g \in Goroutines, CloseStmts(g)
    PROVE  Inv'
<1>1. call \in [Goroutines -> Call] /\ call[g].pc = "idle" /\ Goto(g, "closing")
    BY DEF Inv, TypeOK, Call, Pc, CloseStmts, At
<1>2. /\ call' \in [Goroutines -> Call]
      /\ call'[g].pc = "closing" /\ call'[g].handle = call[g].handle
      /\ call'[g].project = call[g].project
      /\ \A k \in Goroutines \ {g} : call'[k] = call[k]
    BY <1>1, GotoMoves DEF Pc
<1>3. /\ UNCHANGED <<holder, readers, blocked, dbs, live, opened, caps>>
      /\ stmt' \in [Projects -> Handle \cup {None}] /\ \A p \in Projects : stmt'[p] = None
    BY DEF CloseStmts, mutex
<1>4. ASSUME NEW l \in live PROVE l # None
    BY NoneAssumption DEF Inv, HandlesAreKnown, TypeOK
<1>5. TypeOK'
    BY <1>2, <1>3 DEF Inv, TypeOK, Call, Pc
<1>6. CallsNameProjects' /\ LockIsHeld' /\ NewHandleIsPrivate'
    BY <1>1, <1>2, <1>3 DEF Inv, CallsNameProjects, LockIsHeld, NewHandleIsPrivate
<1>7. HandlesAreKnown' /\ CallsAreCurrent'
    BY <1>1, <1>2, <1>3 DEF Inv, HandlesAreKnown, CallsAreCurrent
<1>8. NoHandleLost'
    BY <1>1, <1>2, <1>3 DEF Inv, NoHandleLost, Held
<1>9. MapIsSound' /\ StmtIsCurrent'
    BY <1>3, <1>4 DEF Inv, MapIsSound, StmtIsCurrent
<1> QED
    BY <1>5, <1>6, <1>7, <1>8, <1>9 DEF Inv

\* Nobody is initialising a handle then, so every open handle is in the map and none
\* stays open.
LEMMA CloseHandlesStep ==
    ASSUME Inv, NEW g \in Goroutines, CloseHandles(g)
    PROVE  Inv'
<1>1. call \in [Goroutines -> Call] /\ call[g].pc = "close" /\ holder = g /\ Return(g)
    BY DEF Inv, TypeOK, Call, Pc, CloseHandles, At, LockIsHeld
<1>2. /\ call' \in [Goroutines -> Call]
      /\ call'[g].pc = "idle" /\ call'[g].project = None /\ call'[g].handle = None
      /\ \A k \in Goroutines \ {g} : call'[k] = call[k]
    BY <1>1, ReturnMoves
<1>3. /\ UNCHANGED <<readers, blocked, opened, caps, stmt>> /\ holder' = None
      /\ dbs' \in [Projects -> Handle \cup {None}] /\ \A p \in Projects : dbs'[p] = None
      /\ live' = live \ {dbs[p] : p \in Projects}
    BY DEF CloseHandles, Unlock
<1>4. \A k \in Goroutines : call[k].pc \notin {"recheck", "init"}
    BY <1>1 DEF Inv, LockIsHeld
<1>5. live' = {}
    BY <1>3, <1>4 DEF Inv, NoHandleLost, Held
<1>6. TypeOK'
    BY <1>2, <1>3, <1>5 DEF Inv, TypeOK, Call, Pc
<1>7. CallsNameProjects' /\ LockIsHeld' /\ NewHandleIsPrivate'
    BY <1>1, <1>2, <1>3, <1>4 DEF Inv, CallsNameProjects, LockIsHeld, NewHandleIsPrivate
<1>8. HandlesAreKnown' /\ CallsAreCurrent'
    BY <1>2, <1>3, <1>5 DEF Inv, HandlesAreKnown, CallsAreCurrent
<1>9. NoHandleLost' /\ MapIsSound' /\ StmtIsCurrent'
    BY <1>3, <1>5 DEF NoHandleLost, MapIsSound, StmtIsCurrent
<1> QED
    BY <1>6, <1>7, <1>8, <1>9 DEF Inv

-----------------------------------------------------------------------------
(* the invariant, and what follows from it *)

LEMMA InitEstablishesInv == Init => Inv
<1> SUFFICES ASSUME Init PROVE Inv
    OBVIOUS
<1>1. 1 \in Handle /\ opened \in 0..MaxHandles /\ live \subseteq Handle
    BY ModeAssumption DEF Init, Handle
<1>2. \A g \in Goroutines : call[g] = [pc |-> "idle", project |-> None, handle |-> None]
    BY DEF Init, Idle
<1>3. /\ dbs \in [Projects -> Handle \cup {None}] /\ stmt \in [Projects -> Handle \cup {None}]
      /\ caps \subseteq Projects
    BY <1>1, ModeAssumption DEF Init
<1>4. TypeOK
    BY <1>1, <1>2, <1>3 DEF Init, TypeOK, Idle
<1>5. CallsNameProjects /\ LockIsHeld /\ NewHandleIsPrivate /\ CallsAreCurrent
    BY <1>2 DEF Init, CallsNameProjects, LockIsHeld, NewHandleIsPrivate, CallsAreCurrent
<1>6. CASE MultiProject
    <2>1. opened = 0 /\ live = {} /\ \A p \in Projects : dbs[p] = None /\ stmt[p] = None
        BY <1>6 DEF Init
    <2>2. HandlesAreKnown /\ NoHandleLost /\ MapIsSound /\ StmtIsCurrent
        BY <1>2, <2>1 DEF HandlesAreKnown, NoHandleLost, MapIsSound, StmtIsCurrent
    <2> QED
        BY <2>2, <1>4, <1>5 DEF Inv
<1>7. CASE ~MultiProject
    <2>1. /\ DefaultProject \in Projects /\ opened = 1 /\ live = {1}
          /\ dbs[DefaultProject] = 1
          /\ \A p \in Projects : p # DefaultProject => dbs[p] = None
          /\ \A p \in Projects : stmt[p] = None
          /\ None # 1 /\ 1 \in 1..opened
        BY <1>7, ModeAssumption, NoneAssumption DEF Init
    <2>2. HandlesAreKnown
        BY <1>2, <2>1 DEF HandlesAreKnown
    <2>3. NoHandleLost /\ MapIsSound /\ StmtIsCurrent
        BY <2>1 DEF NoHandleLost, MapIsSound, StmtIsCurrent
    <2> QED
        BY <2>2, <2>3, <1>4, <1>5 DEF Inv
<1> QED
    BY <1>6, <1>7

LEMMA NextPreservesInv == Inv /\ [Next]_vars => Inv'
<1> SUFFICES ASSUME Inv, [Next]_vars PROVE Inv'
    OBVIOUS
<1>1. CASE UNCHANGED vars
    BY <1>1 DEF vars, mutex, Inv, TypeOK, CallsNameProjects, LockIsHeld, HandlesAreKnown,
               NewHandleIsPrivate, CallsAreCurrent, NoHandleLost, Held, MapIsSound, StmtIsCurrent
<1>2. ASSUME NEW g \in Goroutines, Begin(g) \/ BeginStats(g) \/ CloseStmts(g) \/ Serve(g)
      PROVE  Inv'
    <2>1. CASE Begin(g) \/ BeginStats(g) \/ CloseStmts(g)
        BY <2>1, BeginStep, BeginStatsStep, CloseStmtsStep
    <2>2. CASE AskLock(g) \/ AskLockToClose(g)
        BY <2>2, QueueStep DEF AskLock, AskLockToClose, Pc
    <2>3. CASE GetLock(g) \/ GetLockToClose(g)
        BY <2>3, AcquireStep DEF GetLock, GetLockToClose, Pc
    <2>4. CASE Lookup(g) \/ FoundOnRecheck(g) \/ OpenHandle(g) \/ InitializeFails(g)
                 \/ Publish(g) \/ Probe(g)
        BY <2>4, LookupStep, FoundOnRecheckStep, OpenHandleStep, InitializeFailsStep,
           PublishStep, ProbeStep
    <2>5. CASE CacheHit(g) \/ CacheMiss(g) \/ StoreStmt(g) \/ CloseHandles(g)
        BY <2>5, CacheHitStep, CacheMissStep, StoreStmtStep, CloseHandlesStep
    <2>6. CASE RefuseEmptyName(g) \/ Query(g) \/ EndStats(g)
        BY <2>6, ReturnStep DEF RefuseEmptyName, Query, EndStats, At
    <2> QED
        BY <1>2, <2>1, <2>2, <2>3, <2>4, <2>5, <2>6 DEF Serve
<1> QED
    BY <1>1, <1>2 DEF Next

\* In every reachable state, for any goroutines and projects, the invariant holds.
THEOREM InvariantHolds == Spec => []Inv
<1> QED
    BY InitEstablishesInv, NextPreservesInv, PTL DEF Spec

\* The lock, the maps and the goroutines keep their types (conn.go:55-165).
THEOREM ManagerTypeCorrect == Spec => []TypeOK
<1>1. Inv => TypeOK
    BY DEF Inv
<1> QED
    BY <1>1, InvariantHolds, PTL

\* No interleaving of calls that open, fail to open and close loses an open handle:
\* getDB's double check and its Close on failure see to it (conn.go:66-70,119-123).
THEOREM HandlesAreKept == Spec => []NoHandleLost
<1>1. Inv => NoHandleLost
    BY DEF Inv
<1> QED
    BY <1>1, InvariantHolds, PTL

\* The map never holds a closed handle, nor one handle for two projects.
THEOREM MapStaysSound == Spec => []MapIsSound
<1>1. Inv => MapIsSound
    BY DEF Inv
<1> QED
    BY <1>1, InvariantHolds, PTL

\* A cached statement on an open handle is on its project's handle, although reading,
\* preparing and storing it are three critical sections (stmt_cache.go:12-37) and
\* Close comes in between.
THEOREM StatementsAreCurrent == Spec => []StmtIsCurrent
<1>1. Inv => StmtIsCurrent
    BY DEF Inv
<1> QED
    BY <1>1, InvariantHolds, PTL

\* Only Publish and CloseHandles write the map, with dm.mu held and no reader in.
THEOREM MapWritesAreGuarded == Spec => MapIsGuarded
<1> DEFINE A == dbs' # dbs => readers = {} /\ \E g \in Goroutines : holder = g /\ call'[g] # call[g]
<1>1. ASSUME Inv, [Next]_vars PROVE [A]_vars
    <2> SUFFICES ASSUME NEW g \in Goroutines, Begin(g) \/ BeginStats(g) \/ CloseStmts(g) \/ Serve(g),
                        dbs' # dbs
                 PROVE  readers = {} /\ holder = g /\ call'[g] # call[g]
        BY <1>1 DEF Next, vars
    <2>1. Publish(g) \/ CloseHandles(g)
        BY DEF Begin, BeginStats, CloseStmts, Serve, Lookup, AskLock, GetLock, FoundOnRecheck,
               RefuseEmptyName, OpenHandle, InitializeFails, Probe, CacheHit, CacheMiss,
               StoreStmt, Query, EndStats, AskLockToClose, GetLockToClose, Queue, Acquire
    <2>2. call[g].pc \in {"init", "close"} /\ call \in [Goroutines -> Call]
        BY <1>1, <2>1 DEF Publish, CloseHandles, At, Inv, TypeOK, Call, Pc
    <2>3. holder = g /\ readers = {}
        BY <1>1, <2>2, NoneAssumption DEF Inv, LockIsHeld
    <2>4. call'[g].pc \in {"probe", "idle"}
        BY <2>1, <2>2, GotoMoves, ReturnMoves DEF Publish, CloseHandles, Pc
    <2> QED
        BY <2>2, <2>3, <2>4
<1> QED
    BY <1>1, InvariantHolds, PTL DEF Spec, MapIsGuarded

=============================================================================
