--------------------------- MODULE ConnPoolProofs ---------------------------
(***************************************************************************)
(* The accounting of the pools, and when calls can wait for each other for *)
(* ever: for any number of callers, any calls and any limit, with Close    *)
(* and calls that open the project anew among them.                        *)
(***************************************************************************)
EXTENDS ConnPool, FiniteSetTheorems, SequenceTheorems, TLAPS

Task == {"idle", "getdb", "lock", "open", "detect", "lookup", "prepare", "store", "query",
         "fetch"}
Closing == {"no", "stmts", "handle", "done"}

\* A caller's record when m handles were opened.
Record(m) == [todo : Seq(Stage), left : 0..MaxRows, on : 0..m, task : Task]

\* A busy caller has a statement to run, and at a statement it has a handle.
HasStage ==
    \A c \in Callers :
        /\ ~At(c, "idle") => call[c].todo # <<>>
        /\ call[c].task \in {"detect", "lookup", "prepare", "store", "query"} => call[c].on # 0

\* getPreparedStmt prepares and stores only the texts it was asked for.
PreparesText ==
    \A c \in Callers : call[c].task \in {"prepare", "store"} => Stmt(c).text # Direct

\* At most one handle is open, the one in dm.dbs; dm.mu is held by the one call that
\* opens the project, and left locked only by a call that had found it unopened.
LocksInv ==
    /\ made \in {closed, closed + 1} /\ (dbs = 0 <=> made = closed)
    /\ closing # "done" => closed = 0
    /\ ~multi /\ closing # "done" => dbs # 0
    /\ \A c \in Callers : At(c, "lock") => multi \/ closing = "done"
    /\ \A c \in Callers : At(c, "open") => mu = "held"
    /\ \A c, d \in Callers : At(c, "open") /\ At(d, "open") => c = d
    /\ mu = "held" => dbs = 0 /\ \E c \in Callers : At(c, "open")
    /\ mu = "leaked" => multi \/ closing = "done"

IInv == TypeOK /\ HasStage /\ PreparesText /\ NothingLeaks /\ LocksInv

-----------------------------------------------------------------------------
(* counting the connections of a handle *)

Users(f, h) == {d \in Callers : f[d] = h}

LEMMA InUseCounts ==
    \A h : InUse(h) = Cardinality(Users(outer, h)) + Cardinality(Users(inner, h))
BY DEF InUse, RowSets, Users

LEMMA InUseCountsNext ==
    \A h : InUse(h)' = Cardinality(Users(outer', h)) + Cardinality(Users(inner', h))
BY DEF InUse, RowSets, Users

LEMMA UsersFinite ==
    ASSUME NEW f, NEW h
    PROVE  /\ IsFiniteSet(Users(f, h)) /\ Cardinality(Users(f, h)) \in Nat
           /\ Cardinality(Callers) \in Nat /\ Cardinality(Users(f, h)) <= Cardinality(Callers)
<1>1. Users(f, h) \subseteq Callers
  BY DEF Users
<1>2. IsFiniteSet(Users(f, h)) /\ Cardinality(Users(f, h)) <= Cardinality(Callers)
  BY <1>1, PoolAssumption, FS_Subset
<1>3. QED
  BY <1>2, PoolAssumption, FS_CardinalityType

\* Moving one caller from one handle to another.
LEMMA UsersMove ==
    ASSUME NEW f, NEW g, NEW c \in Callers, \A d \in Callers \ {c} : g[d] = f[d], NEW h
    PROVE  /\ g[c] # h => Cardinality(Users(g, h)) <= Cardinality(Users(f, h))
           /\ g[c] = h => Cardinality(Users(g, h)) <= Cardinality(Users(f, h)) + 1
           /\ g[c] = f[c] => Cardinality(Users(g, h)) = Cardinality(Users(f, h))
<1>1. IsFiniteSet(Users(f, h)) /\ Cardinality(Users(f, h)) \in Nat
  BY UsersFinite
<1>2. CASE g[c] = f[c]
  <2>1. Users(g, h) = Users(f, h)
    BY <1>2 DEF Users
  <2>2. QED
    BY <1>1, <1>2, <2>1
<1>3. CASE g[c] # f[c] /\ g[c] = h
  <2>1. Users(g, h) = Users(f, h) \cup {c} /\ c \notin Users(f, h)
    BY <1>3 DEF Users
  <2>2. Cardinality(Users(g, h)) = Cardinality(Users(f, h)) + 1
    BY <1>1, <2>1, FS_AddElement
  <2>3. QED
    BY <1>1, <1>3, <2>2
<1>4. CASE g[c] # f[c] /\ f[c] = h
  <2>1. Users(g, h) = Users(f, h) \ {c} /\ c \in Users(f, h)
    BY <1>4 DEF Users
  <2>2. Cardinality(Users(g, h)) = Cardinality(Users(f, h)) - 1
    BY <1>1, <2>1, FS_RemoveElement
  <2>3. QED
    BY <1>1, <1>4, <2>2
<1>5. CASE g[c] # h /\ f[c] # h
  <2>1. Users(g, h) = Users(f, h)
    BY <1>5 DEF Users
  <2>2. QED
    BY <1>1, <1>5, <2>1
<1>6. QED
  BY <1>2, <1>3, <1>4, <1>5

LEMMA UsersLeave ==
    ASSUME NEW f, NEW g, NEW c \in Callers, \A d \in Callers \ {c} : g[d] = f[d],
           NEW h, g[c] # h, f[c] = h
    PROVE  Cardinality(Users(g, h)) = Cardinality(Users(f, h)) - 1
<1>1. IsFiniteSet(Users(f, h))
  BY UsersFinite
<1>2. Users(g, h) = Users(f, h) \ {c} /\ c \in Users(f, h)
  BY DEF Users
<1>3. QED
  BY <1>1, <1>2, FS_RemoveElement

-----------------------------------------------------------------------------
(* a caller's record *)

LEMMA RecordTyped ==
    ASSUME IInv, NEW c \in Callers
    PROVE  /\ call[c] \in Record(made)
           /\ call[c].todo \in Seq(Stage) /\ call[c].left \in 0..MaxRows
           /\ call[c].on \in 0..made /\ call[c].task \in Task
           /\ ~At(c, "idle") => /\ call[c].todo # <<>>
                                /\ Head(call[c].todo) \in Stage
                                /\ Tail(call[c].todo) \in Seq(Stage)
<1>1. call[c] \in Record(made)
  BY DEF IInv, TypeOK, Task, Record
<1>2. /\ call[c].todo \in Seq(Stage) /\ call[c].left \in 0..MaxRows
      /\ call[c].on \in 0..made /\ call[c].task \in Task
  BY <1>1 DEF Record
<1>3. ~At(c, "idle") => call[c].todo # <<>>
  BY DEF IInv, HasStage
<1>4. ASSUME NEW s \in Seq(Stage), s # <<>>
      PROVE  Head(s) \in Stage /\ Tail(s) \in Seq(Stage)
  BY <1>4, HeadTailProperties
<1>5. QED
  BY <1>1, <1>2, <1>3, <1>4

\* Only c's record changes, and c stays busy only with a statement to run.
Moves(c) ==
    /\ call' \in [Callers -> Record(made')]
    /\ \A d \in Callers \ {c} : call'[d] = call[d]
    /\ call'[c].task # "idle" => call'[c].todo # <<>>

\* The others' records stay typed, because handles are only ever added.
LEMMA AssignMoves ==
    ASSUME IInv, NEW c \in Callers, made' \in Nat, made <= made', NEW r \in Record(made'),
           r.task # "idle" => r.todo # <<>>,
           call' = [call EXCEPT ![c] = r]
    PROVE  Moves(c) /\ call'[c] = r
<1>1. call \in [Callers -> Record(made)]
  BY DEF IInv, TypeOK, Record, Task
<1>2. made \in Nat
  BY DEF IInv, TypeOK
<1>3. Record(made) \subseteq Record(made')
  <2>1. 0..made \subseteq 0..made'
    BY <1>2
  <2>2. QED
    BY <2>1 DEF Record
<1>4. call \in [Callers -> Record(made')]
  BY <1>1, <1>3
<1>5. QED
  BY <1>4 DEF Moves

LEMMA MadeTyped == ASSUME IInv PROVE made \in Nat /\ made <= made
BY DEF IInv, TypeOK

LEMMA GotoMoves ==
    ASSUME IInv, NEW c \in Callers, ~At(c, "idle"), NEW t \in Task, Goto(c, t), made' = made
    PROVE  /\ Moves(c) /\ call'[c].task = t
           /\ call'[c].todo = call[c].todo /\ call'[c].on = call[c].on
<1> DEFINE r == [call[c] EXCEPT !.task = t]
<1>1. r \in Record(made')
  BY RecordTyped DEF Record
<1>2. r.task = t /\ r.todo = call[c].todo /\ r.on = call[c].on
  BY RecordTyped DEF Record
<1>3. call' = [call EXCEPT ![c] = r]
  BY DEF Goto
<1>4. Moves(c) /\ call'[c] = r
  BY <1>1, <1>2, <1>3, MadeTyped, RecordTyped, AssignMoves
<1>5. QED
  BY <1>2, <1>4

\* On with a handle.
LEMMA GotoOnMoves ==
    ASSUME IInv, NEW c \in Callers, ~At(c, "idle"), NEW t \in Task, NEW h \in 0..made',
           made' \in Nat, made <= made',
           GotoOn(c, t, h)
    PROVE  /\ Moves(c) /\ call'[c].task = t
           /\ call'[c].todo = call[c].todo /\ call'[c].on = h
<1> DEFINE r == [call[c] EXCEPT !.task = t, !.on = h]
<1>1. r \in Record(made')
  BY RecordTyped DEF Record
<1>2. r.task = t /\ r.todo = call[c].todo /\ r.on = h
  BY RecordTyped DEF Record
<1>3. call \in [Callers -> Record(made)]
  BY DEF IInv, TypeOK, Record, Task
<1>4. call' = [call EXCEPT ![c] = r]
  BY <1>3 DEF GotoOn
<1>5. Moves(c) /\ call'[c] = r
  BY <1>1, <1>2, <1>4, RecordTyped, AssignMoves
<1>6. QED
  BY <1>2, <1>5

LEMMA FreshMoves ==
    ASSUME IInv, NEW c \in Callers, NEW t \in Task, NEW todo \in Seq(Stage), todo # <<>>,
           NEW left \in 0..MaxRows, Fresh(c, t, todo, left), made' = made
    PROVE  Moves(c) /\ call'[c].task = t /\ call'[c].todo = todo /\ call'[c].on = 0
<1> DEFINE r == [todo |-> todo, task |-> t, left |-> left, on |-> 0]
<1>1. r \in Record(made')
  BY MadeTyped DEF Record
<1>2. call' = [call EXCEPT ![c] = r]
  BY DEF Fresh
<1>3. Moves(c) /\ call'[c] = r
  BY <1>1, <1>2, MadeTyped, AssignMoves
<1>4. QED
  BY <1>3

LEMMA IdleTyped == ASSUME NEW m \in Nat PROVE Idle \in Record(m) /\ Idle.task = "idle"
<1>1. <<>> \in Seq(Stage)
  OBVIOUS
<1>2. 0 \in 0..MaxRows /\ 0 \in 0..m
  BY PoolAssumption
<1>3. QED
  BY <1>1, <1>2 DEF Idle, Task, Record

LEMMA ReturnMoves ==
    ASSUME IInv, NEW c \in Callers, Return(c), made' = made
    PROVE  Moves(c) /\ call'[c].task = "idle"
<1>1. call' = [call EXCEPT ![c] = Idle] /\ Idle \in Record(made') /\ Idle.task = "idle"
  BY IdleTyped, MadeTyped DEF Return
<1>2. Moves(c) /\ call'[c] = Idle
  BY <1>1, MadeTyped, AssignMoves
<1>3. QED
  BY <1>1, <1>2

LEMMA NextStageMoves ==
    ASSUME IInv, NEW c \in Callers, ~At(c, "idle"), NextStage(c), made' = made
    PROVE  Moves(c) /\ call'[c].task \in {"idle", "getdb"}
<1>1. Tail(call[c].todo) \in Seq(Stage) /\ "getdb" \in Task /\ 0 \in 0..MaxRows
  BY RecordTyped, PoolAssumption DEF Task
<1>2. CASE Tail(call[c].todo) = <<>>
  BY <1>2, ReturnMoves DEF NextStage
<1>3. CASE Tail(call[c].todo) # <<>>
  <2>1. Fresh(c, "getdb", Tail(call[c].todo), 0)
    BY <1>3 DEF NextStage
  <2>2. QED
    BY <1>1, <1>3, <2>1, FreshMoves
<1>4. QED
  BY <1>2, <1>3

-----------------------------------------------------------------------------
(* one step of a caller *)

\* What a step of c must show: its record, its connections, the limit and the locks.
LEMMA StepKeeps ==
    ASSUME IInv, NEW c \in Callers, Moves(c), UNCHANGED <<maxOpen, multi, closed, closing>>,
           made' \in Nat, made <= made', dbs' \in {0, made'}, mu' \in {"free", "held", "leaked"},
           \A d \in Callers \ {c} : outer'[d] = outer[d] /\ inner'[d] = inner[d],
           outer' \in [Callers -> 0..made'], inner' \in [Callers -> 0..made'],
           cached' \in [Texts -> 0..made'],
           call'[c].task \in {"detect", "lookup", "prepare", "store", "query"} => call'[c].on # 0,
           call'[c].task \in {"prepare", "store"} => Stmt(c)'.text # Direct,
           inner'[c] # 0 => call'[c].task \in {"prepare", "query", "detect"},
           outer'[c] # 0 => call'[c].task # "idle" /\ Head(call'[c].todo).rows,
           \A h \in 1..made' : maxOpen > 0 => InUse(h)' <= maxOpen,
           LocksInv'
    PROVE  IInv'
<1>1. closed \in 0..made' /\ closing \in Closing /\ maxOpen \in Limits /\ multi \in BOOLEAN
  BY DEF IInv, TypeOK, Closing
<1>2. TypeOK'
  BY <1>1 DEF TypeOK, Moves, Record, Task, Closing
<1>3. HasStage'
  BY DEF IInv, HasStage, Moves, At
<1>4. PreparesText'
  <2> SUFFICES ASSUME NEW d \in Callers, call'[d].task \in {"prepare", "store"}
               PROVE  Stmt(d)'.text # Direct
    BY DEF PreparesText
  <2>1. CASE d = c
    BY <2>1
  <2>2. CASE d # c
    <3>1. call'[d] = call[d] /\ outer'[d] = outer[d]
      BY <2>2 DEF Moves
    <3>2. Stmt(d)' = Stmt(d)
      BY <3>1 DEF Stmt, HasRows
    <3>3. QED
      BY <3>1, <3>2 DEF IInv, PreparesText
  <2>3. QED
    BY <2>1, <2>2
<1>5. NothingLeaks'
  <2>1. ASSUME NEW d \in Callers
        PROVE  /\ inner'[d] # 0 => call'[d].task \in {"prepare", "query", "detect"}
               /\ outer'[d] # 0 => call'[d].task # "idle" /\ Head(call'[d].todo).rows
    <3>1. CASE d = c
      BY <3>1
    <3>2. CASE d # c
      <4>1. call'[d] = call[d] /\ outer'[d] = outer[d] /\ inner'[d] = inner[d]
        BY <3>2 DEF Moves
      <4>2. QED
        BY <4>1 DEF IInv, NothingLeaks, HasRows, At
    <3>3. QED
      BY <3>1, <3>2
  <2>2. QED
    BY <2>1 DEF NothingLeaks, HasRows, At
<1>6. QED
  BY <1>2, <1>3, <1>4, <1>5 DEF IInv

\* A caller that neither has nor takes dm.mu.
LEMMA LocksStay ==
    ASSUME IInv, NEW c \in Callers, Moves(c), UNCHANGED <<multi, locks, closing>>,
           ~At(c, "open"), call'[c].task # "open", call'[c].task = "lock" => dbs = 0
    PROVE  LocksInv'
<1>1. /\ made' = made /\ closed' = closed /\ dbs' = dbs /\ mu' = mu
      /\ multi' = multi /\ closing' = closing
  BY DEF locks
<1>2. \A d \in Callers : call'[d].task = "open" <=> call[d].task = "open"
  BY DEF Moves, At
<1>3. \A d \in Callers : call'[d].task = "lock" => call[d].task = "lock" \/ dbs = 0
  BY DEF Moves
<1>4. multi \in BOOLEAN
  BY DEF IInv, TypeOK
<1>5. \A d \in Callers : call'[d].task = "lock" => multi \/ closing = "done"
  BY <1>3, <1>4 DEF IInv, LocksInv, At
<1>6. \A d \in Callers : call'[d].task = "open" => mu = "held"
  BY <1>2 DEF IInv, LocksInv, At
<1>7. \A d, e \in Callers : call'[d].task = "open" /\ call'[e].task = "open" => d = e
  BY <1>2 DEF IInv, LocksInv, At
<1>8. mu = "held" => dbs = 0 /\ \E d \in Callers : call'[d].task = "open"
  BY <1>2 DEF IInv, LocksInv, At
<1>9. QED
  BY <1>1, <1>5, <1>6, <1>7, <1>8 DEF IInv, LocksInv, At

\* A step that leaves every connection where it is.
LEMMA QuietStepKeeps ==
    ASSUME IInv, NEW c \in Callers, Moves(c),
           UNCHANGED <<maxOpen, multi, locks, outer, inner, closing>>,
           cached' \in [Texts -> 0..made],
           ~At(c, "open"), call'[c].task # "open", call'[c].task = "lock" => dbs = 0,
           call'[c].task \in {"detect", "lookup", "prepare", "store", "query"} => call'[c].on # 0,
           call'[c].task \in {"prepare", "store"} => Stmt(c)'.text # Direct,
           inner[c] # 0 => call'[c].task \in {"prepare", "query", "detect"},
           outer[c] # 0 => call'[c].task # "idle" /\ Head(call'[c].todo).rows
    PROVE  IInv'
<1>1. LocksInv'
  BY LocksStay
<1>2. \A h : InUse(h)' = InUse(h)
  BY DEF InUse, RowSets
<1>3. /\ made' = made /\ closed' = closed /\ dbs' = dbs /\ mu' = mu
  BY DEF locks
<1>4. \A h \in 1..made' : maxOpen > 0 => InUse(h)' <= maxOpen
  BY <1>2, <1>3 DEF IInv, NothingLeaks
<1>5. /\ made \in Nat /\ made <= made /\ dbs \in {0, made} /\ mu \in {"free", "held", "leaked"}
      /\ outer \in [Callers -> 0..made] /\ inner \in [Callers -> 0..made]
  BY DEF IInv, TypeOK
<1>6. QED
  BY <1>1, <1>3, <1>4, <1>5, StepKeeps

LEMMA HoldsNothing ==
    ASSUME IInv, NEW c \in Callers
    PROVE  /\ call[c].task \notin {"prepare", "query", "detect"} => inner[c] = 0
           /\ outer[c] # 0 => Head(call[c].todo).rows
           /\ At(c, "idle") => outer[c] = 0
BY DEF IInv, NothingLeaks, HasRows

LEMMA InvokeKeeps == ASSUME IInv, NEW c \in Callers, Invoke(c) PROVE IInv'
<1>1. PICK stages \in Calls : Fresh(c, "getdb", stages, 0)
  BY DEF Invoke
<1>2. stages \in Seq(Stage) /\ stages # <<>> /\ 0 \in 0..MaxRows /\ "getdb" \in Task
  BY PoolAssumption DEF Task
<1>3. /\ At(c, "idle") /\ made' = made /\ cached' = cached
      /\ UNCHANGED <<maxOpen, multi, locks, outer, inner, closing>>
  BY DEF Invoke, locks
<1>4. Moves(c) /\ call'[c].task = "getdb"
  BY <1>1, <1>2, <1>3, FreshMoves
<1>5. inner[c] = 0 /\ outer[c] = 0
  BY <1>3, HoldsNothing DEF At
<1>6. cached \in [Texts -> 0..made] /\ ~At(c, "open")
  BY <1>3 DEF IInv, TypeOK, At
<1>7. QED
  BY <1>3, <1>4, <1>5, <1>6, QuietStepKeeps

LEMMA GetDBKeeps == ASSUME IInv, NEW c \in Callers, GetDB(c) PROVE IInv'
<1> DEFINE t == IF dbs = 0 THEN "lock" ELSE "lookup"
<1>1. /\ ~At(c, "idle") /\ ~At(c, "open") /\ made' = made /\ cached' = cached
      /\ UNCHANGED <<maxOpen, multi, locks, outer, inner, closing>>
      /\ GotoOn(c, t, dbs)
      /\ call[c].task \notin {"prepare", "query", "detect"}
  BY DEF GetDB, At, locks
<1>2. dbs \in 0..made' /\ t \in Task /\ cached \in [Texts -> 0..made]
  BY <1>1 DEF IInv, TypeOK, Task
<1>3. /\ Moves(c) /\ call'[c].task = t
      /\ call'[c].todo = call[c].todo /\ call'[c].on = dbs
  BY <1>1, <1>2, MadeTyped, GotoOnMoves
<1>4. inner[c] = 0 /\ (outer[c] # 0 => Head(call[c].todo).rows)
  BY <1>1, HoldsNothing
<1>5. QED
  BY <1>1, <1>2, <1>3, <1>4, QuietStepKeeps

\* The steps between statements that only move the caller on.
LEMMA GotoKeeps ==
    ASSUME IInv, NEW c \in Callers, NEW t \in {"prepare", "store", "query"},
           call[c].task \in {"lookup", "store"},
           t \in {"prepare", "store"} => Stmt(c).text # Direct,
           Moves(c), call'[c].task = t, call'[c].todo = call[c].todo, call'[c].on # 0,
           UNCHANGED <<maxOpen, multi, locks, outer, inner, closing>>,
           cached' \in [Texts -> 0..made]
    PROVE  IInv'
<1>1. Stmt(c)' = Stmt(c)
  BY DEF Stmt, HasRows
<1>2. inner[c] = 0 /\ (outer[c] # 0 => Head(call[c].todo).rows) /\ ~At(c, "open")
  BY HoldsNothing DEF At
<1>3. QED
  BY <1>1, <1>2, QuietStepKeeps

LEMMA StmtText ==
    ASSUME IInv, NEW c \in Callers, ~At(c, "idle")
    PROVE  Stmt(c) \in Stage /\ Stmt(c).text \in Texts \cup {Direct}
<1>1. Observations \in Stage
  BY PoolAssumption DEF Observations, Stage
<1>2. Stmt(c) \in Stage
  BY <1>1, RecordTyped DEF Stmt
<1>3. QED
  BY <1>2 DEF Stage

LEMMA LookupKeeps == ASSUME IInv, NEW c \in Callers, Lookup(c) PROVE IInv'
<1>1. /\ ~At(c, "idle") /\ call[c].task = "lookup" /\ made' = made
      /\ UNCHANGED <<maxOpen, multi, locks, outer, inner, closing>>
      /\ cached' \in [Texts -> 0..made]
  BY DEF Lookup, At, locks, IInv, TypeOK
<1>2. call[c].on # 0
  BY <1>1 DEF IInv, HasStage
<1>3. ASSUME NEW t \in {"prepare", "query"}, Goto(c, t), t = "prepare" => Stmt(c).text # Direct
      PROVE  IInv'
  <2>1. t \in Task
    BY DEF Task
  <2>2. Moves(c) /\ call'[c].task = t /\ call'[c].todo = call[c].todo /\ call'[c].on = call[c].on
    BY <1>1, <1>3, <2>1, GotoMoves
  <2>3. QED
    BY <1>1, <1>2, <1>3, <2>2, GotoKeeps
<1> DEFINE h == cached[Stmt(c).text]
<1>4. ASSUME Stmt(c).text # Direct, h # 0, GotoOn(c, "query", h)
      PROVE  IInv'
  <2>1. Stmt(c).text \in Texts /\ h \in 0..made' /\ "query" \in Task
    BY <1>1, <1>4, StmtText DEF IInv, TypeOK, Task
  <2>2. Moves(c) /\ call'[c].task = "query" /\ call'[c].todo = call[c].todo /\ call'[c].on = h
    BY <1>1, <1>4, <2>1, MadeTyped, GotoOnMoves
  <2>3. QED
    BY <1>1, <1>4, <2>2, GotoKeeps
<1>5. \/ \E t \in {"prepare", "query"} : Goto(c, t) /\ (t = "prepare" => Stmt(c).text # Direct)
      \/ Stmt(c).text # Direct /\ h # 0 /\ GotoOn(c, "query", h)
  BY DEF Lookup
<1>6. QED
  BY <1>3, <1>4, <1>5

LEMMA StoreKeeps == ASSUME IInv, NEW c \in Callers, Store(c) PROVE IInv'
<1>1. /\ ~At(c, "idle") /\ call[c].task = "store" /\ made' = made /\ Goto(c, "query")
      /\ UNCHANGED <<maxOpen, multi, locks, outer, inner, closing>>
      /\ cached' = [cached EXCEPT ![Stmt(c).text] = call[c].on]
  BY DEF Store, At, locks
<1>2. call[c].on # 0 /\ call[c].on \in 0..made /\ "query" \in Task
  BY <1>1, RecordTyped DEF IInv, HasStage, Task
<1>3. cached' \in [Texts -> 0..made]
  BY <1>1, <1>2 DEF IInv, TypeOK
<1>4. Moves(c) /\ call'[c].task = "query" /\ call'[c].todo = call[c].todo /\ call'[c].on = call[c].on
  BY <1>1, <1>2, GotoMoves
<1>5. QED
  BY <1>1, <1>2, <1>3, <1>4, GotoKeeps

LEMMA FetchKeeps == ASSUME IInv, NEW c \in Callers, Fetch(c) PROVE IInv'
<1>1. /\ call[c].task = "fetch" /\ ~At(c, "idle") /\ ~At(c, "open") /\ made' = made
      /\ UNCHANGED <<maxOpen, multi, locks, outer, inner, closing>>
      /\ cached' \in [Texts -> 0..made]
      /\ Fresh(c, "getdb", call[c].todo, call[c].left - 1) /\ call[c].left > 0
  BY DEF Fetch, At, locks, IInv, TypeOK
<1>2. call[c].left - 1 \in 0..MaxRows /\ "getdb" \in Task
  BY <1>1, RecordTyped, PoolAssumption DEF Task
<1>3. call[c].todo \in Seq(Stage) /\ call[c].todo # <<>>
  BY <1>1, RecordTyped
<1>4. Moves(c) /\ call'[c].task = "getdb" /\ call'[c].todo = call[c].todo
  BY <1>1, <1>2, <1>3, FreshMoves
<1>5. inner[c] = 0 /\ (outer[c] # 0 => Head(call[c].todo).rows)
  BY <1>1, HoldsNothing
<1>6. QED
  BY <1>1, <1>4, <1>5, QuietStepKeeps

LEMMA TakeKeeps == ASSUME IInv, NEW c \in Callers, Take(c) PROVE IInv'
<1> DEFINE h == call[c].on
<1>1. /\ inner[c] = 0 /\ call[c].task \in {"prepare", "query", "detect"}
      /\ UNCHANGED <<maxOpen, multi, locks, outer, cached, closing, call>>
      /\ inner' = [inner EXCEPT ![c] = h] /\ Free(h)
  BY DEF Take, Asks
<1>2. made' = made /\ closed' = closed /\ dbs' = dbs /\ mu' = mu
  BY <1>1 DEF locks
<1>3. Moves(c)
  BY <1>1, <1>2 DEF Moves, IInv, TypeOK, Record, Task, HasStage, At
<1>4. ~At(c, "open") /\ call'[c].task # "open" /\ call'[c].task # "lock"
  BY <1>1 DEF At
<1>5. LocksInv'
  BY <1>1, <1>3, <1>4, LocksStay
<1>6. /\ outer \in [Callers -> 0..made] /\ inner \in [Callers -> 0..made]
      /\ cached \in [Texts -> 0..made] /\ made \in Nat /\ made <= made
      /\ dbs \in {0, made} /\ mu \in {"free", "held", "leaked"} /\ maxOpen \in Nat
  BY PoolAssumption DEF IInv, TypeOK
<1>7. inner' \in [Callers -> 0..made] /\ inner'[c] = h /\ \A d \in Callers \ {c} : inner'[d] = inner[d]
  BY <1>1, <1>6, RecordTyped
<1>8. ASSUME NEW g \in 1..made', maxOpen > 0 PROVE InUse(g)' <= maxOpen
  <2>1. InUse(g) <= maxOpen
    BY <1>2, <1>8 DEF IInv, NothingLeaks
  <2>2. /\ InUse(g) = Cardinality(Users(outer, g)) + Cardinality(Users(inner, g))
        /\ InUse(g)' = Cardinality(Users(outer, g)) + Cardinality(Users(inner', g))
    BY <1>1, InUseCounts, InUseCountsNext
  <2>3. /\ Cardinality(Users(outer, g)) \in Nat /\ Cardinality(Users(inner, g)) \in Nat
        /\ Cardinality(Users(inner', g)) \in Nat
    BY UsersFinite
  <2>4. CASE g = h
    <3>1. Cardinality(Users(inner', g)) <= Cardinality(Users(inner, g)) + 1
      BY <1>7, <2>4, UsersMove
    <3>2. InUse(g) < maxOpen
      BY <1>1, <1>8, <2>4 DEF Free
    <3>3. QED
      BY <1>6, <2>2, <2>3, <3>1, <3>2
  <2>5. CASE g # h
    <3>1. Cardinality(Users(inner', g)) <= Cardinality(Users(inner, g))
      BY <1>7, <2>5, UsersMove
    <3>2. QED
      BY <1>6, <2>1, <2>2, <2>3, <3>1
  <2>6. QED
    BY <2>4, <2>5
<1>9. Stmt(c)' = Stmt(c)
  BY <1>1 DEF Stmt, HasRows
<1>10. outer[c] # 0 => Head(call[c].todo).rows
  BY HoldsNothing
<1>11. call[c].task = "prepare" => Stmt(c).text # Direct
  BY DEF IInv, PreparesText
<1>12. call[c].on # 0
  BY <1>1 DEF IInv, HasStage
<1>13. QED
  BY <1>1, <1>2, <1>3, <1>5, <1>6, <1>7, <1>8, <1>9, <1>10, <1>11, <1>12, StepKeeps

\* c gives its statement's connection back, and keeps or gives back that of its row set.
LEMMA LimitAfterGivingBack ==
    ASSUME IInv, NEW c \in Callers, UNCHANGED <<maxOpen, made>>,
           inner' = [inner EXCEPT ![c] = 0], outer' \in {outer, [outer EXCEPT ![c] = 0]}
    PROVE  /\ inner' \in [Callers -> 0..made] /\ outer' \in [Callers -> 0..made]
           /\ \A d \in Callers \ {c} : outer'[d] = outer[d] /\ inner'[d] = inner[d]
           /\ \A h \in 1..made' : maxOpen > 0 => InUse(h)' <= maxOpen
<1>1. /\ outer \in [Callers -> 0..made] /\ inner \in [Callers -> 0..made]
      /\ made \in Nat /\ maxOpen \in Nat
  BY PoolAssumption DEF IInv, TypeOK
<1>2. /\ inner' \in [Callers -> 0..made] /\ inner'[c] = 0
      /\ \A d \in Callers \ {c} : inner'[d] = inner[d]
  BY <1>1
<1>3. /\ outer' \in [Callers -> 0..made] /\ outer'[c] \in {0, outer[c]}
      /\ \A d \in Callers \ {c} : outer'[d] = outer[d]
  BY <1>1
<1>4. ASSUME NEW h \in 1..made', maxOpen > 0 PROVE InUse(h)' <= maxOpen
  <2>1. h # 0 /\ InUse(h) <= maxOpen
    BY <1>1, <1>4 DEF IInv, NothingLeaks
  <2>2. Cardinality(Users(inner', h)) <= Cardinality(Users(inner, h))
    BY <1>2, <2>1, UsersMove
  <2>3. Cardinality(Users(outer', h)) <= Cardinality(Users(outer, h))
    <3>1. Cardinality(Users(outer, h)) \in Nat
      BY UsersFinite
    <3>2. CASE outer'[c] = 0
      BY <1>3, <2>1, <3>2, UsersMove
    <3>3. CASE outer'[c] = outer[c]
      BY <1>3, <3>1, <3>3, UsersMove
    <3>4. QED
      BY <1>3, <3>2, <3>3
  <2>4. /\ Cardinality(Users(outer, h)) \in Nat /\ Cardinality(Users(inner, h)) \in Nat
        /\ Cardinality(Users(outer', h)) \in Nat /\ Cardinality(Users(inner', h)) \in Nat
    BY UsersFinite
  <2>5. /\ InUse(h) = Cardinality(Users(outer, h)) + Cardinality(Users(inner, h))
        /\ InUse(h)' = Cardinality(Users(outer', h)) + Cardinality(Users(inner', h))
    BY InUseCounts, InUseCountsNext
  <2>6. QED
    BY <1>1, <2>1, <2>2, <2>3, <2>4, <2>5
<1>5. QED
  BY <1>2, <1>3, <1>4

LEMMA GivingBackKeeps ==
    ASSUME IInv, NEW c \in Callers, Moves(c),
           UNCHANGED <<maxOpen, multi, dbs, made, closed, cached, closing>>,
           mu' \in {"free", "held", "leaked"}, LocksInv',
           inner' = [inner EXCEPT ![c] = 0], outer' \in {outer, [outer EXCEPT ![c] = 0]},
           call'[c].task \in {"detect", "lookup", "prepare", "store", "query"} => call'[c].on # 0,
           call'[c].task \in {"prepare", "store"} => Stmt(c)'.text # Direct,
           outer'[c] # 0 => call'[c].task # "idle" /\ Head(call'[c].todo).rows
    PROVE  IInv'
<1>1. /\ made \in Nat /\ made <= made /\ dbs \in {0, made} /\ cached \in [Texts -> 0..made]
      /\ inner \in [Callers -> 0..made]
  BY DEF IInv, TypeOK
<1>2. inner'[c] = 0
  BY <1>1
<1>3. /\ inner' \in [Callers -> 0..made] /\ outer' \in [Callers -> 0..made]
      /\ \A d \in Callers \ {c} : outer'[d] = outer[d] /\ inner'[d] = inner[d]
      /\ \A h \in 1..made' : maxOpen > 0 => InUse(h)' <= maxOpen
  BY LimitAfterGivingBack
<1>4. QED
  BY <1>1, <1>2, <1>3, StepKeeps

\* The same for a caller that neither has nor takes dm.mu.
LEMMA QuietGivingBackKeeps ==
    ASSUME IInv, NEW c \in Callers, Moves(c), ~At(c, "open"),
           UNCHANGED <<maxOpen, multi, locks, cached, closing>>,
           inner' = [inner EXCEPT ![c] = 0], outer' \in {outer, [outer EXCEPT ![c] = 0]},
           call'[c].task \notin {"open", "lock"},
           call'[c].task \in {"detect", "lookup", "prepare", "store", "query"} => call'[c].on # 0,
           call'[c].task \in {"prepare", "store"} => Stmt(c)'.text # Direct,
           outer'[c] # 0 => call'[c].task # "idle" /\ Head(call'[c].todo).rows
    PROVE  IInv'
<1>1. LocksInv'
  BY LocksStay
<1>2. mu' \in {"free", "held", "leaked"} /\ UNCHANGED <<dbs, made, closed>>
  BY DEF locks, IInv, TypeOK
<1>3. QED
  BY <1>1, <1>2, GivingBackKeeps

LEMMA DetectKeeps == ASSUME IInv, NEW c \in Callers, Detect(c) PROVE IInv'
<1>1. /\ ~At(c, "idle") /\ ~At(c, "open") /\ Goto(c, "lookup") /\ "lookup" \in Task
      /\ UNCHANGED <<maxOpen, multi, locks, cached, closing>> /\ made' = made
      /\ inner' = [inner EXCEPT ![c] = 0] /\ outer' = outer /\ call[c].task = "detect"
  BY DEF Detect, At, Task, locks
<1>2. Moves(c) /\ call'[c].task = "lookup" /\ call'[c].todo = call[c].todo /\ call'[c].on = call[c].on
  BY <1>1, GotoMoves
<1>3. call[c].on # 0 /\ (outer[c] # 0 => Head(call[c].todo).rows)
  BY <1>1, HoldsNothing DEF IInv, HasStage
<1>4. QED
  BY <1>1, <1>2, <1>3, QuietGivingBackKeeps

LEMMA PrepareKeeps == ASSUME IInv, NEW c \in Callers, Prepare(c) PROVE IInv'
<1>1. /\ ~At(c, "idle") /\ ~At(c, "open") /\ Goto(c, "store") /\ "store" \in Task
      /\ UNCHANGED <<maxOpen, multi, locks, cached, closing>> /\ made' = made
      /\ inner' = [inner EXCEPT ![c] = 0] /\ outer' = outer /\ call[c].task = "prepare"
  BY DEF Prepare, At, Task, locks
<1>2. Moves(c) /\ call'[c].task = "store" /\ call'[c].todo = call[c].todo /\ call'[c].on = call[c].on
  BY <1>1, GotoMoves
<1>3. call[c].on # 0 /\ (outer[c] # 0 => Head(call[c].todo).rows)
  BY <1>1, HoldsNothing DEF IInv, HasStage
<1>4. Stmt(c)' = Stmt(c) /\ Stmt(c).text # Direct
  BY <1>1, <1>2 DEF Stmt, HasRows, IInv, PreparesText
<1>5. QED
  BY <1>1, <1>2, <1>3, <1>4, QuietGivingBackKeeps

LEMMA RunKeeps == ASSUME IInv, NEW c \in Callers, Run(c) PROVE IInv'
<1>1. /\ ~At(c, "idle") /\ ~At(c, "open") /\ made' = made
      /\ UNCHANGED <<maxOpen, multi, locks, cached, closing>>
      /\ inner' = [inner EXCEPT ![c] = 0] /\ outer' = outer
  BY DEF Run, At, locks
<1>2. CASE outer[c] # 0
  <2>1. Fresh(c, "fetch", call[c].todo, call[c].left) /\ "fetch" \in Task
    BY <1>2 DEF Run, HasRows, Task
  <2>2. call[c].todo \in Seq(Stage) /\ call[c].todo # <<>> /\ call[c].left \in 0..MaxRows
    BY <1>1, RecordTyped
  <2>3. Moves(c) /\ call'[c].task = "fetch" /\ call'[c].todo = call[c].todo
    BY <1>1, <2>1, <2>2, FreshMoves
  <2>4. Head(call[c].todo).rows
    BY <1>2, HoldsNothing
  <2>5. QED
    BY <1>1, <2>3, <2>4, QuietGivingBackKeeps
<1>3. CASE outer[c] = 0
  <2>1. Moves(c) /\ call'[c].task \in {"idle", "getdb"}
    BY <1>1, <1>3, NextStageMoves DEF Run, HasRows
  <2>2. QED
    BY <1>1, <1>3, <2>1, QuietGivingBackKeeps
<1>4. QED
  BY <1>2, <1>3

LEMMA EndRowsKeeps == ASSUME IInv, NEW c \in Callers, EndRows(c) PROVE IInv'
<1>1. /\ ~At(c, "idle") /\ ~At(c, "open") /\ made' = made /\ NextStage(c)
      /\ UNCHANGED <<maxOpen, multi, locks, cached, closing>>
      /\ inner' = inner /\ outer' = [outer EXCEPT ![c] = 0] /\ call[c].task = "fetch"
  BY DEF EndRows, At, locks
<1>2. inner[c] = 0 /\ inner \in [Callers -> 0..made] /\ outer \in [Callers -> 0..made]
  BY <1>1, HoldsNothing DEF IInv, TypeOK
<1>3. inner' = [inner EXCEPT ![c] = 0] /\ outer'[c] = 0
  BY <1>1, <1>2
<1>4. Moves(c) /\ call'[c].task \in {"idle", "getdb"}
  BY <1>1, NextStageMoves
<1>5. QED
  BY <1>1, <1>3, <1>4, QuietGivingBackKeeps

LEMMA BreakOffKeeps == ASSUME IInv, NEW c \in Callers, BreakOff(c) PROVE IInv'
<1>1. /\ ~At(c, "open") /\ made' = made /\ Return(c)
      /\ UNCHANGED <<maxOpen, multi, locks, cached, closing>>
      /\ inner' = inner /\ outer' = [outer EXCEPT ![c] = 0] /\ call[c].task = "fetch"
  BY DEF BreakOff, At, locks
<1>2. inner[c] = 0 /\ inner \in [Callers -> 0..made] /\ outer \in [Callers -> 0..made]
  BY <1>1, HoldsNothing DEF IInv, TypeOK
<1>3. inner' = [inner EXCEPT ![c] = 0] /\ outer'[c] = 0
  BY <1>1, <1>2
<1>4. Moves(c) /\ call'[c].task = "idle"
  BY <1>1, ReturnMoves
<1>5. QED
  BY <1>1, <1>3, <1>4, QuietGivingBackKeeps

LEMMA OpenRowsKeeps == ASSUME IInv, NEW c \in Callers, OpenRows(c) PROVE IInv'
<1> DEFINE h == inner[c]
<1>1. /\ ~At(c, "idle") /\ ~At(c, "open") /\ h # 0 /\ Stmt(c).rows
      /\ UNCHANGED <<maxOpen, multi, locks, cached, closing>>
      /\ inner' = [inner EXCEPT ![c] = 0] /\ outer' = [outer EXCEPT ![c] = h]
  BY DEF OpenRows, At
<1>2. made' = made /\ closed' = closed /\ dbs' = dbs /\ mu' = mu
  BY <1>1 DEF locks
<1>3. PICK n \in 0..MaxRows : Fresh(c, "fetch", call[c].todo, n)
  BY DEF OpenRows
<1>4. call[c].todo \in Seq(Stage) /\ call[c].todo # <<>> /\ "fetch" \in Task
  BY <1>1, RecordTyped DEF Task
<1>5. Moves(c) /\ call'[c].task = "fetch" /\ call'[c].todo = call[c].todo
  BY <1>2, <1>3, <1>4, FreshMoves
\* The statements run while a row set is open are not of the kind that opens one.
<1>6. outer[c] = 0 /\ Head(call[c].todo).rows
  BY <1>1 DEF Stmt, Observations, HasRows
<1>7. /\ outer \in [Callers -> 0..made] /\ inner \in [Callers -> 0..made]
      /\ cached \in [Texts -> 0..made] /\ made \in Nat /\ made <= made
      /\ dbs \in {0, made} /\ mu \in {"free", "held", "leaked"} /\ maxOpen \in Nat
  BY PoolAssumption DEF IInv, TypeOK
<1>8. /\ inner' \in [Callers -> 0..made] /\ inner'[c] = 0
      /\ \A d \in Callers \ {c} : inner'[d] = inner[d]
  BY <1>1, <1>7
<1>9. /\ outer' \in [Callers -> 0..made] /\ outer'[c] = h
      /\ \A d \in Callers \ {c} : outer'[d] = outer[d]
  BY <1>1, <1>7
<1>10. ASSUME NEW g \in 1..made', maxOpen > 0 PROVE InUse(g)' <= maxOpen
  <2>1. InUse(g) <= maxOpen /\ g # 0
    BY <1>2, <1>7, <1>10 DEF IInv, NothingLeaks
  <2>2. /\ InUse(g) = Cardinality(Users(outer, g)) + Cardinality(Users(inner, g))
        /\ InUse(g)' = Cardinality(Users(outer', g)) + Cardinality(Users(inner', g))
    BY InUseCounts, InUseCountsNext
  <2>3. /\ Cardinality(Users(outer, g)) \in Nat /\ Cardinality(Users(inner, g)) \in Nat
        /\ Cardinality(Users(outer', g)) \in Nat /\ Cardinality(Users(inner', g)) \in Nat
    BY UsersFinite
  <2>4. CASE g = h
    <3>1. inner'[c] # g /\ inner[c] = g /\ outer'[c] = g
      BY <1>8, <1>9, <2>1, <2>4
    <3>2. Cardinality(Users(inner', g)) = Cardinality(Users(inner, g)) - 1
      BY <1>8, <3>1, UsersLeave
    <3>3. Cardinality(Users(outer', g)) <= Cardinality(Users(outer, g)) + 1
      BY <1>9, <3>1, UsersMove
    <3>4. QED
      BY <1>7, <2>1, <2>2, <2>3, <3>2, <3>3
  <2>5. CASE g # h
    <3>1. Cardinality(Users(inner', g)) <= Cardinality(Users(inner, g))
      BY <1>8, <2>1, UsersMove
    <3>2. Cardinality(Users(outer', g)) <= Cardinality(Users(outer, g))
      BY <1>9, <2>5, UsersMove
    <3>3. QED
      BY <1>7, <2>1, <2>2, <2>3, <3>1, <3>2
  <2>6. QED
    BY <2>4, <2>5
<1>11. LocksInv'
  BY <1>1, <1>5, LocksStay
<1>12. QED
  BY <1>1, <1>2, <1>5, <1>6, <1>7, <1>8, <1>9, <1>10, <1>11, StepKeeps

LEMMA GiveUpKeeps ==
    ASSUME IInv, NEW c \in Callers, ~At(c, "idle"), ~At(c, "lock"), GiveUp(c)
    PROVE  IInv'
<1>1. /\ UNCHANGED <<maxOpen, multi, dbs, made, closed, cached, closing>>
      /\ inner' = [inner EXCEPT ![c] = 0] /\ mu' = (IF At(c, "open") THEN "free" ELSE mu)
  BY DEF GiveUp
<1>2. outer \in [Callers -> 0..made] /\ mu \in {"free", "held", "leaked"} /\ multi \in BOOLEAN
  BY DEF IInv, TypeOK
<1>3. /\ Moves(c) /\ outer' \in {outer, [outer EXCEPT ![c] = 0]}
      /\ call'[c].task \in {"lookup", "fetch", "idle"}
      /\ call'[c].task = "lookup" => call'[c].on # 0
      /\ outer'[c] # 0 => call'[c].task # "idle" /\ Head(call'[c].todo).rows
  <2>1. CASE At(c, "detect")
    <3>1. Goto(c, "lookup") /\ outer' = outer /\ "lookup" \in Task
      BY <2>1 DEF GiveUp, Task
    <3>2. /\ Moves(c) /\ call'[c].task = "lookup"
          /\ call'[c].todo = call[c].todo /\ call'[c].on = call[c].on
      BY <1>1, <3>1, GotoMoves
    <3>3. call[c].on # 0 /\ (outer[c] # 0 => Head(call[c].todo).rows)
      BY <2>1, HoldsNothing DEF IInv, HasStage, At
    <3>4. QED
      BY <3>1, <3>2, <3>3
  <2>2. CASE ~At(c, "detect") /\ Skips(c)
    <3>1. Fresh(c, "fetch", call[c].todo, call[c].left) /\ outer' = outer /\ "fetch" \in Task
      BY <2>2 DEF GiveUp, Task
    <3>2. call[c].todo \in Seq(Stage) /\ call[c].todo # <<>> /\ call[c].left \in 0..MaxRows
      BY RecordTyped
    <3>3. Moves(c) /\ call'[c].task = "fetch" /\ call'[c].todo = call[c].todo
      BY <1>1, <3>1, <3>2, FreshMoves
    <3>4. Head(call[c].todo).rows
      BY <2>2, HoldsNothing DEF Skips, HasRows
    <3>5. QED
      BY <3>1, <3>3, <3>4
  <2>3. CASE ~At(c, "detect") /\ ~Skips(c)
    <3>1. Return(c) /\ outer' = [outer EXCEPT ![c] = 0]
      BY <2>3 DEF GiveUp
    <3>2. Moves(c) /\ call'[c].task = "idle" /\ outer'[c] = 0
      BY <1>1, <1>2, <3>1, ReturnMoves
    <3>3. QED
      BY <3>1, <3>2
  <2>4. QED
    BY <2>1, <2>2, <2>3
<1>4. LocksInv'
  <2>1. CASE At(c, "open")
    <3>1. mu' = "free"
      BY <1>1, <2>1
    <3>2. ASSUME NEW d \in Callers, d # c PROVE call[d].task # "open" /\ call'[d] = call[d]
      BY <1>3, <2>1, <3>2 DEF Moves, IInv, LocksInv, At
    <3>3. \A d \in Callers : call'[d].task # "open"
      BY <1>3, <3>2
    <3>4. \A d \in Callers : call'[d].task = "lock" => multi \/ closing = "done"
      BY <1>3 DEF Moves, IInv, LocksInv, At
    <3>5. QED
      BY <1>1, <3>1, <3>3, <3>4 DEF IInv, LocksInv, At
  <2>2. CASE ~At(c, "open")
    BY <1>1, <1>3, <2>2, LocksStay DEF locks
  <2>3. QED
    BY <2>1, <2>2
<1>5. mu' \in {"free", "held", "leaked"}
  BY <1>1, <1>2
<1>6. QED
  BY <1>1, <1>3, <1>4, <1>5, GivingBackKeeps

LEMMA ErrorsKeep ==
    ASSUME IInv, NEW c \in Callers, Fail(c) \/ BreakOff(c) \/ TurnedAway(c)
    PROVE  IInv'
<1>1. CASE Fail(c)
  BY <1>1, GiveUpKeeps DEF Fail, At
<1>2. CASE TurnedAway(c)
  BY <1>2, GiveUpKeeps DEF TurnedAway, Asks, At
<1>3. CASE BreakOff(c)
  BY <1>3, BreakOffKeeps
<1>4. QED
  BY <1>1, <1>2, <1>3

-----------------------------------------------------------------------------
(* dm.mu *)

LEMMA LockKeeps == ASSUME IInv, NEW c \in Callers, Lock(c) PROVE IInv'
<1> DEFINE t == IF dbs = 0 THEN "open" ELSE "lookup"
<1>1. /\ At(c, "lock") /\ ~At(c, "idle") /\ mu = "free" /\ GotoOn(c, t, dbs)
      /\ UNCHANGED <<maxOpen, multi, dbs, made, closed, outer, inner, cached, closing>>
      /\ mu' = (IF dbs = 0 THEN "held" ELSE "leaked")
  BY DEF Lock, At
<1>2. /\ outer \in [Callers -> 0..made] /\ inner \in [Callers -> 0..made]
      /\ cached \in [Texts -> 0..made] /\ made \in Nat /\ made <= made
      /\ dbs \in {0, made} /\ maxOpen \in Nat /\ multi \in BOOLEAN
      /\ dbs \in 0..made' /\ t \in Task
  BY <1>1, PoolAssumption DEF IInv, TypeOK, Task
<1>3. Moves(c) /\ call'[c].task = t /\ call'[c].todo = call[c].todo /\ call'[c].on = dbs
  BY <1>1, <1>2, GotoOnMoves
<1>4. inner[c] = 0 /\ (outer[c] # 0 => Head(call[c].todo).rows)
  BY <1>1, HoldsNothing DEF At
<1>5. \A h : InUse(h)' = InUse(h)
  BY <1>1 DEF InUse, RowSets
<1>6. \A h \in 1..made' : maxOpen > 0 => InUse(h)' <= maxOpen
  BY <1>1, <1>5 DEF IInv, NothingLeaks
<1>7. LocksInv'
  <2>1. \A d \in Callers : ~At(d, "open")
    BY <1>1 DEF IInv, LocksInv
  <2>2. multi \/ closing = "done"
    BY <1>1 DEF IInv, LocksInv
  <2>3. \A d \in Callers : call'[d].task = "open" <=> d = c /\ dbs = 0
    BY <1>3, <2>1 DEF Moves, At
  <2>4. mu' = "held" <=> dbs = 0
    BY <1>1
  <2>5. mu' = "held" => \E d \in Callers : call'[d].task = "open"
    BY <2>3, <2>4
  <2>6. /\ \A d \in Callers : call'[d].task = "open" => mu' = "held"
        /\ \A d, e \in Callers : call'[d].task = "open" /\ call'[e].task = "open" => d = e
    BY <2>3, <2>4
  <2>7. QED
    BY <1>1, <2>2, <2>4, <2>5, <2>6 DEF IInv, LocksInv, At
<1>8. call'[c].task = "lookup" => dbs # 0
  BY <1>3
<1>9. /\ made' = made /\ dbs' \in {0, made'} /\ mu' \in {"free", "held", "leaked"}
      /\ call'[c].task \in {"open", "lookup"}
  BY <1>1, <1>2, <1>3
<1>10. QED
  BY <1>1, <1>2, <1>3, <1>4, <1>6, <1>7, <1>8, <1>9, StepKeeps

\* A new handle has no connections yet.
LEMMA OpenProjectKeeps == ASSUME IInv, NEW c \in Callers, OpenProject(c) PROVE IInv'
<1>1. /\ At(c, "open") /\ ~At(c, "idle") /\ GotoOn(c, "detect", made') /\ "detect" \in Task
      /\ UNCHANGED <<maxOpen, multi, closed, outer, inner, cached, closing>>
      /\ made' = made + 1 /\ dbs' = made' /\ mu' = "free"
  BY DEF OpenProject, At, Task
<1>2. /\ outer \in [Callers -> 0..made] /\ inner \in [Callers -> 0..made]
      /\ cached \in [Texts -> 0..made] /\ made \in Nat /\ maxOpen \in Nat /\ multi \in BOOLEAN
      /\ closed \in Nat
  BY PoolAssumption DEF IInv, TypeOK
<1>3. made' \in Nat /\ made <= made' /\ made' \in 0..made' /\ 0..made \subseteq 0..made'
  BY <1>1, <1>2
<1>4. /\ outer' \in [Callers -> 0..made'] /\ inner' \in [Callers -> 0..made']
      /\ cached' \in [Texts -> 0..made']
  BY <1>1, <1>2, <1>3
<1>5. Moves(c) /\ call'[c].task = "detect" /\ call'[c].todo = call[c].todo /\ call'[c].on = made'
  BY <1>1, <1>3, GotoOnMoves
<1>6. inner[c] = 0 /\ (outer[c] # 0 => Head(call[c].todo).rows)
  BY <1>1, HoldsNothing DEF At
<1>7. ASSUME NEW h \in 1..made', maxOpen > 0 PROVE InUse(h)' <= maxOpen
  <2>1. InUse(h)' = InUse(h)
    BY <1>1 DEF InUse, RowSets
  <2>2. CASE h \in 1..made
    BY <1>7, <2>1, <2>2 DEF IInv, NothingLeaks
  <2>3. CASE h \notin 1..made
    <3>1. h \notin 0..made
      BY <1>1, <1>2, <2>3
    <3>2. Users(outer, h) = {} /\ Users(inner, h) = {}
      BY <1>2, <3>1 DEF Users
    <3>3. InUse(h) = Cardinality(Users(outer, h)) + Cardinality(Users(inner, h))
      BY InUseCounts
    <3>4. Cardinality({}) = 0
      BY FS_EmptySet
    <3>5. QED
      BY <1>2, <1>7, <2>1, <3>2, <3>3, <3>4
  <2>4. QED
    BY <2>2, <2>3
<1>8. LocksInv'
  <2>1. mu = "held" /\ dbs = 0 /\ made = closed
    BY <1>1 DEF IInv, LocksInv
  <2>2. \A d \in Callers : call'[d].task # "open"
    BY <1>1, <1>5 DEF Moves, IInv, LocksInv, At
  <2>3. \A d \in Callers : call'[d].task = "lock" => multi \/ closing = "done"
    BY <1>5 DEF Moves, IInv, LocksInv, At
  <2>4. made' \in {closed, closed + 1} /\ dbs' # 0 /\ made' # closed
    BY <1>1, <1>2, <2>1
  <2>5. QED
    BY <1>1, <2>2, <2>3, <2>4 DEF IInv, LocksInv, At
<1>9. made' # 0 /\ dbs' \in {0, made'} /\ mu' \in {"free", "held", "leaked"}
  BY <1>1, <1>2
<1>10. QED
  BY <1>1, <1>3, <1>4, <1>5, <1>6, <1>7, <1>8, <1>9, StepKeeps

\* Close touches neither the callers nor their connections.
LEMMA CloseKeeps ==
    ASSUME IInv, UNCHANGED <<maxOpen, multi, made, outer, inner, call>>,
           cached' \in [Texts -> 0..made], closing' \in Closing,
           mu' = mu, dbs' \in {0, made}, closed' \in 0..made, LocksInv'
    PROVE  IInv'
<1>1. TypeOK'
  BY DEF IInv, TypeOK, Closing
<1>2. \A h : InUse(h)' = InUse(h)
  BY DEF InUse, RowSets
<1>3. NothingLeaks'
  BY <1>2 DEF IInv, NothingLeaks, HasRows, At
<1>4. HasStage' /\ PreparesText'
  BY DEF IInv, HasStage, PreparesText, At, Stmt, HasRows
<1>5. QED
  BY <1>1, <1>3, <1>4 DEF IInv

LEMMA QuietCloseKeeps ==
    ASSUME IInv, UNCHANGED <<maxOpen, multi, locks, outer, inner, call>>,
           cached' \in [Texts -> 0..made], closing' \in Closing,
           closing' = "done" <=> closing = "done"
    PROVE  IInv'
<1>1. /\ made' = made /\ closed' = closed /\ dbs' = dbs /\ mu' = mu
  BY DEF locks
<1>2. dbs \in {0, made} /\ closed \in 0..made
  BY DEF IInv, TypeOK
<1>3. LocksInv'
  BY <1>1 DEF IInv, LocksInv, At
<1>4. QED
  BY <1>1, <1>2, <1>3, CloseKeeps

LEMMA CloseHandleKeeps == ASSUME IInv, CloseHandle PROVE IInv'
<1>1. /\ closing = "handle" /\ mu = "free" /\ closing' = "done" /\ dbs' = 0 /\ closed' = made
      /\ UNCHANGED <<maxOpen, multi, mu, made, outer, inner, cached, call>>
  BY DEF CloseHandle
<1>2. made \in Nat /\ cached \in [Texts -> 0..made]
  BY DEF IInv, TypeOK
<1>3. \A c \in Callers : ~At(c, "open")
  BY <1>1 DEF IInv, LocksInv
<1>4. LocksInv'
  BY <1>1, <1>3 DEF LocksInv, At
<1>5. closing' \in Closing /\ dbs' \in {0, made} /\ closed' \in 0..made
  BY <1>1, <1>2 DEF Closing
<1>6. QED
  BY <1>1, <1>2, <1>4, <1>5, CloseKeeps

-----------------------------------------------------------------------------

LEMMA InitHolds == Init => IInv
<1> SUFFICES ASSUME Init PROVE IInv
  OBVIOUS
<1>1. made \in Nat /\ maxOpen \in Nat /\ multi \in BOOLEAN
  BY PoolAssumption DEF Init
<1>2. TypeOK
  <2>1. call \in [Callers -> Record(made)]
    BY <1>1, IdleTyped DEF Init
  <2>2. QED
    BY <1>1, <2>1 DEF Init, TypeOK, Record, Task
<1>3. ASSUME NEW h \in 1..made, maxOpen > 0 PROVE InUse(h) <= maxOpen
  <2>1. h # 0
    BY <1>1, <1>3
  <2>2. Users(outer, h) = {} /\ Users(inner, h) = {}
    BY <2>1 DEF Users, Init
  <2>3. InUse(h) = Cardinality(Users(outer, h)) + Cardinality(Users(inner, h))
    BY InUseCounts
  <2>4. Cardinality({}) = 0
    BY FS_EmptySet
  <2>5. QED
    BY <1>1, <1>3, <2>2, <2>3, <2>4
<1>4. NothingLeaks
  BY <1>3 DEF Init, NothingLeaks, HasRows
<1>5. HasStage /\ PreparesText
  BY DEF Init, HasStage, PreparesText, At, Idle
<1>6. LocksInv
  BY <1>1 DEF Init, LocksInv, At, Idle
<1>7. QED
  BY <1>2, <1>4, <1>5, <1>6 DEF IInv

LEMMA NextKeeps == IInv /\ [Next]_vars => IInv'
<1> SUFFICES ASSUME IInv, [Next]_vars PROVE IInv'
  OBVIOUS
<1>1. ASSUME NEW c \in Callers, Invoke(c) PROVE IInv'
  BY <1>1, InvokeKeeps
<1>2. ASSUME NEW c \in Callers, Get(c) PROVE IInv'
  BY <1>2, TakeKeeps, GetDBKeeps, LockKeeps DEF Get
<1>3. ASSUME NEW c \in Callers, Progress(c) PROVE IInv'
  BY <1>3, OpenProjectKeeps, DetectKeeps, LookupKeeps, PrepareKeeps, StoreKeeps, RunKeeps,
     OpenRowsKeeps, FetchKeeps, EndRowsKeeps, ErrorsKeep DEF Progress
<1>4. ASSUME NEW c \in Callers, Fail(c) \/ BreakOff(c) PROVE IInv'
  BY <1>4, ErrorsKeep
<1>5. CASE BeginClose \/ EndStmts
  BY <1>5, QuietCloseKeeps DEF BeginClose, EndStmts, StmtsLocked, IInv, TypeOK, Closing
<1>6. CASE CloseHandle
  BY <1>6, CloseHandleKeeps
<1>7. ASSUME NEW t \in Texts, CloseStmt(t) PROVE IInv'
  <2>1. cached' \in [Texts -> 0..made] /\ closing' = closing /\ closing \in Closing
    BY <1>7 DEF CloseStmt, IInv, TypeOK, Closing
  <2>2. QED
    BY <1>7, <2>1, QuietCloseKeeps DEF CloseStmt
<1>8. CASE UNCHANGED vars
  BY <1>8, QuietCloseKeeps DEF vars, IInv, TypeOK, Closing
<1>9. QED
  BY <1>1, <1>2, <1>3, <1>4, <1>5, <1>6, <1>7, <1>8 DEF Next, CloseStep

LEMMA AlwaysIInv == Spec => []IInv
BY InitHolds, NextKeeps, PTL DEF Spec

\* Type correctness of the pools and their callers.
THEOREM PoolTypeCorrect == Spec => []TypeOK
<1>1. IInv => TypeOK
  BY DEF IInv
<1>2. QED
  BY <1>1, AlwaysIInv, PTL

\* Whatever fails and in whatever order, each connection in use belongs to a caller at a
\* statement that will give it back, and the limit of each handle is kept: every
\* GetEntities, GetRecentEntities, SearchEntities and SearchSimilar closes its row set on
\* every path.
THEOREM ConnectionsComeBack == Spec => []NothingLeaks
<1>1. IInv => NothingLeaks
  BY DEF IInv
<1>2. QED
  BY <1>1, AlwaysIInv, PTL

LEMMA StuckMeansFull == IInv => StuckOnRowSets
<1>1. IInv /\ LeftLocked => multi \/ closing = "done"
  BY DEF IInv, LocksInv, LeftLocked
<1>2. ASSUME IInv, Stuck, mu # "leaked"
      PROVE  /\ ~Roomy
             /\ \A c \in Callers : inner[c] = 0
             /\ dbs # 0 /\ Cardinality(RowSets(dbs)) = maxOpen
  <2>1. ASSUME NEW c \in Callers PROVE inner[c] = 0
    BY <1>2 DEF IInv, NothingLeaks, Stuck, CanStep, At
  <2>2. ASSUME NEW c \in Callers, call[c].task \in {"prepare", "query", "detect"}
        PROVE  ~Free(call[c].on) /\ ~Closed(call[c].on)
    BY <1>2, <2>1, <2>2 DEF Stuck, CanStep, Asks, At
  \* Close, with stmtMu, waits for a call inside stmt.QueryContext.
  <2>3. ASSUME StmtsLocked
        PROVE  \E d \in Callers : call[d].task = "query"
    BY <1>2, <2>3 DEF Stuck, CloseCanStep, InQuery, At
  \* Nobody holds dm.mu: who opens the project waits for stmtMu alone, and while it is
  \* not open nobody is at a query.
  <2>4. mu = "free"
    <3> SUFFICES ASSUME mu = "held" PROVE FALSE
      BY <1>2 DEF IInv, TypeOK
    <3>1. PICK c \in Callers : At(c, "open")
      BY <1>2 DEF IInv, LocksInv
    <3>2. StmtsLocked /\ dbs = 0
      BY <1>2, <3>1 DEF Stuck, CanStep, At, IInv, LocksInv
    <3>3. made = 0
      BY <1>2, <3>2 DEF StmtsLocked, IInv, LocksInv
    <3>4. PICK d \in Callers : call[d].task = "query"
      BY <2>3, <3>2
    <3>5. call[d].on # 0 /\ call[d].on \in 0..made
      BY <1>2, <3>4, RecordTyped DEF IInv, HasStage
    <3>6. QED
      BY <3>3, <3>5
  <2>5. PICK d \in Callers : call[d].task \in {"prepare", "query", "detect"}
    <3>1. PICK c \in Callers : ~At(c, "idle") /\ ~CanStep(c)
      BY <1>2 DEF Stuck
    <3>2. call[c].task \in {"open", "lookup", "prepare", "store", "query", "detect"}
      BY <1>2, <2>4, <3>1, RecordTyped DEF Task, At, CanStep
    <3>3. CASE call[c].task \in {"open", "lookup", "store"}
      BY <2>3, <3>1, <3>3 DEF CanStep
    <3>4. QED
      BY <3>2, <3>3
  <2> DEFINE h == call[d].on
  <2>6. ~Free(h) /\ ~Closed(h)
    BY <2>2, <2>5
  \* The one handle that is not closed.
  <2>7. h = dbs /\ h # 0 /\ h \in 1..made
    <3>1. h \in 0..made /\ h # 0 /\ made \in Nat /\ closed \in Nat /\ dbs \in {0, made}
      BY <1>2, <2>5, RecordTyped DEF IInv, TypeOK, HasStage
    <3>2. made \in {closed, closed + 1} /\ (dbs = 0 <=> made = closed)
      BY <1>2 DEF IInv, LocksInv
    <3>3. h > closed
      BY <2>6, <3>1 DEF Closed
    <3>4. QED
      BY <3>1, <3>2, <3>3
  <2>8. maxOpen \in Nat /\ maxOpen # 0
    BY <1>2, <2>6, PoolAssumption DEF IInv, TypeOK, Free
  <2>9. InUse(h) <= maxOpen
    BY <1>2, <2>7, <2>8 DEF IInv, NothingLeaks
  <2>10. InUse(h) = Cardinality(Users(outer, h)) + Cardinality(Users(inner, h))
    BY InUseCounts
  <2>11. Cardinality(Users(inner, h)) = 0
    <3>1. Users(inner, h) = {}
      BY <2>1, <2>7 DEF Users
    <3>2. QED
      BY <3>1, FS_EmptySet
  <2>12. /\ Cardinality(Users(outer, h)) \in Nat /\ Cardinality(Callers) \in Nat
         /\ Cardinality(Users(outer, h)) <= Cardinality(Callers)
    BY UsersFinite
  <2>13. Cardinality(Users(outer, h)) = maxOpen
    BY <2>6, <2>8, <2>9, <2>10, <2>11, <2>12 DEF Free
  <2>14. ~Roomy
    BY <2>8, <2>12, <2>13 DEF Roomy
  <2>15. RowSets(dbs) = Users(outer, h)
    BY <2>7 DEF RowSets, Users
  <2>16. QED
    BY <2>1, <2>7, <2>13, <2>14, <2>15
<1>3. QED
  BY <1>1, <1>2 DEF StuckOnRowSets, LeftLocked

\* Calls and Close wait for each other for ever only when dm.mu was left locked, which
\* calls of the default project in single-project mode do not do before Close, or when the row sets of calls that
\* wait for a second connection hold every connection of the limit; the latter never
\* under a limit above the number of calls at once.
THEOREM DeadlockNeedsFullPool == Spec => []StuckOnRowSets
BY AlwaysIInv, StuckMeansFull, PTL

=============================================================================
